------------------------ MODULE RequestMetricsProofs ------------------------
(***************************************************************************)
(* Theorems about the request metrics, for any logs, lines, bounds and     *)
(* caps.  When a log stops being read needs AskedInv alone.  What a report *)
(* says rests on WindowInv: every counter of the open window is the tally  *)
(* of its lines, every histogram that of its durations, and the sites that *)
(* are tracked are the first that were heard of.  Closing a window then    *)
(* makes a report that is exact, in order and honest (ReportInv).          *)
(***************************************************************************)
EXTENDS RequestMetrics, TLAPS, FiniteSetTheorems, SequenceTheorems, NaturalsInduction,
        WellFoundedInduction

(***************************************************************************)
(* A report of a log nobody asks for is followed by the end of the tick,   *)
(* which cannot leave that log in place: whatever the settings file says   *)
(* by then, or if it cannot be read at all, it does not name it, and if it *)
(* names it again meanwhile, the log has been asked for.                   *)
(***************************************************************************)
AskedInv ==
    /\ env => source = Env
    /\ pc = "parse" => source /= Nothing
    /\ unasked \in {0, 1}
    /\ unasked = 1 => pc = "apply" /\ ~env /\ source /= setting /\ source /= Nothing

LEMMA AdoptForgets ==
    ASSUME AskedInv, pc = "apply", NEW enabled, Adopt(enabled),
           enabled = setting \/ enabled = Nothing
    PROVE  unasked' = 0 /\ (env => source' = source)
<1>1. CASE env \/ enabled = source
  <2>1. UNCHANGED <<source, unasked>>
    BY <1>1 DEF Adopt
  <2>2. unasked /= 1
    BY <1>1 DEF AskedInv
  <2>3. QED
    BY <2>1, <2>2 DEF AskedInv
<1>2. CASE ~(env \/ enabled = source)
  BY <1>2 DEF Adopt
<1>3. QED
  BY <1>1, <1>2

LEMMA InitAsked == Init => AskedInv
  BY DEF Init, AskedInv, Env, Nothing

LEMMA NextAsked ==
    ASSUME AskedInv, [Next]_vars
    PROVE  AskedInv'
<1>0. Env /= Nothing /\ (Enabled = setting \/ Enabled = Nothing)
  BY DEF Env, Nothing, Enabled
<1>1. CASE \E to \in Candidates \cup {Nothing} : Switch(to)
  BY <1>1 DEF AskedInv, Switch
<1>2. CASE SampleWithoutLog
  BY <1>2 DEF AskedInv, SampleWithoutLog
<1>3. CASE \E opened, skips \in BOOLEAN : ReadLog(opened, skips)
  BY <1>3 DEF AskedInv, ReadLog, historyVars
<1>4. CASE CloseWindow
  <2>1. /\ pc = "parse" /\ pc' = "apply" /\ UNCHANGED <<setting, env, source>>
        /\ unasked' = IF Asked THEN 0 ELSE unasked + 1
    BY <1>4 DEF CloseWindow
  <2>2. unasked = 0 /\ source /= Nothing
    BY <2>1 DEF AskedInv
  <2>3. CASE Asked
    BY <2>1, <2>2, <2>3 DEF AskedInv
  <2>4. CASE ~Asked
    <3>1. ~env /\ source /= setting
      BY <2>4 DEF Asked, AskedInv
    <3>2. unasked' = 1
      BY <2>1, <2>2, <2>4
    <3>3. QED
      BY <2>1, <2>2, <3>1, <3>2 DEF AskedInv
  <2>5. QED
    BY <2>3, <2>4
<1>5. CASE ApplySetting \/ ApplySettingFails
  <2>1. PICK enabled \in {Enabled, Nothing} :
          pc = "apply" /\ Adopt(enabled) /\ TickEnds /\ UNCHANGED env
    BY <1>5 DEF ApplySetting, ApplySettingFails
  <2>2. unasked' = 0 /\ (env => source' = source)
    BY <1>0, <2>1, AdoptForgets
  <2>3. pc' = "idle" /\ env' = env
    BY <2>1 DEF TickEnds
  <2>4. QED
    BY <2>2, <2>3 DEF AskedInv
<1>6. CASE \E line \in Lines : ParseLine(line)
  BY <1>6 DEF AskedInv, ParseLine
<1>7. CASE TooSoon
  BY <1>7 DEF AskedInv, TooSoon
<1>8. CASE ReadingFails
  BY <1>8 DEF AskedInv, ReadingFails
<1>9. CASE Restart
  BY <1>0, <1>9 DEF AskedInv, Restart, TickEnds
<1>10. CASE UNCHANGED vars
  BY <1>10 DEF AskedInv, vars, historyVars
<1>11. QED
  BY <1>1, <1>2, <1>3, <1>4, <1>5, <1>6, <1>7, <1>8, <1>9, <1>10 DEF Next, TickStep

\* A log is reported on at most once after the setting stopped naming it, however
\* often the setting changes, whenever in a tick it does, and whichever reads of
\* the settings file fail (main.go:322-342).
THEOREM NobodyIsReadUnasked == Spec => []StopsWhenAsked
<1>1. AskedInv => StopsWhenAsked
  BY DEF AskedInv, StopsWhenAsked
<1>2. QED
  BY <1>1, InitAsked, NextAsked, PTL DEF Spec

----------------------------------------------------------------------------
\* Induction in the form the provers can use: over a set.
LEMMA FromZeroUp ==
    ASSUME NEW S, 0 \in S, \A n \in Nat : n \in S => n + 1 \in S
    PROVE  \A n \in Nat : n \in S
<1> DEFINE missing == {n \in Nat : n \notin S}
           less == {ss \in Nat \X Nat : ss[1] < ss[2]}
<1> SUFFICES ASSUME missing /= {} PROVE FALSE
  OBVIOUS
<1>1. PICK x \in missing : \A y \in missing : ~ (<<y, x>> \in less)
  <2>1. IsWellFoundedOn(less, Nat)
    BY NatLessThanWellFounded DEF OpToRel
  <2>2. missing \subseteq Nat
    OBVIOUS
  <2> HIDE DEF less, missing
  <2>3. QED
    BY <2>1, <2>2, WFMin
<1>2. x \in Nat /\ x /= 0
  BY <1>1
<1>3. x - 1 \in Nat /\ <<x - 1, x>> \in less
  BY <1>2
<1>4. x - 1 \in S
  BY <1>1, <1>3
<1>5. (x - 1) + 1 \in S
  BY <1>3, <1>4
<1>6. (x - 1) + 1 = x
  BY <1>2
<1>7. QED
  BY <1>1, <1>5, <1>6

\* A set of naturals has a least element, and that is Min.
LEMMA LeastNatural ==
    ASSUME NEW S \in SUBSET Nat, S /= {}
    PROVE  Min(S) \in S /\ \A y \in S : Min(S) <= y
<1> DEFINE less == {ss \in Nat \X Nat : ss[1] < ss[2]}
<1>1. IsWellFoundedOn(less, Nat)
  BY NatLessThanWellFounded DEF OpToRel
<1>2. PICK x \in S : \A y \in S : ~ (<<y, x>> \in less)
  <2> HIDE DEF less
  <2> QED
    BY <1>1, WFMin
<1>3. ASSUME NEW y \in S PROVE x <= y
  <2>1. x \in Nat /\ y \in Nat
    OBVIOUS
  <2>2. y < x => <<y, x>> \in less
    BY <2>1
  <2>3. ~(y < x)
    BY <1>2, <2>2
  <2>4. QED
    BY <2>1, <2>3
<1>4. QED
  BY <1>3 DEF Min

\* A bounded set of naturals has a greatest one.
LEMMA GreatestNatural ==
    ASSUME NEW S \in SUBSET Nat, S /= {}, NEW b \in Nat, \A x \in S : x <= b
    PROVE  \E m \in S : \A x \in S : x <= m
<1> DEFINE above == {u \in Nat : \A x \in S : x <= u}
           m == Min(above)
<1>1. m \in above /\ \A u \in above : m <= u
  <2>1. above \in SUBSET Nat /\ above /= {}
    OBVIOUS
  <2> HIDE DEF above
  <2>2. QED
    BY <2>1, LeastNatural
<1> HIDE DEF m
<1>2. ASSUME m \notin S PROVE FALSE
  <2>1. \A x \in S : x <= m - 1
    BY <1>1, <1>2
  <2>2. m - 1 \in Nat
    <3>1. PICK x \in S : TRUE
      OBVIOUS
    <3>2. QED
      BY <1>1, <2>1, <3>1
  <2>3. m - 1 \in above
    BY <2>1, <2>2
  <2>4. QED
    BY <1>1, <2>3
<1>3. QED
  BY <1>1, <1>2

LEMMA LessOfTwo ==
    ASSUME NEW a \in Int, NEW b \in Int
    PROVE  /\ Min({a, b}) = IF a <= b THEN a ELSE b
           /\ Max({a, b}) = IF a <= b THEN b ELSE a
<1>1. PICK x \in {a, b} : \A y \in {a, b} : x <= y
  <2>1. a <= b \/ b <= a
    OBVIOUS
  <2>2. QED
    BY <2>1
<1>2. PICK z \in {a, b} : \A y \in {a, b} : z >= y
  <2>1. a <= b \/ b <= a
    OBVIOUS
  <2>2. QED
    BY <2>1
<1>3. Min({a, b}) \in {a, b} /\ \A y \in {a, b} : Min({a, b}) <= y
  BY <1>1 DEF Min
<1>4. Max({a, b}) \in {a, b} /\ \A y \in {a, b} : Max({a, b}) >= y
  BY <1>2 DEF Max
<1>5. QED
  BY <1>3, <1>4

\* The loop that Cumulative stands for has one outcome.
IsCumulative(f, list, n) ==
    f = [i \in 0..n |-> IF i = 0 THEN 0 ELSE f[i - 1] + list[i]]

LEMMA CumulativeExists ==
    ASSUME NEW list
    PROVE  \A n \in Nat : \E f : IsCumulative(f, list, n)
<1> DEFINE S == {n \in Nat : \E f : IsCumulative(f, list, n)}
<1>1. 0 \in S
  <2>1. IsCumulative([i \in 0..0 |-> 0], list, 0)
    BY DEF IsCumulative
  <2>2. QED
    BY <2>1
<1>2. ASSUME NEW n \in Nat, n \in S PROVE n + 1 \in S
  <2>1. PICK f : IsCumulative(f, list, n)
    BY <1>2
  <2> DEFINE last == f[n] + list[n + 1]
             g == [i \in 0..(n + 1) |-> IF i = n + 1 THEN last ELSE f[i]]
             body == [i \in 0..(n + 1) |-> IF i = 0 THEN 0 ELSE g[i - 1] + list[i]]
  <2>2. \A i \in 0..n : f[i] = IF i = 0 THEN 0 ELSE f[i - 1] + list[i]
    BY <2>1 DEF IsCumulative
  <2>3. g[n + 1] = last /\ \A i \in 0..n : g[i] = f[i]
    OBVIOUS
  <2>4. ASSUME NEW i \in 0..(n + 1) PROVE g[i] = body[i]
    <3>0. body[i] = IF i = 0 THEN 0 ELSE g[i - 1] + list[i]
      OBVIOUS
    <3> HIDE DEF body
    <3>1. CASE i = n + 1
      <4>1. i - 1 = n /\ g[i - 1] = f[n] /\ i /= 0
        BY <2>3, <3>1
      <4>2. QED
        BY <2>3, <3>0, <3>1, <4>1
    <3>2. CASE i = 0
      BY <2>2, <2>3, <3>0, <3>2
    <3>3. CASE i \in 1..n
      <4>1. i - 1 \in 0..n /\ i \in 0..n /\ i /= 0
        BY <3>3
      <4>2. g[i - 1] = f[i - 1] /\ g[i] = f[i]
        BY <2>3, <4>1
      <4> HIDE DEF g, last
      <4>3. QED
        BY <2>2, <3>0, <4>1, <4>2
    <3>4. QED
      BY <3>1, <3>2, <3>3
  <2>5. g = body
    <3>1. g = [i \in 0..(n + 1) |-> g[i]] /\ body = [i \in 0..(n + 1) |-> body[i]]
      OBVIOUS
    <3> HIDE DEF g, body
    <3>2. QED
      BY <2>4, <3>1
  <2>6. IsCumulative(g, list, n + 1)
    <3> HIDE DEF g
    <3> QED
      BY <2>5 DEF IsCumulative
  <2>7. \E h : IsCumulative(h, list, n + 1)
    <3> HIDE DEF g
    <3> QED
      BY <2>6
  <2>8. QED
    BY <2>7
<1>3. QED
  <2> HIDE DEF S
  <2>1. \A n \in Nat : n \in S
    BY <1>1, <1>2, FromZeroUp
  <2>2. QED
    BY <2>1 DEF S

LEMMA CumulativeSums ==
    ASSUME NEW list \in Seq(Nat)
    PROVE  /\ Cumulative(list) \in [0..Len(list) -> Nat]
           /\ Cumulative(list)[0] = 0
           /\ \A i \in 1..Len(list) : Cumulative(list)[i] = Cumulative(list)[i - 1] + list[i]
<1> DEFINE n == Len(list)
           f == CHOOSE f : IsCumulative(f, list, n)
<1>1. n \in Nat /\ \A i \in 1..n : list[i] \in Nat
  OBVIOUS
<1>2. IsCumulative(f, list, n)
  BY <1>1, CumulativeExists
<1>3. Cumulative(list) = f
  BY DEF Cumulative, IsCumulative
<1> HIDE DEF f, n
<1>4. /\ f = [i \in 0..n |-> f[i]]
      /\ \A i \in 0..n : f[i] = IF i = 0 THEN 0 ELSE f[i - 1] + list[i]
  BY <1>2 DEF IsCumulative
<1>5. f[0] = 0 /\ \A i \in 1..n : f[i] = f[i - 1] + list[i]
  <2>1. 0 \in 0..n
    BY <1>1
  <2>2. \A i \in 1..n : i \in 0..n /\ i /= 0
    BY <1>1
  <2>3. QED
    BY <1>4, <2>1, <2>2
<1> DEFINE S == {k \in Nat : k <= n => f[k] \in Nat}
<1>6. 0 \in S
  BY <1>5
<1>7. ASSUME NEW k \in Nat, k \in S PROVE k + 1 \in S
  <2>1. CASE k + 1 <= n
    <3>1. k + 1 \in 1..n /\ f[k] \in Nat /\ (k + 1) - 1 = k
      BY <1>1, <1>7, <2>1
    <3>2. f[k + 1] = f[k] + list[k + 1]
      BY <1>5, <3>1
    <3>3. QED
      BY <1>1, <3>1, <3>2
  <2>2. CASE ~(k + 1 <= n)
    BY <2>2
  <2>3. QED
    BY <2>1, <2>2
<1>8. \A k \in Nat : k \in S
  <2> HIDE DEF S
  <2> QED
    BY <1>6, <1>7, FromZeroUp
<1>9. \A k \in 0..n : f[k] \in Nat
  BY <1>1, <1>8
<1>10. QED
  BY <1>3, <1>4, <1>5, <1>9 DEF n

----------------------------------------------------------------------------
(* The histogram *)

LEMMA BoundsRise ==
    /\ Len(Bounds) \in Nat /\ Len(Bounds) >= 1 /\ Overflow = Len(Bounds) + 1
    /\ Overflow \in Nat
    /\ \A k \in 1..Len(Bounds) : Bounds[k] \in Nat /\ Bounds[k] >= 1
    /\ \A j, k \in 1..Len(Bounds) : j <= k => Bounds[j] <= Bounds[k]
<1> DEFINE n == Len(Bounds)
<1>1. n \in Nat /\ n >= 1 /\ \A k \in 1..n : Bounds[k] \in Nat /\ Bounds[k] >= 1
  BY HistogramAssumption
<1>2. \A k \in 1..(n - 1) : Bounds[k] < Bounds[k + 1]
  BY HistogramAssumption
<1> DEFINE S == {m \in Nat : m <= n => \A j \in 1..n : j <= m => Bounds[j] <= Bounds[m]}
<1> HIDE DEF n
<1>3. 0 \in S
  BY <1>1
<1>4. ASSUME NEW m \in Nat, m \in S PROVE m + 1 \in S
  <2> SUFFICES ASSUME m + 1 <= n, NEW j \in 1..n, j <= m + 1
               PROVE  Bounds[j] <= Bounds[m + 1]
    OBVIOUS
  <2>1. CASE j = m + 1
    BY <1>1, <2>1
  <2>2. CASE j <= m
    <3>1. m \in 1..(n - 1) /\ m \in 1..n /\ m + 1 \in 1..n
      BY <1>1, <2>2
    <3>2. Bounds[j] <= Bounds[m] /\ Bounds[m] < Bounds[m + 1]
      BY <1>1, <1>2, <1>4, <2>2, <3>1
    <3>3. QED
      BY <1>1, <3>1, <3>2
  <2>3. QED
    BY <1>1, <2>1, <2>2
<1>5. \A m \in Nat : m \in S
  <2> HIDE DEF S
  <2> QED
    BY <1>3, <1>4, FromZeroUp
<1>6. \A j, k \in 1..n : j <= k => Bounds[j] <= Bounds[k]
  BY <1>1, <1>5
<1>7. QED
  BY <1>1, <1>6 DEF n, Overflow

\* The binary search: a duration is counted at or below bucket k exactly when it
\* does not exceed that bucket's bound (histogram.go:38).
LEMMA BucketOf ==
    ASSUME NEW ms \in Int
    PROVE  /\ Bucket(ms) \in 1..Overflow
           /\ \A k \in 1..Len(Bounds) : Bucket(ms) <= k <=> ms <= Bounds[k]
<1> DEFINE S == {i \in 1..Len(Bounds) : Bounds[i] >= ms} \cup {Overflow}
<1>1. S \in SUBSET (1..Overflow) /\ S \in SUBSET Nat /\ Overflow \in S
  BY BoundsRise
<1>2. Bucket(ms) = Min(S)
  BY DEF Bucket
<1> HIDE DEF S
<1>3. Bucket(ms) \in S /\ \A y \in S : Bucket(ms) <= y
  BY <1>1, <1>2, LeastNatural
<1>4. ASSUME NEW k \in 1..Len(Bounds) PROVE Bucket(ms) <= k <=> ms <= Bounds[k]
  <2>1. Bounds[k] \in Nat /\ k < Overflow
    BY BoundsRise
  <2>2. CASE ms <= Bounds[k]
    <3>1. k \in S
      BY <2>1, <2>2 DEF S
    <3>2. QED
      BY <1>3, <2>2, <3>1
  <2>3. CASE Bucket(ms) <= k
    <3>1. Bucket(ms) /= Overflow
      BY <1>1, <1>3, <2>1, <2>3, BoundsRise
    <3>2. Bucket(ms) \in 1..Len(Bounds) /\ Bounds[Bucket(ms)] >= ms
      BY <1>3, <3>1 DEF S
    <3>3. Bounds[Bucket(ms)] <= Bounds[k] /\ Bounds[Bucket(ms)] \in Nat
      BY <2>3, <3>2, BoundsRise
    <3>4. QED
      BY <2>1, <2>3, <3>2, <3>3
  <2>4. QED
    BY <2>2, <2>3
<1>5. QED
  BY <1>1, <1>3, <1>4

(***************************************************************************)
(* What a histogram holds of the durations ds of the lines it was shown.   *)
(***************************************************************************)
Histograms ==
    [counts : [1..Overflow -> Nat], total : Nat, minSeen : Nat, maxSeen : Nat,
     haveSeen : BOOLEAN]

InBucket(ds, k) == {i \in DOMAIN ds : Bucket(ds[i]) = k}

HistogramOf(h, ds) ==
    /\ h \in Histograms
    /\ \A k \in 1..Overflow : h.counts[k] = Cardinality(InBucket(ds, k))
    /\ h.total = Cardinality(DOMAIN ds)
    /\ h.haveSeen <=> DOMAIN ds /= {}
    /\ h.haveSeen => /\ \E i \in DOMAIN ds : ds[i] = h.minSeen
                     /\ \E i \in DOMAIN ds : ds[i] = h.maxSeen
                     /\ \A i \in DOMAIN ds : h.minSeen <= ds[i] /\ ds[i] <= h.maxSeen

\* Durations that a histogram counts, one for each line of a finite set.
Durable(ds) ==
    /\ IsFiniteSet(DOMAIN ds)
    /\ \A i \in DOMAIN ds : ds[i] \in Nat

\* One line more: e is ds with one more duration, in place x.
Extends(e, ds, x) ==
    /\ x \notin DOMAIN ds /\ DOMAIN e = DOMAIN ds \cup {x}
    /\ \A i \in DOMAIN ds : e[i] = ds[i]

LEMMA NewHistogramOf ==
    ASSUME NEW ds, DOMAIN ds = {}
    PROVE  HistogramOf(NewHistogram, ds)
<1>1. \A k \in 1..Overflow : InBucket(ds, k) = {}
  BY DEF InBucket
<1>2. Cardinality({}) = 0
  BY FS_EmptySet
<1>3. NewHistogram \in Histograms
  BY DEF NewHistogram, Histograms
<1>4. /\ \A k \in 1..Overflow : NewHistogram.counts[k] = 0
      /\ NewHistogram.total = 0 /\ NewHistogram.haveSeen = FALSE
  BY DEF NewHistogram
<1>5. QED
  BY <1>1, <1>2, <1>3, <1>4 DEF HistogramOf

LEMMA ResetIsNew ==
    ASSUME NEW h \in Histograms
    PROVE  Reset(h) = NewHistogram
<1> DEFINE zero == [i \in 1..Overflow |-> 0]
           r == Reset(h)
<1>1. zero \in [1..Overflow -> Nat]
  OBVIOUS
<1> HIDE DEF zero
<1>2. r \in Histograms
  <2>1. r = [h EXCEPT !.counts = zero, !.total = 0, !.haveSeen = FALSE,
                      !.minSeen = 0, !.maxSeen = 0]
    BY DEF Reset, zero
  <2>2. 0 \in Nat /\ FALSE \in BOOLEAN
    OBVIOUS
  <2>3. QED
    BY <1>1, <2>1, <2>2 DEF Histograms
<1>3. r.counts = zero /\ r.total = 0 /\ r.minSeen = 0 /\ r.maxSeen = 0
  BY DEF Reset, Histograms, zero
<1>4. r.haveSeen = FALSE
  BY DEF Reset, Histograms
<1>5. NewHistogram = [counts |-> zero, total |-> 0, minSeen |-> 0, maxSeen |-> 0,
                      haveSeen |-> FALSE]
  BY DEF NewHistogram, zero
<1> HIDE DEF r
<1>6. r = NewHistogram
  <2>1. r = [counts |-> r.counts, total |-> r.total, minSeen |-> r.minSeen,
             maxSeen |-> r.maxSeen, haveSeen |-> r.haveSeen]
    BY <1>2 DEF Histograms
  <2>2. QED
    BY <1>3, <1>4, <1>5, <2>1
<1>7. QED
  BY <1>6 DEF r

\* observe: a duration that is counted makes the histogram of one line more.
LEMMA ObserveCounts ==
    ASSUME NEW h, NEW ds, HistogramOf(h, ds), Durable(ds),
           NEW e, NEW x, Extends(e, ds, x), NEW ms \in Nat, e[x] = ms
    PROVE  HistogramOf(Observe(h, ms), e)
<1> DEFINE o == Observe(h, ms)
           b == Bucket(ms)
<1>1. b \in 1..Overflow
  BY BucketOf
<1>2. /\ h.counts \in [1..Overflow -> Nat] /\ h.total \in Nat
      /\ h.minSeen \in Nat /\ h.maxSeen \in Nat /\ h.haveSeen \in BOOLEAN
  BY DEF HistogramOf, Histograms
<1>3. o = [counts   |-> [h.counts EXCEPT ![b] = @ + 1],
           total    |-> h.total + 1,
           minSeen  |-> IF h.haveSeen THEN Min({h.minSeen, ms}) ELSE ms,
           maxSeen  |-> IF h.haveSeen THEN Max({h.maxSeen, ms}) ELSE ms,
           haveSeen |-> TRUE]
  BY DEF Observe
<1> HIDE DEF o, b
<1>4. /\ o.counts = [h.counts EXCEPT ![b] = @ + 1] /\ o.total = h.total + 1
      /\ o.minSeen = IF h.haveSeen THEN Min({h.minSeen, ms}) ELSE ms
      /\ o.maxSeen = IF h.haveSeen THEN Max({h.maxSeen, ms}) ELSE ms
      /\ o.haveSeen = TRUE
  BY <1>3
<1>5. /\ o.minSeen = IF h.haveSeen /\ h.minSeen <= ms THEN h.minSeen ELSE ms
      /\ o.maxSeen = IF h.haveSeen /\ ms < h.maxSeen THEN h.maxSeen ELSE ms
  <2>1. Min({h.minSeen, ms}) = IF h.minSeen <= ms THEN h.minSeen ELSE ms
    BY <1>2, LessOfTwo
  <2>2. Max({h.maxSeen, ms}) = IF h.maxSeen <= ms THEN ms ELSE h.maxSeen
    <3>1. \A a \in Int : Max({a, ms}) = IF a <= ms THEN ms ELSE a
      BY LessOfTwo
    <3>2. QED
      BY <1>2, <3>1
  <2>3. QED
    BY <1>2, <1>4, <2>1, <2>2
<1>6. o \in Histograms
  <2>1. o.counts \in [1..Overflow -> Nat]
    <3>1. o.counts = [h.counts EXCEPT ![b] = @ + 1]
      BY <1>4
    <3>2. \A c \in [1..Overflow -> Nat], k \in 1..Overflow :
            [c EXCEPT ![k] = @ + 1] \in [1..Overflow -> Nat]
      OBVIOUS
    <3>3. h.counts \in [1..Overflow -> Nat]
      BY <1>2
    <3>4. QED
      BY <1>1, <3>1, <3>2, <3>3
  <2>2. /\ o.total \in Nat /\ o.minSeen \in Nat /\ o.maxSeen \in Nat
        /\ o.haveSeen \in BOOLEAN
    <3>1. o.total = h.total + 1
      BY <1>4
    <3>2. o.minSeen \in {h.minSeen, ms} /\ o.maxSeen \in {h.maxSeen, ms}
      BY <1>5
    <3>3. o.haveSeen \in BOOLEAN
      BY <1>4
    <3>4. QED
      BY <1>2, <3>1, <3>2, <3>3
  <2>3. o = [counts |-> o.counts, total |-> o.total, minSeen |-> o.minSeen,
             maxSeen |-> o.maxSeen, haveSeen |-> o.haveSeen]
    BY <1>3
  <2>4. QED
    BY <2>1, <2>2, <2>3 DEF Histograms
<1>7. ASSUME NEW k \in 1..Overflow PROVE o.counts[k] = Cardinality(InBucket(e, k))
  <2>1. /\ IsFiniteSet(InBucket(ds, k)) /\ x \notin InBucket(ds, k)
    <3>1. InBucket(ds, k) \in SUBSET DOMAIN ds
      BY DEF InBucket
    <3>2. QED
      BY <3>1, FS_Subset DEF Durable, Extends
  <2>2. h.counts[k] = Cardinality(InBucket(ds, k))
    BY DEF HistogramOf
  <2>3. CASE k = b
    <3>1. InBucket(e, k) = InBucket(ds, k) \cup {x}
      BY <2>3 DEF InBucket, Extends, b
    <3>2. Cardinality(InBucket(e, k)) = Cardinality(InBucket(ds, k)) + 1
      BY <2>1, <3>1, FS_AddElement
    <3>3. QED
      BY <1>2, <1>4, <2>2, <2>3, <3>2
  <2>4. CASE k /= b
    <3>1. InBucket(e, k) = InBucket(ds, k)
      BY <2>4 DEF InBucket, Extends, b
    <3>2. QED
      BY <1>2, <1>4, <2>2, <2>4, <3>1
  <2>5. QED
    BY <2>3, <2>4
<1>8. o.total = Cardinality(DOMAIN e)
  <2>1. Cardinality(DOMAIN e) = Cardinality(DOMAIN ds) + 1
    BY FS_AddElement DEF Durable, Extends
  <2>2. QED
    BY <1>4, <2>1 DEF HistogramOf
<1>9. /\ \E i \in DOMAIN e : e[i] = o.minSeen
      /\ \E i \in DOMAIN e : e[i] = o.maxSeen
  <2>1. \A i \in DOMAIN ds : i \in DOMAIN e /\ e[i] = ds[i]
    BY DEF Extends
  <2>2. x \in DOMAIN e /\ e[x] = ms
    BY DEF Extends
  <2>3. h.haveSeen => /\ \E i \in DOMAIN e : e[i] = h.minSeen
                      /\ \E i \in DOMAIN e : e[i] = h.maxSeen
    BY <2>1 DEF HistogramOf
  <2>4. QED
    BY <1>5, <2>2, <2>3
<1>10. ASSUME NEW i \in DOMAIN e PROVE o.minSeen <= e[i] /\ e[i] <= o.maxSeen
  <2>1. CASE i = x
    BY <1>2, <1>5, <2>1
  <2>2. CASE i \in DOMAIN ds
    <3>1. h.haveSeen /\ h.minSeen <= ds[i] /\ ds[i] <= h.maxSeen
      BY <2>2 DEF HistogramOf
    <3>2. e[i] = ds[i] /\ ds[i] \in Nat
      BY <2>2 DEF Extends, Durable
    <3>3. QED
      BY <1>2, <1>5, <3>1, <3>2
  <2>3. QED
    BY <2>1, <2>2 DEF Extends
<1>11. DOMAIN e /= {}
  BY DEF Extends
<1>12. HistogramOf(o, e)
  BY <1>4, <1>6, <1>7, <1>8, <1>9, <1>10, <1>11 DEF HistogramOf
<1>13. QED
  BY <1>12 DEF o

\* How many durations are in the first k buckets.
Below(ds, k) == {i \in DOMAIN ds : Bucket(ds[i]) <= k}

LEMMA BelowGrows ==
    ASSUME NEW ds, Durable(ds), NEW j \in Int, NEW k \in Int, j <= k
    PROVE  /\ IsFiniteSet(Below(ds, k)) /\ Cardinality(Below(ds, k)) \in Nat
           /\ Cardinality(Below(ds, j)) <= Cardinality(Below(ds, k))
<1>1. Below(ds, k) \in SUBSET DOMAIN ds
  BY DEF Below
<1>2. IsFiniteSet(Below(ds, k))
  BY <1>1, FS_Subset DEF Durable
<1>3. Below(ds, j) \in SUBSET Below(ds, k)
  <2>1. \A i \in DOMAIN ds : Bucket(ds[i]) \in Int
    BY BucketOf, BoundsRise DEF Durable
  <2>2. QED
    BY <2>1 DEF Below
<1>4. QED
  BY <1>2, <1>3, FS_Subset, FS_CardinalityType

\* The running sum of the buckets counts the durations of the first k.
LEMMA SumOfBuckets ==
    ASSUME NEW h, NEW ds, HistogramOf(h, ds), Durable(ds)
    PROVE  /\ Cumulative(h.counts) \in [0..Overflow -> Nat]
           /\ \A k \in 1..Overflow :
                Cumulative(h.counts)[k] = Cumulative(h.counts)[k - 1] + h.counts[k]
           /\ \A k \in 0..Overflow : Cumulative(h.counts)[k] = Cardinality(Below(ds, k))
<1> DEFINE c == Cumulative(h.counts)
<1>0. Overflow \in Nat
  BY BoundsRise
<1>1. h.counts \in [1..Overflow -> Nat]
  BY DEF HistogramOf, Histograms
<1>2. h.counts \in Seq(Nat) /\ Len(h.counts) = Overflow
  BY <1>0, <1>1
<1>3. /\ c \in [0..Overflow -> Nat] /\ c[0] = 0
      /\ \A k \in 1..Overflow : c[k] = c[k - 1] + h.counts[k]
  BY <1>2, CumulativeSums
<1> HIDE DEF c
<1>b. \A i \in DOMAIN ds : Bucket(ds[i]) \in 1..Overflow
  BY BucketOf DEF Durable
<1> DEFINE S == {k \in Nat : k <= Overflow => c[k] = Cardinality(Below(ds, k))}
<1>4. 0 \in S
  <2>1. Below(ds, 0) = {}
    BY <1>0, <1>b DEF Below
  <2>2. QED
    BY <1>3, <2>1, FS_EmptySet
<1>5. ASSUME NEW k \in Nat, k \in S PROVE k + 1 \in S
  <2> SUFFICES ASSUME k + 1 <= Overflow PROVE c[k + 1] = Cardinality(Below(ds, k + 1))
    OBVIOUS
  <2>0. k + 1 \in 1..Overflow /\ (k + 1) - 1 = k /\ k <= Overflow
    BY <1>0
  <2>1. c[k + 1] = c[k] + h.counts[k + 1]
    BY <1>3, <2>0
  <2>2. h.counts[k + 1] = Cardinality(InBucket(ds, k + 1))
    BY <2>0 DEF HistogramOf
  <2>3. c[k] = Cardinality(Below(ds, k))
    BY <1>5, <2>0
  <2>4. /\ Below(ds, k + 1) = Below(ds, k) \cup InBucket(ds, k + 1)
        /\ Below(ds, k) \cap InBucket(ds, k + 1) = {}
    BY <1>0, <1>b DEF Below, InBucket
  <2>5. IsFiniteSet(Below(ds, k)) /\ IsFiniteSet(InBucket(ds, k + 1))
    <3>1. Below(ds, k) \in SUBSET DOMAIN ds /\ InBucket(ds, k + 1) \in SUBSET DOMAIN ds
      BY DEF Below, InBucket
    <3>2. QED
      BY <3>1, FS_Subset DEF Durable
  <2>6. /\ Cardinality(Below(ds, k + 1)) =
             Cardinality(Below(ds, k)) + Cardinality(InBucket(ds, k + 1)) - Cardinality({})
        /\ Cardinality({}) = 0
    BY <2>4, <2>5, FS_Union, FS_EmptySet
  <2>7. Cardinality(Below(ds, k)) \in Nat /\ Cardinality(InBucket(ds, k + 1)) \in Nat
    BY <2>5, FS_CardinalityType
  <2>8. QED
    BY <2>1, <2>2, <2>3, <2>6, <2>7
<1>6. \A k \in Nat : k \in S
  <2> HIDE DEF S
  <2> QED
    BY <1>4, <1>5, FromZeroUp
<1>7. \A k \in 0..Overflow : c[k] = Cardinality(Below(ds, k))
  BY <1>0, <1>6
<1>8. QED
  BY <1>3, <1>7 DEF c

\* The true percentile is at or below b exactly when enough durations are.
LEMMA ExactRank ==
    ASSUME NEW ds, Durable(ds), DOMAIN ds /= {}, NEW top \in Nat,
           \A i \in DOMAIN ds : ds[i] <= top,
           NEW p \in Percents, NEW b \in Nat
    PROVE  Exact(ds, p) <= b <=> 100 * AtOrBelow(ds, b) >= p * Cardinality(DOMAIN ds)
<1> DEFINE n == Cardinality(DOMAIN ds)
           need == p * n
           enough == {d \in Range(ds) : 100 * AtOrBelow(ds, d) >= need}
<1>1. n \in Nat /\ n >= 1
  BY FS_CardinalityType, FS_EmptySet DEF Durable
<1>2. need \in Nat /\ need >= 1 /\ need <= 100 * n
  BY <1>1 DEF Percents
<1>3. Exact(ds, p) = Min(enough)
  BY DEF Exact
<1> HIDE DEF n, need
<1>4. ASSUME NEW d \in Int
      PROVE  /\ IsFiniteSet({i \in DOMAIN ds : ds[i] <= d})
             /\ AtOrBelow(ds, d) \in Nat
  <2>1. {i \in DOMAIN ds : ds[i] <= d} \in SUBSET DOMAIN ds
    OBVIOUS
  <2>2. QED
    BY <2>1, FS_Subset, FS_CardinalityType DEF Durable, AtOrBelow
<1>5. ASSUME NEW d \in Int, NEW e \in Int, d <= e
      PROVE  AtOrBelow(ds, d) <= AtOrBelow(ds, e)
  <2>1. {i \in DOMAIN ds : ds[i] <= d} \in SUBSET {i \in DOMAIN ds : ds[i] <= e}
    BY <1>5 DEF Durable
  <2>2. QED
    BY <1>4, <2>1, FS_Subset DEF AtOrBelow
<1>6. Range(ds) \in SUBSET Nat
  BY DEF Range, Durable
<1>7. ASSUME NEW e \in Nat, 100 * AtOrBelow(ds, e) >= need
      PROVE  \E d \in enough : d <= e
  <2> DEFINE low == {d \in Range(ds) : d <= e}
  <2>1. low \in SUBSET Nat /\ \A d \in low : d <= e
    BY <1>6
  <2>2. low /= {}
    <3>1. {i \in DOMAIN ds : ds[i] <= e} /= {}
      <4>1. AtOrBelow(ds, e) /= 0
        BY <1>2, <1>4, <1>7
      <4>2. QED
        BY <4>1, FS_EmptySet DEF AtOrBelow
    <3>2. QED
      BY <3>1 DEF Range
  <2>3. PICK m \in low : \A d \in low : d <= m
    <3> HIDE DEF low
    <3> QED
      BY <2>1, <2>2, GreatestNatural
  <2>4. {i \in DOMAIN ds : ds[i] <= m} = {i \in DOMAIN ds : ds[i] <= e}
    <3>1. m \in Nat /\ m <= e
      BY <2>1, <2>3
    <3>2. \A i \in DOMAIN ds : ds[i] \in Nat /\ (ds[i] <= e => ds[i] <= m)
      BY <2>3 DEF Range, Durable
    <3>3. QED
      BY <3>1, <3>2
  <2>5. AtOrBelow(ds, m) = AtOrBelow(ds, e)
    BY <2>4 DEF AtOrBelow
  <2>6. m \in enough /\ m <= e
    BY <1>7, <2>3, <2>5
  <2>7. QED
    BY <2>6
<1>8. enough \in SUBSET Nat /\ enough /= {}
  <2>1. {i \in DOMAIN ds : ds[i] <= top} = DOMAIN ds
    OBVIOUS
  <2>2. AtOrBelow(ds, top) = n
    BY <2>1 DEF AtOrBelow, n
  <2>3. 100 * AtOrBelow(ds, top) >= need
    BY <1>1, <1>2, <2>2
  <2>4. \E d \in enough : d <= top
    BY <1>7, <2>3
  <2>5. QED
    BY <1>6, <2>4
<1>9. Exact(ds, p) \in enough /\ \A d \in enough : Exact(ds, p) <= d
  <2> HIDE DEF enough
  <2> QED
    BY <1>3, <1>8, LeastNatural
<1>10. ASSUME Exact(ds, p) <= b PROVE 100 * AtOrBelow(ds, b) >= need
  <2>1. Exact(ds, p) \in Nat /\ 100 * AtOrBelow(ds, Exact(ds, p)) >= need
    BY <1>6, <1>9
  <2>2. AtOrBelow(ds, Exact(ds, p)) <= AtOrBelow(ds, b)
    BY <1>5, <1>10, <2>1
  <2>3. AtOrBelow(ds, Exact(ds, p)) \in Nat /\ AtOrBelow(ds, b) \in Nat
    <3>1. \A d \in Int : AtOrBelow(ds, d) \in Nat
      BY <1>4
    <3>2. Exact(ds, p) \in Int /\ b \in Int
      BY <2>1
    <3>3. QED
      BY <3>1, <3>2
  <2>4. QED
    BY <1>2, <2>1, <2>2, <2>3
<1>11. ASSUME 100 * AtOrBelow(ds, b) >= need PROVE Exact(ds, p) <= b
  <2>1. PICK d \in enough : d <= b
    BY <1>7, <1>11
  <2>2. Exact(ds, p) <= d /\ d \in Nat /\ Exact(ds, p) \in Nat
    BY <1>8, <1>9
  <2>3. QED
    BY <2>1, <2>2
<1>12. QED
  BY <1>10, <1>11 DEF need, n

\* The bucket at which a histogram's running sum reaches a share of its total, as
\* quantile finds it: the only place where enough durations are counted and, one
\* bucket before, not enough (histogram.go:79-88).
LEMMA RankReached ==
    ASSUME NEW h, NEW ds, HistogramOf(h, ds), Durable(ds), DOMAIN ds /= {}, NEW p \in Percents
    PROVE  \E i \in 1..Overflow :
             LET c == Cumulative(h.counts) IN
             /\ i = Min({j \in 1..Overflow : h.counts[j] > 0 /\ 100 * c[j] >= p * h.total})
             /\ h.counts[i] > 0 /\ c[i] = c[i - 1] + h.counts[i] /\ c[i - 1] \in Nat
             /\ 100 * c[i - 1] < p * h.total /\ 100 * c[i] >= p * h.total
             /\ \A k \in 1..Overflow : 100 * c[k] >= p * h.total <=> k >= i
<1> DEFINE c == Cumulative(h.counts)
           need == p * h.total
           reach == {j \in 1..Overflow : 100 * c[j] >= need}
           found == {j \in 1..Overflow : h.counts[j] > 0 /\ 100 * c[j] >= need}
           i == Min(reach)
<1>0. Overflow \in Nat /\ Overflow >= 1
  BY BoundsRise
<1>1. h.total = Cardinality(DOMAIN ds) /\ h.total \in Nat /\ h.total >= 1
  BY FS_CardinalityType, FS_EmptySet DEF Durable, HistogramOf
<1>2. need \in Nat /\ need >= 1 /\ need <= 100 * h.total
  BY <1>1 DEF Percents
<1>3. /\ c \in [0..Overflow -> Nat]
      /\ \A k \in 1..Overflow : c[k] = c[k - 1] + h.counts[k]
      /\ \A k \in 0..Overflow : c[k] = Cardinality(Below(ds, k))
  BY SumOfBuckets
<1>4. \A k \in 0..Overflow : c[k] \in Nat
  BY <1>3
<1>5. \A k \in 1..Overflow : h.counts[k] \in Nat /\ k - 1 \in 0..Overflow
  BY <1>0 DEF HistogramOf, Histograms
<1>6. c[0] = 0 /\ c[Overflow] = h.total
  <2>1. \A x \in DOMAIN ds : Bucket(ds[x]) \in 1..Overflow
    BY BucketOf DEF Durable
  <2>2. Below(ds, 0) = {} /\ Below(ds, Overflow) = DOMAIN ds
    BY <1>0, <2>1 DEF Below
  <2>3. 0 \in 0..Overflow /\ Overflow \in 0..Overflow
    BY <1>0
  <2>4. QED
    BY <1>1, <1>3, <2>2, <2>3, FS_EmptySet
<1>7. \A j, k \in 0..Overflow : j <= k => c[j] <= c[k]
  <2>1. \A j, k \in 0..Overflow :
          j <= k => Cardinality(Below(ds, j)) <= Cardinality(Below(ds, k))
    BY <1>0, BelowGrows
  <2>2. QED
    BY <1>3, <2>1
<1> HIDE DEF c, need
<1>8. i \in reach /\ \A j \in reach : i <= j
  <2>1. Overflow \in reach /\ reach \in SUBSET Nat
    BY <1>0, <1>1, <1>2, <1>6
  <2> HIDE DEF reach
  <2>2. QED
    BY <2>1, LeastNatural
<1>9. i \in 1..Overflow /\ 100 * c[i] >= need
  BY <1>8
<1> HIDE DEF i
<1>10. 100 * c[i - 1] < need
  <2>1. CASE i = 1
    BY <1>2, <1>6, <2>1
  <2>2. CASE i > 1
    <3>1. i - 1 \in 1..Overflow /\ i - 1 \in 0..Overflow /\ ~(i <= i - 1)
      BY <1>0, <1>9, <2>2
    <3>2. ~(100 * c[i - 1] >= need)
      BY <1>8, <3>1
    <3>3. QED
      BY <1>2, <1>4, <3>1, <3>2
  <2>3. QED
    BY <1>9, <2>1, <2>2
<1>11. c[i] = c[i - 1] + h.counts[i] /\ c[i - 1] \in Nat /\ h.counts[i] \in Nat
  BY <1>3, <1>4, <1>5, <1>9
<1>12. h.counts[i] > 0
  BY <1>2, <1>9, <1>10, <1>11
<1>13. i = Min(found)
  <2>1. i \in found /\ found \subseteq reach /\ found \in SUBSET Nat
    BY <1>9, <1>12
  <2>2. \A j \in found : i <= j
    BY <1>8, <2>1
  <2> HIDE DEF found
  <2>3. Min(found) \in found /\ \A j \in found : Min(found) <= j
    BY <2>1, LeastNatural
  <2>4. i <= Min(found) /\ Min(found) <= i /\ i \in Nat /\ Min(found) \in Nat
    BY <2>1, <2>2, <2>3
  <2>5. QED
    BY <2>4
<1>14. ASSUME NEW k \in 1..Overflow PROVE 100 * c[k] >= need <=> k >= i
  <2>1. CASE k >= i
    <3>1. c[i] <= c[k] /\ c[i] \in Nat /\ c[k] \in Nat
      BY <1>0, <1>4, <1>7, <1>9, <2>1
    <3>2. QED
      BY <1>2, <1>9, <2>1, <3>1
  <2>2. CASE 100 * c[k] >= need
    <3>1. k \in reach
      BY <2>2
    <3>2. QED
      BY <1>8, <1>9, <2>2, <3>1
  <2>3. QED
    BY <2>1, <2>2
<1>15. QED
  BY <1>9, <1>10, <1>11, <1>12, <1>13, <1>14 DEF c, need

LEMMA Times ==
    ASSUME NEW a \in Int, NEW b \in Int, NEW d \in Nat, d >= 1
    PROVE  /\ a <= b <=> a * d <= b * d
           /\ a < b <=> a * d < b * d
           /\ a * d \in Int
  OBVIOUS

\* A fraction of the way from lower to upper, none of it excluded, all included.
LEMMA Between ==
    ASSUME NEW lower \in Nat, NEW upper \in Nat, lower < upper,
           NEW count \in Nat, count >= 1, NEW t \in Nat, 1 <= t, t <= 100 * count
    PROVE  LET num == lower * 100 * count + (upper - lower) * t
               den == 100 * count
           IN  /\ num \in Nat /\ den \in Nat /\ den >= 1
               /\ lower * den < num /\ num <= upper * den
<1> DEFINE den == 100 * count
           w == upper - lower
<1>1. den \in Nat /\ den >= 1 /\ w \in Nat /\ w >= 1 /\ t <= den
  OBVIOUS
<1>2. lower * 100 * count = lower * den
  OBVIOUS
<1>3. upper * den = lower * den + w * den
  OBVIOUS
<1> HIDE DEF den, w
<1>4. w * t \in Nat /\ w * t >= 1 /\ w * t <= w * den /\ lower * den \in Nat /\ w * den \in Nat
  <2>1. \A x \in Nat, y \in Nat, z \in Nat : y <= z => x * y <= x * z
    OBVIOUS
  <2>2. \A x \in Nat, y \in Nat : x >= 1 /\ y >= 1 => x * y >= 1
    OBVIOUS
  <2>3. \A x \in Nat, y \in Nat : x * y \in Nat
    OBVIOUS
  <2>4. QED
    BY <1>1, <2>1, <2>2, <2>3
<1>5. /\ lower * den + w * t \in Nat /\ lower * den < lower * den + w * t
      /\ lower * den + w * t <= lower * den + w * den
  BY <1>4
<1>6. QED
  BY <1>1, <1>2, <1>3, <1>5 DEF den, w

\* What quantile returns for a histogram that has counted something: a figure in
\* the bucket where the rank is reached, and within what was seen.
LEMMA QuantileOfSome ==
    ASSUME NEW h, NEW ds, HistogramOf(h, ds), Durable(ds), DOMAIN ds /= {}, NEW p \in Percents
    PROVE  LET figure == Quantile(h, p) IN
           /\ \A k \in 1..Len(Bounds) :
                AtMost(figure, Whole(Bounds[k])) <=> Exact(ds, p) <= Bounds[k]
           /\ \E i \in DOMAIN ds : AtMost(Whole(ds[i]), figure)
           /\ \E i \in DOMAIN ds : AtMost(figure, Whole(ds[i]))
<1> DEFINE c == Cumulative(h.counts)
           need == p * h.total
           figure == Quantile(h, p)
<1>1. /\ h.total = Cardinality(DOMAIN ds) /\ h.total \in Nat /\ h.total >= 1
  BY FS_CardinalityType, FS_EmptySet DEF Durable, HistogramOf
<1>2. need \in Nat /\ p \in Int /\ p > 0 /\ p < 100
  BY <1>1 DEF Percents
<1>3. PICK i \in 1..Overflow :
        /\ i = Min({j \in 1..Overflow : h.counts[j] > 0 /\ 100 * c[j] >= need})
        /\ h.counts[i] > 0 /\ c[i] = c[i - 1] + h.counts[i] /\ c[i - 1] \in Nat
        /\ 100 * c[i - 1] < need /\ 100 * c[i] >= need
        /\ \A k \in 1..Overflow : 100 * c[k] >= need <=> k >= i
  BY RankReached
<1>4. figure = Clamp(h, Interpolate(h, p, i, c[i - 1]))
  BY <1>1, <1>2, <1>3 DEF Quantile
<1>5. h.counts[i] \in Nat /\ h.minSeen \in Nat /\ h.maxSeen \in Nat
  BY DEF HistogramOf, Histograms
<1>6. /\ \E x \in DOMAIN ds : ds[x] = h.minSeen
      /\ \E x \in DOMAIN ds : ds[x] = h.maxSeen
      /\ \A x \in DOMAIN ds : h.minSeen <= ds[x] /\ ds[x] <= h.maxSeen /\ ds[x] \in Nat
  BY DEF HistogramOf, Durable
<1>7. PICK x \in DOMAIN ds : Bucket(ds[x]) = i
  <2>0. h.counts[i] = Cardinality(InBucket(ds, i))
    BY DEF HistogramOf
  <2>1. Cardinality(InBucket(ds, i)) /= 0
    BY <1>3, <1>5, <2>0
  <2>2. InBucket(ds, i) /= {}
    BY <2>1, FS_EmptySet
  <2>3. QED
    BY <2>2 DEF InBucket
<1>b. \A j \in DOMAIN ds, k \in 1..Len(Bounds) : Bucket(ds[j]) <= k <=> ds[j] <= Bounds[k]
  <2>1. \A m \in Int, k \in 1..Len(Bounds) : Bucket(m) <= k <=> m <= Bounds[k]
    BY BucketOf
  <2>2. \A j \in DOMAIN ds : ds[j] \in Int
    BY <1>6
  <2>3. QED
    BY <2>1, <2>2
<1> DEFINE lower == IF i > 1 THEN Bounds[i - 1] ELSE 0
           upper == IF i <= Len(Bounds) THEN Bounds[i] ELSE Max({h.maxSeen, lower})
           num == lower * 100 * h.counts[i] + (upper - lower) * (need - 100 * c[i - 1])
           den == 100 * h.counts[i]
           value == [num |-> num, den |-> den]
<1>8. Interpolate(h, p, i, c[i - 1]) = value
  BY DEF Interpolate
<1>9. /\ lower \in Nat
      /\ \A k \in 1..Len(Bounds) : k < i => Bounds[k] <= lower /\ Bounds[k] < ds[x]
  <2>1. CASE i > 1
    <3>1. i - 1 \in 1..Len(Bounds)
      BY <2>1, BoundsRise
    <3>2. \A k \in 1..Len(Bounds) : k < i => Bounds[k] <= Bounds[i - 1]
      BY <3>1, BoundsRise
    <3>3. \A k \in 1..Len(Bounds) : k < i => Bounds[k] \in Nat /\ ~(ds[x] <= Bounds[k])
      <4>1. \A k \in 1..Len(Bounds) : k < i => ~(Bucket(ds[x]) <= k)
        BY <1>7, BoundsRise
      <4>2. QED
        BY <1>b, <4>1, BoundsRise
    <3>4. QED
      BY <1>6, <2>1, <3>1, <3>2, <3>3, BoundsRise
  <2>2. CASE i = 1
    BY <2>2
  <2>3. QED
    BY <2>1, <2>2
<1>10. /\ upper \in Nat /\ lower < upper
       /\ \A k \in 1..Len(Bounds) : k >= i => upper <= Bounds[k] /\ ds[x] <= Bounds[k]
  <2>1. CASE i <= Len(Bounds)
    <3>1. i \in 1..Len(Bounds) /\ upper = Bounds[i] /\ Bounds[i] \in Nat
      BY <2>1, BoundsRise
    <3>2. \A k \in 1..Len(Bounds) : k >= i => Bounds[i] <= Bounds[k] /\ Bucket(ds[x]) <= k
      BY <1>7, <3>1, BoundsRise
    <3>3. \A k \in 1..Len(Bounds) : k >= i => ds[x] <= Bounds[k]
      BY <1>b, <3>2
    <3>4. lower < Bounds[i]
      <4>1. CASE i > 1
        <5>1. i - 1 \in 1..(Len(Bounds) - 1) /\ (i - 1) + 1 = i
          BY <3>1, <4>1, BoundsRise
        <5>2. Bounds[i - 1] < Bounds[i]
          BY <5>1, HistogramAssumption
        <5>3. QED
          BY <4>1, <5>2
      <4>2. CASE i = 1
        BY <3>1, <4>2, BoundsRise
      <4>3. QED
        BY <4>1, <4>2
    <3>5. QED
      BY <3>1, <3>2, <3>3, <3>4
  <2>2. CASE i = Overflow
    <3>1. Len(Bounds) \in 1..Len(Bounds) /\ Len(Bounds) < i /\ lower = Bounds[Len(Bounds)]
      BY <2>2, BoundsRise
    <3>2. lower < ds[x]
      BY <1>9, <3>1
    <3>3. lower < h.maxSeen
      BY <1>5, <1>6, <1>9, <3>2
    <3>4. upper = h.maxSeen
      <4>1. upper = Max({h.maxSeen, lower})
        BY <3>1, BoundsRise
      <4> HIDE DEF lower, upper
      <4>2. \A a \in Int, b \in Int : b < a => Max({a, b}) = a
        BY LessOfTwo
      <4>3. h.maxSeen \in Int /\ lower \in Int
        BY <1>5, <1>9
      <4>4. QED
        BY <3>3, <4>1, <4>2, <4>3
    <3>5. \A k \in 1..Len(Bounds) : ~(k >= i)
      BY <2>2, BoundsRise
    <3>6. QED
      BY <1>5, <3>3, <3>4, <3>5
  <2>3. QED
    BY <2>1, <2>2, BoundsRise
<1> HIDE DEF c, need, lower, upper
<1>11. /\ num \in Nat /\ den \in Nat /\ den >= 1
       /\ lower * den < num /\ num <= upper * den
  <2> DEFINE t == need - 100 * c[i - 1]
  <2>1. t \in Nat /\ 1 <= t /\ t <= 100 * h.counts[i] /\ h.counts[i] >= 1
    BY <1>2, <1>3, <1>5
  <2> HIDE DEF t
  <2>2. QED
    BY <1>5, <1>9, <1>10, <2>1, Between DEF t
<1> HIDE DEF num, den
<1>12. value.num = num /\ value.den = den
  OBVIOUS
<1>13. ASSUME NEW b \in Int
       PROVE  /\ AtMost(value, Whole(b)) <=> num <= b * den
              /\ AtMost(Whole(b), value) <=> b * den <= num
              /\ \A a \in Int : AtMost(Whole(a), Whole(b)) <=> a <= b
  <2>1. num * 1 = num /\ b * den \in Int
    BY <1>11
  <2>2. QED
    BY <1>12, <2>1 DEF AtMost, Whole
<1> HIDE DEF value
<1>t. \A u, v \in Int : u < v <=> u * den < v * den
  BY <1>11, Times
<1>14. figure = IF ~AtMost(Whole(h.minSeen), value) THEN Whole(h.minSeen)
                ELSE IF ~AtMost(value, Whole(h.maxSeen)) THEN Whole(h.maxSeen)
                ELSE value
  BY <1>4, <1>8 DEF Clamp
<1> HIDE DEF figure
<1>15. AtMost(Whole(h.minSeen), figure) /\ AtMost(figure, Whole(h.maxSeen))
  <2>1. h.minSeen <= h.maxSeen /\ h.minSeen <= h.minSeen /\ h.maxSeen <= h.maxSeen
    BY <1>5, <1>6
  <2>2. /\ AtMost(Whole(h.minSeen), Whole(h.maxSeen))
        /\ AtMost(Whole(h.minSeen), Whole(h.minSeen))
        /\ AtMost(Whole(h.maxSeen), Whole(h.maxSeen))
    BY <1>5, <1>13, <2>1
  <2>3. QED
    BY <1>14, <2>2
<1>16. ASSUME NEW k \in 1..Len(Bounds)
       PROVE  AtMost(figure, Whole(Bounds[k])) <=> k >= i
  <2> DEFINE b == Bounds[k]
  <2>0. b \in Nat /\ b \in Int /\ b * den \in Int
    BY <1>11, BoundsRise
  <2>1. CASE k >= i
    <3>1. upper <= b /\ ds[x] <= b
      BY <1>10, <2>1
    <3> HIDE DEF b
    <3>2. upper * den <= b * den /\ upper * den \in Int
      BY <1>10, <1>11, <2>0, <3>1, Times
    <3>3. num <= b * den
      BY <1>11, <2>0, <3>2
    <3>4. h.minSeen <= b
      BY <1>5, <1>6, <2>0, <3>1
    <3>5. AtMost(value, Whole(b)) /\ AtMost(Whole(h.minSeen), Whole(b))
      BY <1>5, <1>13, <2>0, <3>3, <3>4
    <3>6. ~AtMost(value, Whole(h.maxSeen)) => AtMost(Whole(h.maxSeen), Whole(b))
      <4>1. ASSUME ~(num <= h.maxSeen * den) PROVE h.maxSeen <= b
        <5>1. h.maxSeen * den \in Int
          BY <1>5, <1>11, Times
        <5>2. h.maxSeen * den < b * den
          BY <1>11, <2>0, <3>3, <4>1, <5>1
        <5>3. h.maxSeen < b
          BY <1>5, <1>t, <2>0, <5>2
        <5>4. QED
          BY <1>5, <2>0, <5>3
      <4>2. QED
        BY <1>5, <1>13, <2>0, <4>1
    <3>7. AtMost(figure, Whole(b))
      BY <1>14, <3>5, <3>6
    <3>8. QED
      BY <2>1, <3>7 DEF b
  <2>2. CASE k < i
    <3>1. b <= lower /\ b < ds[x]
      BY <1>9, <2>2
    <3> HIDE DEF b
    <3>2. b * den <= lower * den /\ lower * den \in Int
      BY <1>9, <1>11, <2>0, <3>1, Times
    <3>3. ~(num <= b * den)
      BY <1>11, <2>0, <3>2
    <3>4. ~(h.maxSeen <= b)
      BY <1>5, <1>6, <2>0, <3>1
    <3>5. ~AtMost(value, Whole(b)) /\ ~AtMost(Whole(h.maxSeen), Whole(b))
      BY <1>5, <1>13, <2>0, <3>3, <3>4
    <3>6. ~AtMost(Whole(h.minSeen), value) => ~AtMost(Whole(h.minSeen), Whole(b))
      <4>1. ASSUME ~(h.minSeen * den <= num) PROVE ~(h.minSeen <= b)
        <5>1. h.minSeen * den \in Int
          BY <1>5, <1>11, Times
        <5>2. b * den < h.minSeen * den
          BY <1>11, <2>0, <3>3, <4>1, <5>1
        <5>3. b < h.minSeen
          BY <1>5, <1>t, <2>0, <5>2
        <5>4. QED
          BY <1>5, <2>0, <5>3
      <4>2. QED
        BY <1>5, <1>13, <2>0, <4>1
    <3>7. ~AtMost(figure, Whole(b))
      BY <1>14, <3>5, <3>6
    <3>8. QED
      BY <2>2, <3>7 DEF b
  <2>3. QED
    BY <2>1, <2>2, BoundsRise
<1>17. ASSUME NEW k \in 1..Len(Bounds)
       PROVE  Exact(ds, p) <= Bounds[k] <=> k >= i
  <2>1. Bounds[k] \in Nat /\ k \in 1..Overflow /\ k \in 0..Overflow
    BY BoundsRise
  <2>2. Exact(ds, p) <= Bounds[k] <=> 100 * AtOrBelow(ds, Bounds[k]) >= need
    BY <1>1, <1>5, <1>6, <2>1, ExactRank DEF need
  <2>3. {j \in DOMAIN ds : ds[j] <= Bounds[k]} = Below(ds, k)
    <3>1. \A j \in DOMAIN ds : Bucket(ds[j]) <= k <=> ds[j] <= Bounds[k]
      BY <1>b
    <3>2. QED
      BY <3>1 DEF Below
  <2>4. AtOrBelow(ds, Bounds[k]) = c[k]
    BY <2>1, <2>3, SumOfBuckets DEF AtOrBelow, c
  <2>5. QED
    BY <1>3, <2>1, <2>2, <2>4
<1>18. \E j \in DOMAIN ds : AtMost(Whole(ds[j]), figure)
  BY <1>6, <1>15
<1>19. \E j \in DOMAIN ds : AtMost(figure, Whole(ds[j]))
  BY <1>6, <1>15
<1>20. QED
  BY <1>16, <1>17, <1>18, <1>19 DEF figure

\* Nothing counted, no figure; otherwise an honest one.
LEMMA QuantileIsHonest ==
    ASSUME NEW h, NEW ds, HistogramOf(h, Counted(ds)), Durable(Counted(ds)), NEW p \in Percents
    PROVE  Honest(Quantile(h, p), p, ds)
<1> DEFINE counted == Counted(ds)
<1> HIDE DEF counted
<1>1. HistogramOf(h, counted) /\ Durable(counted)
  BY DEF counted
<1>2. CASE DOMAIN counted = {}
  <2>1. h.total = 0
    BY <1>1, <1>2, FS_EmptySet DEF HistogramOf
  <2>2. Quantile(h, p) = NoFigure
    BY <2>1 DEF Quantile
  <2>3. QED
    BY <1>2, <2>2 DEF Honest, counted
<1>3. CASE DOMAIN counted /= {}
  <2> DEFINE figure == Quantile(h, p)
  <2>1. /\ \A k \in 1..Len(Bounds) :
             AtMost(figure, Whole(Bounds[k])) <=> Exact(counted, p) <= Bounds[k]
        /\ \E i \in DOMAIN counted : AtMost(Whole(counted[i]), figure)
        /\ \E i \in DOMAIN counted : AtMost(figure, Whole(counted[i]))
    BY <1>1, <1>3, QuantileOfSome
  <2> HIDE DEF figure
  <2>2. Honest(figure, p, ds)
    BY <1>3, <2>1 DEF Honest, counted
  <2>3. QED
    BY <2>2 DEF figure
<1>4. QED
  BY <1>2, <1>3

----------------------------------------------------------------------------
(* Lines *)

LEMMA LinesHave ==
    ASSUME NEW ls \in Seq(Lines)
    PROVE  /\ Len(ls) \in Nat
           /\ \A i \in 1..Len(ls) : ls[i].host \in Hosts \cup {Nameless} /\ ls[i].ms \in Int
<1>1. Len(ls) \in Nat /\ \A i \in 1..Len(ls) : ls[i] \in Lines
  OBVIOUS
<1>2. QED
  BY <1>1, RequestMetricsAssumption DEF Nameless

LEMMA HostsAre ==
    /\ Nameless \notin Hosts /\ Other \notin Hosts /\ Nameless /= Other
    /\ IsFiniteSet(Hosts) /\ Hosts \subseteq Int
    /\ MaxTracked \in Nat /\ MaxTracked >= 1 /\ MaxReported \in Nat /\ MaxReported >= 1
  BY RequestMetricsAssumption DEF Nameless, Other

\* Which lines the next one joins.
LEMMA NextLine ==
    ASSUME NEW ls \in Seq(Lines), NEW l \in Lines
    PROVE  LET ns == Append(ls, l)
               n == Len(ls) + 1
           IN  /\ ns \in Seq(Lines) /\ Len(ns) = n /\ n \in Nat /\ 1..n = (1..Len(ls)) \cup {n}
               /\ n \notin 1..Len(ls) /\ ns[n] = l /\ \A i \in 1..Len(ls) : ns[i] = ls[i]
               /\ \A h : Named(ns, h) = IF l.host = h THEN Named(ls, h) \cup {n} ELSE Named(ls, h)
               /\ \A hs : NamedOtherThan(ns, hs) =
                            IF l.host \notin hs \cup {Nameless}
                            THEN NamedOtherThan(ls, hs) \cup {n} ELSE NamedOtherThan(ls, hs)
<1> DEFINE ns == Append(ls, l)
           n == Len(ls) + 1
<1>1. /\ ns \in Seq(Lines) /\ Len(ns) = n /\ n \in Nat /\ ns[n] = l
      /\ \A i \in 1..Len(ls) : ns[i] = ls[i]
  OBVIOUS
<1>2. 1..n = (1..Len(ls)) \cup {n} /\ n \notin 1..Len(ls)
  BY LinesHave
<1> HIDE DEF ns, n
<1>3. ASSUME NEW h
      PROVE  Named(ns, h) = IF l.host = h THEN Named(ls, h) \cup {n} ELSE Named(ls, h)
  BY <1>1, <1>2 DEF Named
<1>4. ASSUME NEW hs
      PROVE  NamedOtherThan(ns, hs) =
               IF l.host \notin hs \cup {Nameless}
               THEN NamedOtherThan(ls, hs) \cup {n} ELSE NamedOtherThan(ls, hs)
  BY <1>1, <1>2 DEF NamedOtherThan
<1>5. QED
  BY <1>1, <1>2, <1>3, <1>4 DEF ns, n

LEMMA TallyType ==
    ASSUME NEW ls, NEW I, IsFiniteSet(I)
    PROVE  /\ Tally(ls, I) \in Counts
           /\ \A class : IsFiniteSet(OfClass(ls, I, class))
<1>1. \A class : OfClass(ls, I, class) \in SUBSET I
  BY DEF OfClass
<1>2. \A class : IsFiniteSet(OfClass(ls, I, class)) /\ Cardinality(OfClass(ls, I, class)) \in Nat
  BY <1>1, FS_Subset, FS_CardinalityType
<1>3. Cardinality(I) \in Nat
  BY FS_CardinalityType
<1>4. QED
  BY <1>2, <1>3 DEF Tally, Counts

LEMMA TallyOfNone ==
    ASSUME NEW ls
    PROVE  Tally(ls, {}) = Zero
<1>1. \A class : OfClass(ls, {}, class) = {}
  BY DEF OfClass
<1>2. QED
  BY <1>1, FS_EmptySet DEF Tally, Zero

\* The tally of a set of lines stays as it is when another line is parsed, and is
\* bumped when that line is one of them.
LEMMA TallyGrows ==
    ASSUME NEW ls \in Seq(Lines), NEW l \in Lines, NEW I \in SUBSET (1..Len(ls))
    PROVE  LET ns == Append(ls, l)
               n == Len(ls) + 1
           IN  /\ Tally(ns, I) = Tally(ls, I)
               /\ Tally(ns, I \cup {n}) = Bump(Tally(ls, I), l.class)
<1> DEFINE ns == Append(ls, l)
           n == Len(ls) + 1
<1>1. n \notin I /\ ns[n] = l /\ \A i \in I : ns[i] = ls[i]
  BY NextLine
<1>2. IsFiniteSet(I) /\ Cardinality(I) \in Nat
  <2>1. IsFiniteSet(1..Len(ls))
    BY LinesHave, FS_Interval
  <2>2. QED
    BY <2>1, FS_Subset, FS_CardinalityType
<1> HIDE DEF ns, n
<1>3. \A class : OfClass(ns, I, class) = OfClass(ls, I, class)
  BY <1>1 DEF OfClass
<1>4. Cardinality(I \cup {n}) = Cardinality(I) + 1
  BY <1>1, <1>2, FS_AddElement
<1>5. ASSUME NEW class
      PROVE  Cardinality(OfClass(ns, I \cup {n}, class)) =
               Cardinality(OfClass(ls, I, class)) + IF l.class = class THEN 1 ELSE 0
  <2> DEFINE C == OfClass(ls, I, class)
  <2>0. n \notin C /\ IsFiniteSet(C)
    BY <1>1, <1>2, TallyType DEF OfClass
  <2>1. n \notin C /\ IsFiniteSet(C) /\ Cardinality(C) \in Nat
    BY <2>0, FS_CardinalityType
  <2>2. OfClass(ns, I \cup {n}, class) = IF l.class = class THEN C \cup {n} ELSE C
    BY <1>1 DEF OfClass
  <2> HIDE DEF C
  <2>3. Cardinality(C \cup {n}) = Cardinality(C) + 1
    BY <2>1, FS_AddElement
  <2>4. Cardinality(OfClass(ns, I \cup {n}, class)) =
          Cardinality(C) + IF l.class = class THEN 1 ELSE 0
    BY <2>1, <2>2, <2>3
  <2>5. QED
    BY <2>4 DEF C
<1>6. Tally(ns, I) = Tally(ls, I)
  BY <1>3 DEF Tally
<1>7. Tally(ns, I \cup {n}) = Bump(Tally(ls, I), l.class)
  BY <1>4, <1>5 DEF Tally, Bump
<1>8. QED
  BY <1>6, <1>7 DEF ns, n

\* And so do the durations of a set of lines.
LEMMA CountedDurable ==
    ASSUME NEW ls \in Seq(Lines), NEW I \in SUBSET (1..Len(ls))
    PROVE  Durable(Counted(Durations(ls, I)))
<1> DEFINE ds == Counted(Durations(ls, I))
<1>1. /\ DOMAIN ds = {j \in I : ls[j].ms >= 0}
      /\ \A i \in DOMAIN ds : ds[i] = ls[i].ms
  BY DEF Counted, Durations
<1>2. IsFiniteSet(1..Len(ls))
  BY LinesHave, FS_Interval
<1> HIDE DEF ds
<1>3. DOMAIN ds \in SUBSET (1..Len(ls))
  BY <1>1
<1>4. \A i \in DOMAIN ds : ds[i] \in Nat
  BY <1>1, <1>3, LinesHave
<1>5. Durable(ds)
  BY <1>2, <1>3, <1>4, FS_Subset DEF Durable
<1>6. QED
  BY <1>5 DEF ds

LEMMA DurationsGrow ==
    ASSUME NEW ls \in Seq(Lines), NEW l \in Lines, NEW I \in SUBSET (1..Len(ls)),
           NEW h, HistogramOf(h, Counted(Durations(ls, I)))
    PROVE  LET ns == Append(ls, l)
               n == Len(ls) + 1
           IN  /\ HistogramOf(h, Counted(Durations(ns, I)))
               /\ HistogramOf(Observe(h, l.ms), Counted(Durations(ns, I \cup {n})))
<1> DEFINE ns == Append(ls, l)
           n == Len(ls) + 1
           ds == Counted(Durations(ls, I))
           e == Counted(Durations(ns, I \cup {n}))
<1>1. n \notin I /\ ns[n] = l /\ \A i \in I : ns[i] = ls[i]
  BY NextLine
<1>2. l.ms \in Int
  BY RequestMetricsAssumption
<1>3. Durable(ds)
  BY CountedDurable
<1> HIDE DEF ns, n
<1>4. Counted(Durations(ns, I)) = ds
  <2>1. Durations(ns, I) = Durations(ls, I)
    BY <1>1 DEF Durations
  <2>2. QED
    BY <2>1
<1>5. ds = [i \in {j \in I : ls[j].ms >= 0} |-> ls[i].ms]
  BY DEF Counted, Durations
<1>6. e = [i \in {j \in I \cup {n} : ns[j].ms >= 0} |-> ns[i].ms]
  BY DEF Counted, Durations
<1>7. CASE l.ms < 0
  <2>1. {j \in I \cup {n} : ns[j].ms >= 0} = {j \in I : ls[j].ms >= 0}
    <3>1. \A j \in I : ns[j].ms >= 0 <=> ls[j].ms >= 0
      BY <1>1
    <3>2. ~(ns[n].ms >= 0)
      BY <1>1, <1>2, <1>7
    <3>3. QED
      BY <1>1, <3>1, <3>2
  <2>2. e = ds
    BY <1>1, <1>5, <1>6, <2>1
  <2>3. Observe(h, l.ms) = h
    BY <1>7 DEF Observe
  <2>4. QED
    BY <1>4, <2>2, <2>3 DEF ns, n
<1>8. CASE l.ms >= 0
  <2>1. Extends(e, ds, n) /\ e[n] = l.ms
    <3>1. \A j \in I : ns[j].ms >= 0 <=> ls[j].ms >= 0
      BY <1>1
    <3>2. DOMAIN e = {j \in I \cup {n} : ns[j].ms >= 0} /\ DOMAIN ds = {j \in I : ls[j].ms >= 0}
      BY <1>5, <1>6
    <3>3. DOMAIN e = DOMAIN ds \cup {n} /\ n \notin DOMAIN ds /\ DOMAIN ds \subseteq I
      BY <1>1, <1>8, <3>1, <3>2
    <3>4. \A i \in DOMAIN e : e[i] = ns[i].ms
      BY <1>6
    <3>5. \A i \in DOMAIN ds : ds[i] = ls[i].ms
      BY <1>5
    <3>6. \A i \in DOMAIN ds : e[i] = ds[i]
      BY <1>1, <3>3, <3>4, <3>5
    <3>7. e[n] = l.ms
      BY <1>1, <3>3, <3>4
    <3>8. QED
      BY <3>3, <3>6, <3>7 DEF Extends
  <2>2. l.ms \in Nat
    BY <1>2, <1>8
  <2> HIDE DEF ds, e
  <2>3. HistogramOf(h, ds)
    BY DEF ds
  <2>4. HistogramOf(Observe(h, l.ms), e)
    BY <1>3, <2>1, <2>2, <2>3, ObserveCounts
  <2>5. QED
    BY <1>4, <2>3, <2>4 DEF ns, n, e
<1>9. QED
  BY <1>2, <1>7, <1>8

----------------------------------------------------------------------------
(***************************************************************************)
(* What the open window holds of the lines parsed since the last report.   *)
(***************************************************************************)
Tracked == DOMAIN sites \ {Other}

\* Every counter is the tally of its lines.  Names that are not tracked are in
\* the shared window.
WindowCounts ==
    /\ total = Tally(lines, 1..Len(lines))
    /\ \A h \in Tracked : sites[h] = Tally(lines, Named(lines, h))
    /\ Other \in DOMAIN sites => sites[Other] = Tally(lines, NamedOtherThan(lines, Tracked))

\* A tracked name has been heard of.  A name is not tracked only when, before its
\* first line, as many others were as fit.
WindowNames ==
    /\ DOMAIN sites \subseteq Hosts \cup {Other}
    /\ Cardinality(Tracked) <= MaxTracked
    /\ Other \in DOMAIN sites => Cardinality(Tracked) = MaxTracked
    /\ \A h \in Tracked : Named(lines, h) /= {}
    /\ \A h \in Hosts \ Tracked :
         Named(lines, h) /= {} => /\ Other \in DOMAIN sites
                                  /\ Tracked \subseteq NamesBefore(lines, h)

WindowDurations ==
    /\ DOMAIN siteHistogram = DOMAIN sites
    /\ HistogramOf(histogram, Counted(Durations(lines, 1..Len(lines))))
    /\ \A h \in Tracked :
         HistogramOf(siteHistogram[h], Counted(Durations(lines, Named(lines, h))))

WindowInv == lines \in Seq(Lines) /\ WindowCounts /\ WindowNames /\ WindowDurations

LEMMA TrackedHosts ==
    ASSUME WindowNames
    PROVE  /\ Tracked \subseteq Hosts /\ IsFiniteSet(Tracked) /\ Cardinality(Tracked) \in Nat
           /\ Cardinality(DOMAIN sites) =
                IF Other \in DOMAIN sites THEN Cardinality(Tracked) + 1 ELSE Cardinality(Tracked)
<1>1. Tracked \subseteq Hosts
  BY DEF WindowNames, Tracked
<1>2. IsFiniteSet(Tracked)
  BY <1>1, HostsAre, FS_Subset
<1>3. /\ DOMAIN sites = IF Other \in DOMAIN sites THEN Tracked \cup {Other} ELSE Tracked
      /\ Other \notin Tracked
  BY DEF Tracked
<1>4. Cardinality(Tracked \cup {Other}) = Cardinality(Tracked) + 1
  BY <1>2, <1>3, FS_AddElement
<1>5. QED
  BY <1>1, <1>2, <1>3, <1>4, FS_CardinalityType

\* The lines that a site's window counts.
SiteLines(site) ==
    IF site = Other THEN NamedOtherThan(lines, Tracked) ELSE Named(lines, site)

\* siteFor: a name without a window gets one, with nothing to account for, or is
\* counted in the shared window because as many names as fit came before it.
LEMMA WhichSite ==
    ASSUME WindowInv, NEW host \in Hosts
    PROVE  /\ SiteFor(host) \in {host, Other} /\ host /= Other
           /\ SiteFor(host) = Other =>
                host \notin Tracked /\ Cardinality(Tracked) = MaxTracked
           /\ SiteFor(host) = host /\ host \notin Tracked =>
                /\ Other \notin DOMAIN sites /\ Cardinality(Tracked) < MaxTracked
                /\ \A g \in Hosts \ Tracked : Named(lines, g) = {}
           /\ SiteFor(host) \notin DOMAIN sites => SiteLines(SiteFor(host)) = {}
<1> DEFINE site == SiteFor(host)
<1>0. WindowNames /\ lines \in Seq(Lines) /\ host /= Other
  BY HostsAre DEF WindowInv
<1>1. /\ Tracked \subseteq Hosts /\ Cardinality(Tracked) \in Nat
      /\ Cardinality(DOMAIN sites) =
           IF Other \in DOMAIN sites THEN Cardinality(Tracked) + 1 ELSE Cardinality(Tracked)
  BY <1>0, TrackedHosts
<1>2. /\ Cardinality(Tracked) <= MaxTracked
      /\ Other \in DOMAIN sites => Cardinality(Tracked) = MaxTracked
      /\ \A h \in Hosts \ Tracked : Named(lines, h) /= {} => Other \in DOMAIN sites
  BY <1>0 DEF WindowNames
<1>3. host \in Tracked <=> host \in DOMAIN sites
  BY <1>0 DEF Tracked
<1>4. site = IF host \in DOMAIN sites \/ Cardinality(DOMAIN sites) < MaxTracked
             THEN host ELSE Other
  BY DEF SiteFor
<1>5. site \in {host, Other}
  BY <1>4
<1>6. ASSUME site = Other
      PROVE  host \notin Tracked /\ Cardinality(Tracked) = MaxTracked
  <2>1. host \notin DOMAIN sites /\ ~(Cardinality(DOMAIN sites) < MaxTracked)
    BY <1>0, <1>4, <1>6
  <2>2. QED
    BY <1>1, <1>2, <1>3, <2>1, HostsAre
<1>7. ASSUME site = host, host \notin Tracked
      PROVE  /\ Other \notin DOMAIN sites /\ Cardinality(Tracked) < MaxTracked
             /\ \A g \in Hosts \ Tracked : Named(lines, g) = {}
  <2>1. Cardinality(DOMAIN sites) < MaxTracked
    BY <1>0, <1>3, <1>4, <1>7
  <2>2. Other \notin DOMAIN sites
    BY <1>1, <1>2, <2>1, HostsAre
  <2>3. QED
    BY <1>1, <1>2, <2>1, <2>2
<1>8. ASSUME site \notin DOMAIN sites PROVE SiteLines(site) = {}
  <2>1. CASE site = Other
    <3>1. ASSUME NEW i \in NamedOtherThan(lines, Tracked) PROVE FALSE
      <4>1. i \in 1..Len(lines) /\ lines[i].host \notin Tracked \cup {Nameless}
        BY DEF NamedOtherThan
      <4>2. lines[i].host \in Hosts \ Tracked
        BY <1>0, <4>1, LinesHave
      <4>3. i \in Named(lines, lines[i].host)
        BY <4>1 DEF Named
      <4>4. QED
        BY <1>2, <1>8, <2>1, <4>2, <4>3
    <3>2. QED
      BY <2>1, <3>1 DEF SiteLines
  <2>2. CASE site = host /\ site /= Other
    <3>1. host \notin Tracked
      BY <1>3, <1>8, <2>2
    <3>2. Named(lines, host) = {}
      BY <1>7, <2>2, <3>1
    <3>3. QED
      BY <2>2, <3>2 DEF SiteLines
  <2>3. QED
    BY <1>5, <2>1, <2>2
<1>9. QED
  BY <1>0, <1>5, <1>6, <1>7, <1>8

\* What a named line does to the windows of the sites.
LEMMA Joins ==
    ASSUME WindowInv, NEW line \in Lines, ParseLine(line), line.host /= Nameless
    PROVE  LET site == SiteFor(line.host)
               count == IF site \in DOMAIN sites THEN sites[site] ELSE Zero
               latency == IF site \in DOMAIN sites THEN siteHistogram[site] ELSE NewHistogram
           IN  /\ line.host \in Hosts
               /\ DOMAIN sites' = DOMAIN sites \cup {site}
               /\ DOMAIN siteHistogram' = DOMAIN sites \cup {site}
               /\ Tracked' = IF site = Other THEN Tracked ELSE Tracked \cup {site}
               /\ sites'[site] = Bump(count, line.class)
               /\ siteHistogram'[site] = Observe(latency, line.ms)
               /\ \A h \in DOMAIN sites \ {site} : /\ sites'[h] = sites[h]
                                                   /\ siteHistogram'[h] = siteHistogram[h]
<1> DEFINE site == SiteFor(line.host)
           count == IF site \in DOMAIN sites THEN sites[site] ELSE Zero
           latency == IF site \in DOMAIN sites THEN siteHistogram[site] ELSE NewHistogram
<1>1. line.host \in Hosts
  BY RequestMetricsAssumption DEF Nameless
<1>2. /\ sites' = [h \in DOMAIN sites \cup {site} |->
                     IF h = site THEN Bump(count, line.class) ELSE sites[h]]
      /\ siteHistogram' = [h \in DOMAIN sites \cup {site} |->
                     IF h = site THEN Observe(latency, line.ms) ELSE siteHistogram[h]]
  BY DEF ParseLine, Count
<1> HIDE DEF site, count, latency
<1>3. /\ DOMAIN sites' = DOMAIN sites \cup {site}
      /\ DOMAIN siteHistogram' = DOMAIN sites \cup {site}
  BY <1>2
<1>4. Tracked' = IF site = Other THEN Tracked ELSE Tracked \cup {site}
  BY <1>3 DEF Tracked
<1>5. /\ sites'[site] = Bump(count, line.class)
      /\ siteHistogram'[site] = Observe(latency, line.ms)
      /\ \A h \in DOMAIN sites \ {site} : /\ sites'[h] = sites[h]
                                          /\ siteHistogram'[h] = siteHistogram[h]
  BY <1>2
<1>6. QED
  BY <1>1, <1>3, <1>4, <1>5 DEF site, count, latency

LEMMA OfTheWindow ==
    ASSUME NEW ls
    PROVE  /\ \A h : Named(ls, h) \in SUBSET (1..Len(ls))
           /\ \A hs : NamedOtherThan(ls, hs) \in SUBSET (1..Len(ls))
  BY DEF Named, NamedOtherThan

\* Which lines the windows have after one more.
LEMMA LinesJoin ==
    ASSUME WindowInv, NEW line \in Lines, ParseLine(line)
    PROVE  LET n == Len(lines) + 1 IN
           /\ lines' = Append(lines, line) /\ lines' \in Seq(Lines)
           /\ Len(lines') = n /\ n \in Nat /\ n \notin 1..Len(lines)
           /\ 1..Len(lines') = (1..Len(lines)) \cup {n}
           /\ lines'[n] = line /\ \A i \in 1..Len(lines) : lines'[i] = lines[i]
           /\ \A h : Named(lines', h) =
                       IF line.host = h THEN Named(lines, h) \cup {n} ELSE Named(lines, h)
           /\ \A hs : NamedOtherThan(lines', hs) =
                        IF line.host \notin hs \cup {Nameless}
                        THEN NamedOtherThan(lines, hs) \cup {n} ELSE NamedOtherThan(lines, hs)
<1>1. lines \in Seq(Lines)
  BY DEF WindowInv
<1>2. lines' = Append(lines, line)
  BY DEF ParseLine
<1>3. QED
  BY <1>1, <1>2, NextLine

LEMMA NamelessJoins ==
    ASSUME WindowInv, NEW line \in Lines, ParseLine(line), line.host = Nameless
    PROVE  /\ sites' = sites /\ siteHistogram' = siteHistogram /\ Tracked' = Tracked
           /\ \A h \in Hosts : Named(lines', h) = Named(lines, h)
           /\ NamedOtherThan(lines', Tracked) = NamedOtherThan(lines, Tracked)
<1>1. sites' = sites /\ siteHistogram' = siteHistogram
  BY DEF ParseLine, Count
<1>2. Tracked' = Tracked
  BY <1>1 DEF Tracked
<1>3. \A h \in Hosts : Named(lines', h) = Named(lines, h)
  BY LinesJoin, HostsAre
<1>4. NamedOtherThan(lines', Tracked) = NamedOtherThan(lines, Tracked)
  BY LinesJoin
<1>5. QED
  BY <1>1, <1>2, <1>3, <1>4

\* The window that a named line joins, and the lines that the others keep.
LEMMA NamedJoins ==
    ASSUME WindowInv, NEW line \in Lines, ParseLine(line), line.host /= Nameless
    PROVE  LET site == SiteFor(line.host)
               n == Len(lines) + 1
           IN  /\ site /= Other =>
                    /\ site = line.host /\ Named(lines', site) = SiteLines(site) \cup {n}
               /\ site = Other =>
                    NamedOtherThan(lines', Tracked') = SiteLines(site) \cup {n}
               /\ \A h \in Tracked' \ {site} : h \in Tracked /\ Named(lines', h) = Named(lines, h)
               /\ site /= Other /\ Other \in DOMAIN sites =>
                    /\ site \in Tracked
                    /\ NamedOtherThan(lines', Tracked') = NamedOtherThan(lines, Tracked)
<1> DEFINE site == SiteFor(line.host)
           n == Len(lines) + 1
<1>1. /\ line.host \in Hosts
      /\ Tracked' = IF site = Other THEN Tracked ELSE Tracked \cup {site}
  BY Joins
<1>2. /\ site \in {line.host, Other} /\ line.host /= Other
      /\ site = Other => line.host \notin Tracked
      /\ site = line.host /\ line.host \notin Tracked => Other \notin DOMAIN sites
  BY <1>1, WhichSite
<1>3. /\ \A h : Named(lines', h) =
                  IF line.host = h THEN Named(lines, h) \cup {n} ELSE Named(lines, h)
      /\ \A hs : NamedOtherThan(lines', hs) =
                   IF line.host \notin hs \cup {Nameless}
                   THEN NamedOtherThan(lines, hs) \cup {n} ELSE NamedOtherThan(lines, hs)
  BY LinesJoin
<1> HIDE DEF site, n
<1>4. ASSUME site /= Other
      PROVE  site = line.host /\ Named(lines', site) = SiteLines(site) \cup {n}
  BY <1>2, <1>3, <1>4 DEF SiteLines
<1>5. ASSUME site = Other
      PROVE  NamedOtherThan(lines', Tracked') = SiteLines(site) \cup {n}
  <2>1. Tracked' = Tracked /\ line.host \notin Tracked \cup {Nameless}
    BY <1>1, <1>2, <1>5
  <2>2. QED
    BY <1>3, <1>5, <2>1 DEF SiteLines
<1>6. ASSUME NEW h \in Tracked' \ {site}
      PROVE  h \in Tracked /\ Named(lines', h) = Named(lines, h)
  <2>1. h \in Tracked /\ h /= line.host
    BY <1>1, <1>2
  <2>2. QED
    BY <1>3, <2>1
<1>7. ASSUME site /= Other, Other \in DOMAIN sites
      PROVE  site \in Tracked /\ NamedOtherThan(lines', Tracked') = NamedOtherThan(lines, Tracked)
  <2>1. site = line.host /\ line.host \in Tracked
    BY <1>2, <1>7
  <2>2. Tracked' = Tracked
    BY <1>1, <1>7, <2>1
  <2>3. QED
    BY <1>3, <2>1, <2>2
<1>8. QED
  BY <1>4, <1>5, <1>6, <1>7 DEF site, n

LEMMA ParseCounts ==
    ASSUME WindowInv, NEW line \in Lines, ParseLine(line)
    PROVE  WindowCounts'
<1> DEFINE n == Len(lines) + 1
<1>0. /\ WindowCounts /\ WindowNames /\ lines \in Seq(Lines)
      /\ total' = Bump(total, line.class)
  BY DEF WindowInv, ParseLine, Count
<1>1. ASSUME NEW I \in SUBSET (1..Len(lines))
      PROVE  /\ Tally(lines', I) = Tally(lines, I)
             /\ Tally(lines', I \cup {n}) = Bump(Tally(lines, I), line.class)
  <2>1. lines' = Append(lines, line)
    BY LinesJoin
  <2>2. QED
    BY <1>0, <2>1, TallyGrows
<1>2. total' = Tally(lines', 1..Len(lines'))
  <2>1. 1..Len(lines') = (1..Len(lines)) \cup {n}
    BY LinesJoin
  <2>2. total = Tally(lines, 1..Len(lines))
    BY <1>0 DEF WindowCounts
  <2> HIDE DEF n
  <2>3. QED
    BY <1>0, <1>1, <2>1, <2>2
<1> HIDE DEF n
<1>3. /\ \A h \in Tracked : sites[h] = Tally(lines, Named(lines, h))
      /\ Other \in DOMAIN sites => sites[Other] = Tally(lines, NamedOtherThan(lines, Tracked))
  BY <1>0 DEF WindowCounts
<1>4. /\ \A h : Tally(lines', Named(lines, h)) = Tally(lines, Named(lines, h))
      /\ Tally(lines', NamedOtherThan(lines, Tracked)) = Tally(lines, NamedOtherThan(lines, Tracked))
  BY <1>1, OfTheWindow
<1>5. CASE line.host = Nameless
  <2>1. /\ sites' = sites /\ Tracked' = Tracked
        /\ \A h \in Tracked : Named(lines', h) = Named(lines, h)
        /\ NamedOtherThan(lines', Tracked) = NamedOtherThan(lines, Tracked)
    BY <1>0, <1>5, NamelessJoins, TrackedHosts
  <2>2. QED
    BY <1>2, <1>3, <1>4, <2>1 DEF WindowCounts
<1>6. CASE line.host /= Nameless
  <2> DEFINE site == SiteFor(line.host)
             count == IF site \in DOMAIN sites THEN sites[site] ELSE Zero
  <2>1. /\ line.host \in Hosts /\ DOMAIN sites' = DOMAIN sites \cup {site}
        /\ sites'[site] = Bump(count, line.class)
        /\ \A h \in DOMAIN sites \ {site} : sites'[h] = sites[h]
    BY <1>6, Joins
  <2>2. /\ site /= Other => Named(lines', site) = SiteLines(site) \cup {n}
        /\ site = Other => NamedOtherThan(lines', Tracked') = SiteLines(site) \cup {n}
        /\ \A h \in Tracked' \ {site} : h \in Tracked /\ Named(lines', h) = Named(lines, h)
        /\ site /= Other /\ Other \in DOMAIN sites =>
             NamedOtherThan(lines', Tracked') = NamedOtherThan(lines, Tracked)
    BY <1>6, NamedJoins DEF n
  <2>3. site \notin DOMAIN sites => SiteLines(site) = {}
    BY <2>1, WhichSite
  <2> HIDE DEF site
  <2>4. count = Tally(lines, SiteLines(site))
    <3>1. CASE site \notin DOMAIN sites
      BY <2>3, <3>1, TallyOfNone
    <3>2. CASE site \in DOMAIN sites
      BY <1>3, <3>2 DEF SiteLines, Tracked
    <3>3. QED
      BY <3>1, <3>2
  <2> HIDE DEF count
  <2>5. sites'[site] = Tally(lines', SiteLines(site) \cup {n})
    <3>1. SiteLines(site) \in SUBSET (1..Len(lines))
      BY OfTheWindow DEF SiteLines
    <3>2. QED
      BY <1>1, <2>1, <2>4, <3>1
  <2>6. ASSUME NEW h \in Tracked' PROVE sites'[h] = Tally(lines', Named(lines', h))
    <3>1. CASE h = site
      <4>1. site /= Other
        BY <3>1 DEF Tracked
      <4>2. QED
        BY <2>2, <2>5, <3>1, <4>1
    <3>2. CASE h /= site
      <4>1. h \in Tracked /\ Named(lines', h) = Named(lines, h)
        BY <2>2, <3>2
      <4>2. sites'[h] = sites[h]
        BY <2>1, <3>2, <4>1 DEF Tracked
      <4>3. QED
        BY <1>3, <1>4, <4>1, <4>2
    <3>3. QED
      BY <3>1, <3>2
  <2>7. ASSUME Other \in DOMAIN sites'
        PROVE  sites'[Other] = Tally(lines', NamedOtherThan(lines', Tracked'))
    <3>1. CASE site = Other
      BY <2>2, <2>5, <3>1
    <3>2. CASE site /= Other
      <4>1. Other \in DOMAIN sites /\ sites'[Other] = sites[Other]
        BY <2>1, <2>7, <3>2
      <4>2. QED
        BY <1>3, <1>4, <2>2, <3>2, <4>1
    <3>3. QED
      BY <3>1, <3>2
  <2>8. QED
    BY <1>2, <2>6, <2>7 DEF WindowCounts
<1>7. QED
  BY <1>5, <1>6

LEMMA ParseDurations ==
    ASSUME WindowInv, NEW line \in Lines, ParseLine(line)
    PROVE  WindowDurations'
<1> DEFINE n == Len(lines) + 1
           Of(ls, I) == Counted(Durations(ls, I))
<1>0. /\ WindowDurations /\ WindowNames /\ lines \in Seq(Lines)
      /\ histogram' = Observe(histogram, line.ms)
  BY DEF WindowInv, ParseLine, Count
<1>1. ASSUME NEW I \in SUBSET (1..Len(lines)), NEW h, HistogramOf(h, Of(lines, I))
      PROVE  /\ HistogramOf(h, Of(lines', I))
             /\ HistogramOf(Observe(h, line.ms), Of(lines', I \cup {n}))
  <2>1. lines' = Append(lines, line)
    BY LinesJoin
  <2>2. QED
    BY <1>0, <1>1, <2>1, DurationsGrow
<1> HIDE DEF n, Of
<1>2. HistogramOf(histogram', Of(lines', 1..Len(lines')))
  <2>1. 1..Len(lines') = (1..Len(lines)) \cup {n}
    BY LinesJoin DEF n
  <2>2. HistogramOf(histogram, Of(lines, 1..Len(lines)))
    BY <1>0 DEF WindowDurations, Of
  <2>3. QED
    BY <1>0, <1>1, <2>1, <2>2
<1>3. /\ DOMAIN siteHistogram = DOMAIN sites
      /\ \A h \in Tracked : HistogramOf(siteHistogram[h], Of(lines, Named(lines, h)))
  BY <1>0 DEF WindowDurations, Of
<1>4. \A h \in Tracked : HistogramOf(siteHistogram[h], Of(lines', Named(lines, h)))
  BY <1>1, <1>3, OfTheWindow
<1>5. CASE line.host = Nameless
  <2>1. /\ sites' = sites /\ siteHistogram' = siteHistogram /\ Tracked' = Tracked
        /\ \A h \in Tracked : Named(lines', h) = Named(lines, h)
    BY <1>0, <1>5, NamelessJoins, TrackedHosts
  <2>2. DOMAIN siteHistogram' = DOMAIN sites'
    BY <1>3, <2>1
  <2>3. \A h \in Tracked' : HistogramOf(siteHistogram'[h], Of(lines', Named(lines', h)))
    BY <1>4, <2>1
  <2>4. QED
    BY <1>2, <2>2, <2>3 DEF WindowDurations, Of
<1>6. CASE line.host /= Nameless
  <2> DEFINE site == SiteFor(line.host)
             latency == IF site \in DOMAIN sites THEN siteHistogram[site] ELSE NewHistogram
  <2>1. /\ line.host \in Hosts /\ DOMAIN sites' = DOMAIN sites \cup {site}
        /\ DOMAIN siteHistogram' = DOMAIN sites \cup {site}
        /\ siteHistogram'[site] = Observe(latency, line.ms)
        /\ \A h \in DOMAIN sites \ {site} : siteHistogram'[h] = siteHistogram[h]
    BY <1>6, Joins
  <2>2. /\ site /= Other => Named(lines', site) = SiteLines(site) \cup {n}
        /\ \A h \in Tracked' \ {site} : h \in Tracked /\ Named(lines', h) = Named(lines, h)
    BY <1>6, NamedJoins DEF n
  <2>3. site \notin DOMAIN sites => SiteLines(site) = {}
    BY <2>1, WhichSite
  <2> HIDE DEF site
  <2>4. site /= Other => HistogramOf(latency, Of(lines, SiteLines(site)))
    <3>1. CASE site \notin DOMAIN sites
      <4>1. DOMAIN Of(lines, {}) = {}
        BY DEF Of, Counted, Durations
      <4>2. HistogramOf(NewHistogram, Of(lines, {}))
        BY <4>1, NewHistogramOf
      <4>3. QED
        BY <2>3, <3>1, <4>2
    <3>2. CASE site \in DOMAIN sites
      BY <1>3, <3>2 DEF SiteLines, Tracked
    <3>3. QED
      BY <3>1, <3>2
  <2> HIDE DEF latency
  <2>5. site /= Other => HistogramOf(siteHistogram'[site], Of(lines', SiteLines(site) \cup {n}))
    <3>1. SiteLines(site) \in SUBSET (1..Len(lines))
      BY OfTheWindow DEF SiteLines
    <3>2. QED
      BY <1>1, <2>1, <2>4, <3>1
  <2>6. ASSUME NEW h \in Tracked'
        PROVE  HistogramOf(siteHistogram'[h], Of(lines', Named(lines', h)))
    <3>1. CASE h = site
      <4>1. site /= Other
        BY <3>1 DEF Tracked
      <4>2. QED
        BY <2>2, <2>5, <3>1, <4>1
    <3>2. CASE h /= site
      <4>1. h \in Tracked /\ Named(lines', h) = Named(lines, h)
        BY <2>2, <3>2
      <4>2. siteHistogram'[h] = siteHistogram[h]
        BY <2>1, <3>2, <4>1 DEF Tracked
      <4>3. QED
        BY <1>4, <4>1, <4>2
    <3>3. QED
      BY <3>1, <3>2
  <2>7. DOMAIN siteHistogram' = DOMAIN sites'
    BY <2>1
  <2>8. QED
    BY <1>2, <2>6, <2>7 DEF WindowDurations, Of
<1>7. QED
  BY <1>5, <1>6

\* Names heard of before a site's first line are so for good; and until it has a
\* line, all names are.
LEMMA HeardBefore ==
    ASSUME WindowInv, NEW line \in Lines, ParseLine(line), NEW h \in Hosts
    PROVE  /\ NamesBefore(lines, h) \subseteq NamesBefore(lines', h)
           /\ Named(lines, h) = {} =>
                \A g \in Hosts : Named(lines, g) /= {} => g \in NamesBefore(lines', h)
<1> DEFINE n == Len(lines) + 1
<1>1. /\ Len(lines) \in Nat /\ Len(lines') = n /\ 1..Len(lines') = (1..Len(lines)) \cup {n}
      /\ \A i \in 1..Len(lines) : lines'[i] = lines[i] /\ i < n
      /\ Named(lines', h) \subseteq Named(lines, h) \cup {n}
  <2>1. Len(lines) \in Nat
    BY LinesHave DEF WindowInv
  <2>2. QED
    BY <2>1, LinesJoin
<1> HIDE DEF n
<1>2. ASSUME NEW k \in 1..Len(lines), \A j \in Named(lines, h) : k < j,
             lines[k].host /= Nameless
      PROVE  lines[k].host \in NamesBefore(lines', h)
  <2>1. k \in 1..Len(lines') /\ \A j \in Named(lines', h) : k < j
    BY <1>1, <1>2
  <2>2. lines'[k].host = lines[k].host
    BY <1>1
  <2>3. QED
    BY <1>2, <2>1, <2>2 DEF NamesBefore
<1>3. NamesBefore(lines, h) \subseteq NamesBefore(lines', h)
  BY <1>2 DEF NamesBefore
<1>4. ASSUME Named(lines, h) = {}, NEW g \in Hosts, Named(lines, g) /= {}
      PROVE  g \in NamesBefore(lines', h)
  <2>1. PICK k \in 1..Len(lines) : lines[k].host = g
    BY <1>4 DEF Named
  <2>2. g /= Nameless
    BY HostsAre
  <2>3. QED
    BY <1>2, <1>4, <2>1, <2>2
<1>5. QED
  BY <1>3, <1>4

LEMMA ParseNames ==
    ASSUME WindowInv, NEW line \in Lines, ParseLine(line)
    PROVE  WindowNames'
<1>0. WindowNames /\ lines \in Seq(Lines)
  BY DEF WindowInv
<1>1. /\ DOMAIN sites \subseteq Hosts \cup {Other}
      /\ Cardinality(Tracked) <= MaxTracked
      /\ Other \in DOMAIN sites => Cardinality(Tracked) = MaxTracked
      /\ \A h \in Tracked : Named(lines, h) /= {}
      /\ \A h \in Hosts \ Tracked :
           Named(lines, h) /= {} => Other \in DOMAIN sites /\ Tracked \subseteq NamesBefore(lines, h)
  BY <1>0 DEF WindowNames
<1>2. Tracked \subseteq Hosts /\ IsFiniteSet(Tracked) /\ Cardinality(Tracked) \in Nat
  BY <1>0, TrackedHosts
<1>3. \A h : Named(lines, h) \subseteq Named(lines', h)
  BY LinesJoin
<1>4. CASE line.host = Nameless
  <2>1. /\ sites' = sites /\ Tracked' = Tracked
        /\ \A h \in Hosts : Named(lines', h) = Named(lines, h)
    BY <1>4, NamelessJoins
  <2>2. \A h \in Hosts : NamesBefore(lines, h) \subseteq NamesBefore(lines', h)
    BY HeardBefore
  <2>3. \A h \in Tracked : Named(lines', h) /= {}
    BY <1>1, <1>2, <2>1
  <2>4. \A h \in Hosts \ Tracked :
          Named(lines', h) /= {} => Other \in DOMAIN sites /\ Tracked \subseteq NamesBefore(lines', h)
    BY <1>1, <2>1, <2>2
  <2>5. QED
    BY <1>1, <2>1, <2>3, <2>4 DEF WindowNames
<1>5. CASE line.host /= Nameless
  <2> DEFINE site == SiteFor(line.host)
  <2>1. /\ line.host \in Hosts /\ DOMAIN sites' = DOMAIN sites \cup {site}
        /\ Tracked' = IF site = Other THEN Tracked ELSE Tracked \cup {site}
    BY <1>5, Joins
  <2>2. /\ site \in {line.host, Other} /\ line.host /= Other
        /\ site = Other => line.host \notin Tracked /\ Cardinality(Tracked) = MaxTracked
        /\ site = line.host /\ line.host \notin Tracked =>
             /\ Other \notin DOMAIN sites /\ Cardinality(Tracked) < MaxTracked
             /\ \A g \in Hosts \ Tracked : Named(lines, g) = {}
    BY <2>1, WhichSite
  <2> HIDE DEF site
  <2>3. /\ \A h : h /= line.host => Named(lines', h) = Named(lines, h)
        /\ Named(lines', line.host) /= {}
    BY LinesJoin
  <2>4. DOMAIN sites' \subseteq Hosts \cup {Other}
    BY <1>1, <2>1, <2>2
  <2>5. \A h \in Tracked' : Named(lines', h) /= {}
    BY <1>1, <1>3, <2>1, <2>2, <2>3
  <2>6. CASE site = line.host /\ line.host \notin Tracked
    <3>1. Tracked' = Tracked \cup {line.host} /\ Other \notin DOMAIN sites'
      BY <2>1, <2>2, <2>6
    <3>2. Cardinality(Tracked') <= MaxTracked
      <4>1. Cardinality(Tracked \cup {line.host}) = Cardinality(Tracked) + 1
        BY <1>2, <2>6, FS_AddElement
      <4>2. QED
        BY <1>2, <2>2, <2>6, <3>1, <4>1, HostsAre
    <3>3. \A h \in Hosts \ Tracked' : Named(lines', h) = {}
      BY <2>2, <2>3, <2>6, <3>1
    <3>4. QED
      BY <2>4, <2>5, <3>1, <3>2, <3>3 DEF WindowNames
  <2>7. CASE ~(site = line.host /\ line.host \notin Tracked)
    <3>1. Tracked' = Tracked /\ (site = Other \/ line.host \in Tracked)
      BY <2>1, <2>2, <2>7
    <3>2. Other \in DOMAIN sites' => Cardinality(Tracked') = MaxTracked
      <4>1. CASE site = Other
        BY <2>2, <3>1, <4>1
      <4>2. CASE site /= Other
        BY <1>1, <2>1, <3>1, <4>2
      <4>3. QED
        BY <4>1, <4>2
    <3>3. ASSUME NEW h \in Hosts \ Tracked', Named(lines', h) /= {}
          PROVE  Other \in DOMAIN sites' /\ Tracked' \subseteq NamesBefore(lines', h)
      <4>1. CASE Named(lines, h) /= {}
        <5>1. Other \in DOMAIN sites /\ Tracked \subseteq NamesBefore(lines, h)
          BY <1>1, <3>1, <3>3, <4>1
        <5>2. NamesBefore(lines, h) \subseteq NamesBefore(lines', h)
          BY HeardBefore
        <5>3. QED
          BY <2>1, <3>1, <5>1, <5>2
      <4>2. CASE Named(lines, h) = {}
        <5>1. h = line.host
          BY <2>3, <3>3, <4>2
        <5>2. Other \in DOMAIN sites'
          BY <2>1, <3>1, <3>3, <5>1
        <5>3. \A g \in Tracked : g \in NamesBefore(lines', h)
          BY <1>1, <1>2, <4>2, HeardBefore
        <5>4. QED
          BY <3>1, <5>2, <5>3
      <4>3. QED
        BY <4>1, <4>2
    <3>4. Cardinality(Tracked') <= MaxTracked
      BY <1>1, <3>1
    <3>5. QED
      BY <2>4, <2>5, <3>2, <3>3, <3>4 DEF WindowNames
  <2>8. QED
    BY <2>6, <2>7
<1>6. QED
  BY <1>4, <1>5

\* The window of a new collector, or one that has just been closed.
Fresh ==
    /\ lines = <<>> /\ total = Zero /\ histogram = NewHistogram
    /\ sites = <<>> /\ siteHistogram = <<>>

LEMMA FreshWindow == Fresh => WindowInv
<1> SUFFICES ASSUME Fresh PROVE WindowInv
  OBVIOUS
<1>1. /\ lines \in Seq(Lines) /\ 1..Len(lines) = {} /\ DOMAIN sites = {}
      /\ DOMAIN siteHistogram = {}
  BY DEF Fresh
<1>2. Tracked = {}
  BY <1>1 DEF Tracked
<1>3. \A h : Named(lines, h) = {}
  BY <1>1 DEF Named
<1>4. WindowCounts
  BY <1>1, <1>2, TallyOfNone DEF WindowCounts, Fresh
<1>5. WindowNames
  BY <1>1, <1>2, <1>3, FS_EmptySet, HostsAre DEF WindowNames
<1>6. WindowDurations
  <2>1. DOMAIN Counted(Durations(lines, {})) = {}
    BY DEF Counted, Durations
  <2>2. HistogramOf(NewHistogram, Counted(Durations(lines, {})))
    BY <2>1, NewHistogramOf
  <2>3. QED
    BY <1>1, <1>2, <2>2 DEF WindowDurations, Fresh
<1>7. QED
  BY <1>1, <1>4, <1>5, <1>6 DEF WindowInv

LEMMA InitWindow == Init => WindowInv
<1>1. Init => Fresh
  BY DEF Init, Fresh
<1>2. QED
  BY <1>1, FreshWindow

LEMMA KeptWindow ==
    ASSUME WindowInv, UNCHANGED <<windowVars, lines>>
    PROVE  WindowInv'
<1>1. UNCHANGED <<total, histogram, sites, siteHistogram, lines>>
  BY DEF windowVars
<1>2. Tracked' = Tracked
  BY <1>1 DEF Tracked
<1>3. WindowCounts' /\ WindowNames' /\ WindowDurations'
  BY <1>1, <1>2 DEF WindowInv, WindowCounts, WindowNames, WindowDurations
<1>4. QED
  BY <1>1, <1>3 DEF WindowInv

LEMMA NextWindow ==
    ASSUME WindowInv, [Next]_vars
    PROVE  WindowInv'
<1>0. Fresh' => WindowInv'
  BY FreshWindow, PTL
<1>1. ASSUME NEW line \in Lines, ParseLine(line) PROVE WindowInv'
  <2>1. lines' \in Seq(Lines)
    BY <1>1, LinesJoin
  <2>2. WindowCounts' /\ WindowNames' /\ WindowDurations'
    BY <1>1, ParseCounts, ParseNames, ParseDurations
  <2>3. QED
    BY <2>1, <2>2 DEF WindowInv
<1>2. CASE CloseWindow
  <2>1. Reset(histogram) = NewHistogram
    BY ResetIsNew DEF WindowInv, WindowDurations, HistogramOf
  <2>2. Fresh'
    BY <1>2, <2>1 DEF CloseWindow, Fresh
  <2>3. QED
    BY <1>0, <2>2
<1>3. ASSUME NewCollector PROVE WindowInv'
  BY <1>0, <1>3 DEF NewCollector, Fresh
<1>4. ASSUME NEW enabled, Adopt(enabled) PROVE WindowInv'
  <2>1. CASE env \/ enabled = source
    BY <1>4, <2>1, KeptWindow DEF Adopt, collectorVars
  <2>2. CASE ~(env \/ enabled = source)
    BY <1>3, <1>4, <2>2 DEF Adopt
  <2>3. QED
    BY <2>1, <2>2
<1>5. CASE ApplySetting \/ ApplySettingFails \/ Restart
  BY <1>3, <1>4, <1>5 DEF ApplySetting, ApplySettingFails, Restart
<1>6. CASE \/ \E to \in Candidates \cup {Nothing} : Switch(to)
           \/ SampleWithoutLog \/ ReadingFails \/ TooSoon
           \/ \E opened, skips \in BOOLEAN : ReadLog(opened, skips)
           \/ UNCHANGED vars
  <2>1. UNCHANGED <<windowVars, lines>>
    BY <1>6 DEF Switch, SampleWithoutLog, ReadingFails, TooSoon, ReadLog, vars,
                collectorVars, historyVars
  <2>2. QED
    BY <2>1, KeptWindow
<1>7. QED
  BY <1>1, <1>2, <1>5, <1>6 DEF Next, TickStep

----------------------------------------------------------------------------
(* The report *)

LEMMA WindowsCount ==
    ASSUME WindowInv
    PROVE  /\ \A h \in DOMAIN sites : sites[h] = Tally(lines, SiteLines(h)) /\ sites[h] \in Counts
           /\ \A h : SiteLines(h) \in SUBSET (1..Len(lines)) /\ IsFiniteSet(SiteLines(h))
<1>1. IsFiniteSet(1..Len(lines))
  BY LinesHave, FS_Interval DEF WindowInv
<1>2. ASSUME NEW h
      PROVE  SiteLines(h) \in SUBSET (1..Len(lines)) /\ IsFiniteSet(SiteLines(h))
  <2>1. SiteLines(h) \in SUBSET (1..Len(lines))
    BY OfTheWindow DEF SiteLines
  <2>2. QED
    BY <1>1, <2>1, FS_Subset
<1>3. ASSUME NEW h \in DOMAIN sites
      PROVE  sites[h] = Tally(lines, SiteLines(h)) /\ sites[h] \in Counts
  <2>1. sites[h] = Tally(lines, SiteLines(h))
    BY DEF WindowInv, WindowCounts, SiteLines, Tracked
  <2>2. QED
    BY <1>2, <2>1, TallyType
<1>4. QED
  BY <1>2, <1>3

\* The comparison that sort.Slice is given is a strict order of the sites.
LEMMA BusierOrders ==
    ASSUME WindowInv
    PROVE  /\ \A g \in Tracked : ~Busier(g, g)
           /\ \A g, h \in Tracked : g = h \/ Busier(g, h) \/ Busier(h, g)
           /\ \A g, h \in Tracked : ~(Busier(g, h) /\ Busier(h, g))
           /\ \A g, h, k \in Tracked : Busier(g, h) /\ Busier(h, k) => Busier(g, k)
<1>1. \A h \in Tracked : sites[h].requests \in Nat /\ h \in Int
  <2>1. \A h \in Tracked : sites[h] \in Counts
    BY WindowsCount DEF Tracked
  <2>2. Tracked \subseteq Int
    BY TrackedHosts, HostsAre DEF WindowInv
  <2>3. QED
    BY <2>1, <2>2 DEF Counts
<1>2. QED
  BY <1>1 DEF Busier

Before(h) == {g \in Tracked : Busier(g, h)}

\* Counting who comes before each site numbers them all, without ties.
LEMMA Places ==
    ASSUME WindowInv
    PROVE  /\ \A h \in Tracked : Cardinality(Before(h)) + 1 \in 1..Cardinality(Tracked)
           /\ \A g, h \in Tracked : Busier(g, h) => Cardinality(Before(g)) < Cardinality(Before(h))
           /\ \A i \in 1..Cardinality(Tracked) : \E h \in Tracked : Cardinality(Before(h)) = i - 1
<1> DEFINE n == Cardinality(Tracked)
<1>1. IsFiniteSet(Tracked) /\ n \in Nat
  BY TrackedHosts DEF WindowInv
<1>2. ASSUME NEW h \in Tracked
      PROVE  IsFiniteSet(Before(h)) /\ Cardinality(Before(h)) \in Nat /\ Cardinality(Before(h)) < n
  <2>1. Before(h) \in SUBSET (Tracked \ {h})
    BY BusierOrders DEF Before
  <2>2. IsFiniteSet(Tracked \ {h}) /\ Cardinality(Tracked \ {h}) = n - 1
    BY <1>1, FS_RemoveElement
  <2>3. IsFiniteSet(Before(h)) /\ Cardinality(Before(h)) <= n - 1
    BY <2>1, <2>2, FS_Subset
  <2>4. Cardinality(Before(h)) \in Nat
    BY <2>3, FS_CardinalityType
  <2>5. QED
    BY <1>1, <2>3, <2>4
<1>3. ASSUME NEW g \in Tracked, NEW h \in Tracked, Busier(g, h)
      PROVE  Cardinality(Before(g)) < Cardinality(Before(h))
  <2>1. g \notin Before(g) /\ Before(g) \cup {g} \in SUBSET Before(h)
    BY <1>3, BusierOrders DEF Before
  <2>2. Cardinality(Before(g) \cup {g}) = Cardinality(Before(g)) + 1
    BY <1>2, <2>1, FS_AddElement
  <2>3. Cardinality(Before(g) \cup {g}) <= Cardinality(Before(h))
    BY <1>2, <2>1, FS_Subset
  <2>4. QED
    BY <1>2, <2>2, <2>3
<1>4. \A h \in Tracked : Cardinality(Before(h)) + 1 \in 1..n
  BY <1>1, <1>2
<1> DEFINE place == [h \in Tracked |-> Cardinality(Before(h)) + 1]
<1>5. place \in Injection(Tracked, 1..n)
  <2>1. place \in [Tracked -> 1..n]
    BY <1>4
  <2>2. ASSUME NEW g \in Tracked, NEW h \in Tracked, place[g] = place[h] PROVE g = h
    <3>1. Cardinality(Before(g)) = Cardinality(Before(h))
      BY <1>2, <2>2
    <3>2. ~Busier(g, h) /\ ~Busier(h, g)
      BY <1>2, <1>3, <3>1
    <3>3. QED
      BY <3>2, BusierOrders
  <2> HIDE DEF place, n
  <2>3. QED
    BY <2>1, <2>2 DEF Injection, IsInjective
<1>6. place \in Surjection(Tracked, 1..n)
  <2>1. IsFiniteSet(1..n) /\ Cardinality(1..n) = n
    BY <1>1, FS_Interval
  <2> HIDE DEF place
  <2>2. QED
    BY <1>5, <2>1, FS_Injection
<1>7. ASSUME NEW i \in 1..n PROVE \E h \in Tracked : Cardinality(Before(h)) = i - 1
  <2>1. PICK h \in Tracked : place[h] = i
    <3> HIDE DEF place, n
    <3> QED
      BY <1>6 DEF Surjection
  <2>2. Cardinality(Before(h)) + 1 = i /\ Cardinality(Before(h)) \in Nat
    BY <1>2, <2>1
  <2>3. QED
    BY <1>1, <2>2
<1>8. QED
  BY <1>3, <1>4, <1>7

\* The sites of the report are all the tracked ones, each once, busiest first.
LEMMA RankedSites ==
    ASSUME WindowInv
    PROVE  /\ Ranked \in Seq(Tracked) /\ Len(Ranked) = Cardinality(Tracked)
           /\ Len(Ranked) \in Nat
           /\ \A h \in Tracked : \E i \in 1..Len(Ranked) : Ranked[i] = h
           /\ \A i, j \in 1..Len(Ranked) : i < j => Busier(Ranked[i], Ranked[j])
           /\ \A i, j \in 1..Len(Ranked) : Ranked[i] = Ranked[j] => i = j
<1> DEFINE n == Cardinality(Tracked)
           At(i) == CHOOSE h \in Tracked : Cardinality(Before(h)) = i - 1
<1>0. n \in Nat
  BY TrackedHosts DEF WindowInv
<1>1. Ranked = [i \in 1..n |-> At(i)]
  BY DEF Ranked, Tracked, Before
<1>2. \A i \in 1..n : At(i) \in Tracked /\ Cardinality(Before(At(i))) = i - 1
  BY Places
<1> HIDE DEF At, n
<1>3. Ranked \in [1..n -> Tracked] /\ \A i \in 1..n : Ranked[i] = At(i)
  BY <1>1, <1>2
<1>4. Ranked \in Seq(Tracked) /\ Len(Ranked) = n
  BY <1>0, <1>3
<1>5. \A i \in 1..n : Ranked[i] \in Tracked /\ Cardinality(Before(Ranked[i])) = i - 1
  BY <1>2, <1>3
<1>6. ASSUME NEW i \in 1..n, NEW j \in 1..n, i < j PROVE Busier(Ranked[i], Ranked[j])
  <2>1. ~(Cardinality(Before(Ranked[j])) < Cardinality(Before(Ranked[i])))
    BY <1>0, <1>5, <1>6
  <2>2. ~Busier(Ranked[j], Ranked[i])
    BY <1>5, <2>1, Places
  <2>3. Ranked[i] /= Ranked[j]
    BY <1>0, <1>5, <1>6
  <2>4. QED
    BY <1>5, <2>2, <2>3, BusierOrders
<1>7. ASSUME NEW i \in 1..n, NEW j \in 1..n, Ranked[i] = Ranked[j] PROVE i = j
  <2>1. i - 1 = j - 1
    BY <1>5, <1>7
  <2>2. QED
    BY <1>0, <2>1
<1>8. ASSUME NEW h \in Tracked PROVE \E i \in 1..n : Ranked[i] = h
  <2> DEFINE i == Cardinality(Before(h)) + 1
  <2>1. i \in 1..n
    BY Places DEF n
  <2>2. Cardinality(Before(Ranked[i])) = Cardinality(Before(h)) /\ Cardinality(Before(h)) \in Nat
    <3>1. Cardinality(Before(h)) \in Nat
      <4>1. Before(h) \in SUBSET Tracked
        BY DEF Before
      <4>2. IsFiniteSet(Tracked)
        BY TrackedHosts DEF WindowInv
      <4>3. QED
        BY <4>1, <4>2, FS_Subset, FS_CardinalityType
    <3>2. QED
      BY <1>5, <2>1, <3>1
  <2>3. ~Busier(Ranked[i], h) /\ ~Busier(h, Ranked[i])
    BY <1>5, <2>1, <2>2, Places
  <2>4. Ranked[i] = h
    BY <1>5, <2>1, <2>3, BusierOrders
  <2>5. QED
    BY <2>1, <2>4
<1>9. QED
  BY <1>0, <1>4, <1>6, <1>7, <1>8 DEF n

\* A sum of the sizes of sets that have nothing in common is the size of all of
\* them together.
LEMMA SumOfParts ==
    ASSUME NEW list \in Seq(Nat), NEW part,
           \A i \in 1..Len(list) : IsFiniteSet(part[i]) /\ Cardinality(part[i]) = list[i],
           \A i, j \in 1..Len(list) : i /= j => part[i] \cap part[j] = {}
    PROVE  Sum(list) = Cardinality(UNION {part[i] : i \in 1..Len(list)})
<1> DEFINE n == Len(list)
           c == Cumulative(list)
           All(k) == UNION {part[i] : i \in 1..k}
           S == {k \in Nat : k <= n => IsFiniteSet(All(k)) /\ c[k] = Cardinality(All(k))}
<1>1. n \in Nat /\ \A i \in 1..n : list[i] \in Nat
  OBVIOUS
<1>2. c \in [0..n -> Nat] /\ c[0] = 0 /\ \A i \in 1..n : c[i] = c[i - 1] + list[i]
  BY CumulativeSums
<1> HIDE DEF n, c
<1>3. 0 \in S
  <2>1. All(0) = {}
    OBVIOUS
  <2> HIDE DEF All
  <2>2. QED
    BY <1>2, <2>1, FS_EmptySet
<1>4. ASSUME NEW k \in Nat, k \in S PROVE k + 1 \in S
  <2> SUFFICES ASSUME k + 1 <= n
               PROVE  IsFiniteSet(All(k + 1)) /\ c[k + 1] = Cardinality(All(k + 1))
    OBVIOUS
  <2>1. k + 1 \in 1..n /\ k <= n /\ (k + 1) - 1 = k /\ 1..(k + 1) = (1..k) \cup {k + 1}
    BY <1>1
  <2>2. IsFiniteSet(All(k)) /\ c[k] = Cardinality(All(k))
    BY <1>4, <2>1
  <2>3. All(k + 1) = All(k) \cup part[k + 1]
    <3>1. {part[i] : i \in 1..(k + 1)} = {part[i] : i \in 1..k} \cup {part[k + 1]}
      BY <2>1
    <3>2. QED
      BY <3>1
  <2>4. IsFiniteSet(part[k + 1]) /\ Cardinality(part[k + 1]) = list[k + 1]
    BY <2>1 DEF n
  <2>5. All(k) \cap part[k + 1] = {}
    <3>1. \A i \in 1..k : i \in 1..n /\ i /= k + 1
      BY <1>1, <2>1
    <3>2. \A i \in 1..k : part[i] \cap part[k + 1] = {}
      BY <2>1, <3>1 DEF n
    <3>3. QED
      BY <3>2
  <2> HIDE DEF All
  <2>6. /\ IsFiniteSet(All(k + 1))
        /\ Cardinality(All(k + 1)) = Cardinality(All(k)) + Cardinality(part[k + 1]) - Cardinality({})
        /\ Cardinality({}) = 0
    BY <2>2, <2>3, <2>4, <2>5, FS_Union, FS_EmptySet
  <2>7. Cardinality(All(k)) \in Nat /\ list[k + 1] \in Nat
    BY <1>1, <2>1, <2>2, FS_CardinalityType
  <2>8. c[k + 1] = c[k] + list[k + 1]
    BY <1>2, <2>1
  <2>9. QED
    BY <2>2, <2>4, <2>6, <2>7, <2>8
<1>5. \A k \in Nat : k \in S
  <2> HIDE DEF S
  <2> QED
    BY <1>3, <1>4, FromZeroUp
<1>6. c[n] = Cardinality(All(n))
  <2> HIDE DEF All
  <2> QED
    BY <1>1, <1>5
<1>7. QED
  BY <1>6 DEF Sum, n, c

\* The sites that have no row of their own: the shared window and those past the cut.
Listed == {Ranked[i] : i \in 1..Reported}
CutOff == SharedWindow \o SubSeq(Ranked, Reported + 1, Len(Ranked))

LEMMA ReportedSites ==
    ASSUME WindowInv
    PROVE  /\ Reported \in Nat /\ Reported <= Len(Ranked) /\ Reported <= MaxReported
           /\ Listed \subseteq Tracked
           /\ \A h \in Tracked \ Listed : \E i \in (Reported + 1)..Len(Ranked) : Ranked[i] = h
           /\ \A i \in (Reported + 1)..Len(Ranked) : Ranked[i] \in Tracked \ Listed
<1>1. /\ Ranked \in Seq(Tracked) /\ Len(Ranked) \in Nat
      /\ \A h \in Tracked : \E i \in 1..Len(Ranked) : Ranked[i] = h
      /\ \A i, j \in 1..Len(Ranked) : Ranked[i] = Ranked[j] => i = j
  BY RankedSites
<1>2. Reported \in Nat /\ Reported <= Len(Ranked) /\ Reported <= MaxReported
  <2>1. Min({MaxReported, Len(Ranked)}) =
          IF MaxReported <= Len(Ranked) THEN MaxReported ELSE Len(Ranked)
    BY <1>1, HostsAre, LessOfTwo
  <2>2. QED
    BY <1>1, <2>1, HostsAre DEF Reported
<1>3. \A i \in 1..Len(Ranked) : Ranked[i] \in Tracked
  BY <1>1
<1>4. Listed \subseteq Tracked
  BY <1>1, <1>2, <1>3 DEF Listed
<1>5. ASSUME NEW h \in Tracked \ Listed
      PROVE  \E i \in (Reported + 1)..Len(Ranked) : Ranked[i] = h
  <2>1. PICK i \in 1..Len(Ranked) : Ranked[i] = h
    BY <1>1
  <2>2. i \notin 1..Reported
    BY <1>5, <2>1 DEF Listed
  <2>3. i \in (Reported + 1)..Len(Ranked)
    BY <1>1, <1>2, <2>2
  <2>4. QED
    BY <2>1, <2>3
<1>6. ASSUME NEW i \in (Reported + 1)..Len(Ranked) PROVE Ranked[i] \in Tracked \ Listed
  <2>1. i \in 1..Len(Ranked)
    BY <1>1, <1>2
  <2>2. \A j \in 1..Reported : j \in 1..Len(Ranked) /\ j /= i
    BY <1>1, <1>2
  <2>3. \A j \in 1..Reported : Ranked[j] /= Ranked[i]
    BY <1>1, <2>1, <2>2
  <2>4. QED
    BY <1>3, <2>1, <2>3 DEF Listed
<1>7. QED
  BY <1>2, <1>4, <1>5, <1>6

LEMMA CutOffSites ==
    ASSUME WindowInv
    PROVE  /\ CutOff \in Seq(DOMAIN sites)
           /\ \A h \in DOMAIN sites \ Listed : \E i \in 1..Len(CutOff) : CutOff[i] = h
           /\ \A i \in 1..Len(CutOff) : CutOff[i] \notin Listed
           /\ \A i, j \in 1..Len(CutOff) : CutOff[i] = CutOff[j] => i = j
<1> DEFINE r == Reported
           n == Len(Ranked)
           past == SubSeq(Ranked, r + 1, n)
           m == Len(SharedWindow)
           D == DOMAIN sites
<1>1. /\ r \in Nat /\ n \in Nat /\ r <= n /\ Listed \subseteq Tracked
      /\ \A h \in Tracked \ Listed : \E i \in (r + 1)..n : Ranked[i] = h
      /\ \A i \in (r + 1)..n : Ranked[i] \in Tracked \ Listed
  BY ReportedSites, RankedSites
<1>2. \A i, j \in 1..n : Ranked[i] = Ranked[j] => i = j
  BY RankedSites
<1>3. Tracked \subseteq D /\ Other \notin Tracked /\ D \subseteq Tracked \cup {Other}
  BY DEF Tracked
<1> HIDE DEF r, n, D
<1>4. /\ past \in Seq(D) /\ Len(past) = n - r
      /\ \A k \in 1..(n - r) : past[k] = Ranked[r + k]
  <2>1. r + 1 \in Int /\ n \in Int /\ \A i \in (r + 1)..n : Ranked[i] \in D
    BY <1>1, <1>3
  <2>2. /\ past \in Seq(D) /\ Len(past) = IF r + 1 <= n THEN n - (r + 1) + 1 ELSE 0
        /\ \A i \in 1..(n - (r + 1) + 1) : past[i] = Ranked[(r + 1) + i - 1]
    BY <2>1, SubSeqProperties
  <2>3. n - (r + 1) + 1 = n - r /\ \A i \in Int : (r + 1) + i - 1 = r + i
    BY <1>1
  <2>4. QED
    BY <1>1, <2>2, <2>3
<1>5. /\ SharedWindow \in Seq(D) /\ m \in {0, 1} /\ m \in Nat
      /\ m = 1 => SharedWindow[1] = Other
      /\ Other \in D => m = 1
  <2>1. CASE Other \in D
    BY <2>1 DEF SharedWindow, D
  <2>2. CASE Other \notin D
    BY <2>2 DEF SharedWindow, D
  <2>3. QED
    BY <2>1, <2>2
<1> HIDE DEF past, m
<1>6. /\ CutOff \in Seq(D) /\ Len(CutOff) = m + (n - r)
      /\ \A i \in 1..(m + (n - r)) :
           CutOff[i] = IF i <= m THEN SharedWindow[i] ELSE past[i - m]
  <2>1. CutOff = SharedWindow \o past
    BY DEF CutOff, past, r, n
  <2>2. QED
    BY <1>4, <1>5, <2>1, ConcatProperties DEF m
<1>7. ASSUME NEW i \in 1..Len(CutOff)
      PROVE  \/ i = 1 /\ m = 1 /\ CutOff[i] = Other
             \/ /\ i > m /\ r + (i - m) \in (r + 1)..n /\ CutOff[i] = Ranked[r + (i - m)]
  <2>1. CASE i <= m
    <3>1. m = 1 /\ i = 1
      BY <1>1, <1>5, <1>6, <2>1
    <3>2. QED
      BY <1>5, <1>6, <2>1, <3>1
  <2>2. CASE i > m
    <3>1. i - m \in 1..(n - r) /\ r + (i - m) \in (r + 1)..n
      BY <1>1, <1>5, <1>6, <2>2
    <3>2. CutOff[i] = past[i - m]
      BY <1>5, <1>6, <2>2
    <3>3. QED
      BY <1>4, <2>2, <3>1, <3>2
  <2>3. QED
    BY <1>1, <1>5, <1>6, <2>1, <2>2
<1>8. ASSUME NEW h \in D \ Listed PROVE \E i \in 1..Len(CutOff) : CutOff[i] = h
  <2>1. CASE h = Other
    <3>1. m = 1 /\ 1 \in 1..Len(CutOff)
      BY <1>1, <1>5, <1>6, <2>1
    <3>2. CutOff[1] = Other
      BY <1>5, <1>6, <3>1
    <3>3. QED
      BY <2>1, <3>1, <3>2
  <2>2. CASE h \in Tracked
    <3>1. PICK j \in (r + 1)..n : Ranked[j] = h
      BY <1>1, <1>8, <2>2
    <3> DEFINE i == m + (j - r)
    <3>2. i \in 1..Len(CutOff) /\ i > m /\ i - m = j - r /\ j - r \in 1..(n - r) /\ r + (j - r) = j
      BY <1>1, <1>5, <1>6
    <3>3. CutOff[i] = past[j - r]
      <4> HIDE DEF i
      <4>1. ~(i <= m)
        BY <1>5, <1>6, <3>2
      <4>2. QED
        BY <1>6, <3>2, <4>1
    <3>4. past[j - r] = Ranked[j]
      BY <1>4, <3>2
    <3>5. QED
      BY <3>1, <3>2, <3>3, <3>4
  <2>3. QED
    BY <1>3, <2>1, <2>2
<1>9. ASSUME NEW i \in 1..Len(CutOff) PROVE CutOff[i] \notin Listed
  BY <1>1, <1>3, <1>7
<1>10. ASSUME NEW i \in 1..Len(CutOff), NEW j \in 1..Len(CutOff), CutOff[i] = CutOff[j]
       PROVE  i = j
  <2>1. CASE CutOff[i] = Other
    <3>1. \A k \in (r + 1)..n : Ranked[k] /= Other
      BY <1>1, <1>3
    <3>2. i = 1 /\ j = 1
      BY <1>7, <1>10, <2>1, <3>1
    <3>3. QED
      BY <3>2
  <2>2. CASE CutOff[i] /= Other
    <3>1. /\ r + (i - m) \in (r + 1)..n /\ r + (j - m) \in (r + 1)..n
          /\ Ranked[r + (i - m)] = Ranked[r + (j - m)]
      BY <1>7, <1>10, <2>2
    <3>2. r + (i - m) \in 1..n /\ r + (j - m) \in 1..n
      BY <1>1, <3>1
    <3>3. r + (i - m) = r + (j - m)
      BY <1>2, <3>1, <3>2
    <3>4. i \in Int /\ j \in Int
      BY <1>1, <1>5, <1>6
    <3>5. QED
      BY <1>1, <1>5, <3>3, <3>4
  <2>3. QED
    BY <2>1, <2>2
<1>11. QED
  BY <1>6, <1>8, <1>9, <1>10 DEF D

\* The lines of the sites that are cut off are those whose name has no row.
LEMMA CutOffLines ==
    ASSUME WindowInv
    PROVE  /\ \A g, h \in DOMAIN sites : g /= h => SiteLines(g) \cap SiteLines(h) = {}
           /\ UNION {SiteLines(CutOff[i]) : i \in 1..Len(CutOff)} = NamedOtherThan(lines, Listed)
<1>0. lines \in Seq(Lines) /\ WindowNames
  BY DEF WindowInv
<1>1. /\ CutOff \in Seq(DOMAIN sites) /\ \A i \in 1..Len(CutOff) : CutOff[i] \in DOMAIN sites
      /\ \A h \in DOMAIN sites \ Listed : \E i \in 1..Len(CutOff) : CutOff[i] = h
      /\ \A i \in 1..Len(CutOff) : CutOff[i] \notin Listed
  BY CutOffSites
<1>2. Listed \subseteq Tracked /\ Tracked \subseteq Hosts /\ Nameless \notin Hosts
  BY <1>0, ReportedSites, TrackedHosts, HostsAre
<1>3. ASSUME NEW g \in DOMAIN sites, NEW h \in DOMAIN sites, g /= h
      PROVE  SiteLines(g) \cap SiteLines(h) = {}
  BY <1>3 DEF SiteLines, Named, NamedOtherThan, Tracked
<1>4. ASSUME NEW i \in 1..Len(CutOff), NEW x \in SiteLines(CutOff[i])
      PROVE  x \in NamedOtherThan(lines, Listed)
  <2>1. CASE CutOff[i] = Other
    BY <1>2, <2>1 DEF SiteLines, NamedOtherThan
  <2>2. CASE CutOff[i] /= Other
    <3>1. CutOff[i] \in Tracked \ Listed /\ CutOff[i] /= Nameless
      BY <1>1, <1>2, <2>2 DEF Tracked
    <3>2. QED
      BY <2>2, <3>1 DEF SiteLines, Named, NamedOtherThan
  <2>3. QED
    BY <2>1, <2>2
<1>5. ASSUME NEW x \in NamedOtherThan(lines, Listed)
      PROVE  \E i \in 1..Len(CutOff) : x \in SiteLines(CutOff[i])
  <2> DEFINE host == lines[x].host
  <2>1. x \in 1..Len(lines) /\ host \notin Listed /\ host /= Nameless
    BY DEF NamedOtherThan
  <2>2. host \in Hosts /\ x \in Named(lines, host)
    BY <1>0, <2>1, LinesHave DEF Named
  <2>3. CASE host \in Tracked
    <3>1. PICK i \in 1..Len(CutOff) : CutOff[i] = host
      BY <1>1, <2>1, <2>3 DEF Tracked
    <3>2. x \in SiteLines(host)
      BY <2>2, <2>3 DEF SiteLines, Tracked
    <3>3. QED
      BY <3>1, <3>2
  <2>4. CASE host \notin Tracked
    <3>1. Other \in DOMAIN sites \ Listed
      BY <1>0, <1>2, <2>2, <2>4 DEF WindowNames, Tracked
    <3>2. PICK i \in 1..Len(CutOff) : CutOff[i] = Other
      BY <1>1, <3>1
    <3>3. x \in SiteLines(Other)
      BY <2>1, <2>4 DEF SiteLines, NamedOtherThan
    <3>4. QED
      BY <3>2, <3>3
  <2>5. QED
    BY <2>3, <2>4
<1>6. QED
  BY <1>3, <1>4, <1>5

\* So the row they share is the tally of those lines.
LEMMA TogetherTallies ==
    ASSUME WindowInv
    PROVE  /\ Together(CutOff) = Tally(lines, NamedOtherThan(lines, Listed))
           /\ CutOff = <<>> => NamedOtherThan(lines, Listed) = {}
<1> DEFINE L == Len(CutOff)
           rest == NamedOtherThan(lines, Listed)
<1>1. /\ L \in Nat /\ \A i \in 1..L : CutOff[i] \in DOMAIN sites
      /\ \A i, j \in 1..L : CutOff[i] = CutOff[j] => i = j
  BY CutOffSites
<1>2. /\ \A g, h \in DOMAIN sites : g /= h => SiteLines(g) \cap SiteLines(h) = {}
      /\ UNION {SiteLines(CutOff[i]) : i \in 1..L} = rest
  BY CutOffLines
<1>3. /\ \A i \in 1..L : /\ sites[CutOff[i]] = Tally(lines, SiteLines(CutOff[i]))
                         /\ IsFiniteSet(SiteLines(CutOff[i]))
  BY <1>1, WindowsCount
<1>4. CutOff = <<>> => rest = {}
  <2>1. CutOff = <<>> => 1..L = {}
    OBVIOUS
  <2>2. QED
    BY <1>2, <2>1
<1>t. \A I : /\ Tally(lines, I).requests = Cardinality(I)
            /\ Tally(lines, I).status4xx = Cardinality(OfClass(lines, I, "4xx"))
            /\ Tally(lines, I).status5xx = Cardinality(OfClass(lines, I, "5xx"))
  BY DEF Tally
<1> HIDE DEF L, rest
<1>5. ASSUME NEW part, NEW whole, NEW list, list = [i \in 1..L |-> Cardinality(part[i])],
             \A i \in 1..L : part[i] \in SUBSET SiteLines(CutOff[i]),
             UNION {part[i] : i \in 1..L} = whole
      PROVE  Sum(list) = Cardinality(whole)
  <2>1. \A i \in 1..L : IsFiniteSet(part[i]) /\ Cardinality(part[i]) \in Nat
    BY <1>3, <1>5, FS_Subset, FS_CardinalityType
  <2>2. list \in Seq(Nat) /\ Len(list) = L
    BY <1>1, <1>5, <2>1
  <2>3. \A i \in 1..L : IsFiniteSet(part[i]) /\ Cardinality(part[i]) = list[i]
    BY <1>5, <2>1
  <2>4. \A i, j \in 1..L : i /= j => part[i] \cap part[j] = {}
    <3>1. \A i, j \in 1..L : i /= j => SiteLines(CutOff[i]) \cap SiteLines(CutOff[j]) = {}
      BY <1>1, <1>2
    <3>2. QED
      BY <1>5, <3>1
  <2>5. Sum(list) = Cardinality(UNION {part[i] : i \in 1..L})
    BY <2>2, <2>3, <2>4, SumOfParts
  <2>6. QED
    BY <1>5, <2>5
<1>6. Sum([i \in 1..L |-> sites[CutOff[i]].requests]) = Cardinality(rest)
  <2> DEFINE part == [i \in 1..L |-> SiteLines(CutOff[i])]
             list == [i \in 1..L |-> sites[CutOff[i]].requests]
  <2>1. \A i \in 1..L : part[i] = SiteLines(CutOff[i])
    OBVIOUS
  <2>2. \A i \in 1..L : sites[CutOff[i]].requests = Cardinality(part[i])
    BY <1>3, <1>t, <2>1
  <2>3. {part[i] : i \in 1..L} = {SiteLines(CutOff[i]) : i \in 1..L}
    BY <2>1
  <2> HIDE DEF part
  <2>4. list = [i \in 1..L |-> Cardinality(part[i])]
    BY <2>2
  <2> HIDE DEF list
  <2>5. Sum(list) = Cardinality(rest)
    BY <1>2, <1>5, <2>1, <2>3, <2>4
  <2>6. QED
    BY <2>5 DEF list
<1>7. ASSUME NEW class
      PROVE  Sum([i \in 1..L |-> Cardinality(OfClass(lines, SiteLines(CutOff[i]), class))])
               = Cardinality(OfClass(lines, rest, class))
  <2> DEFINE part == [i \in 1..L |-> OfClass(lines, SiteLines(CutOff[i]), class)]
             list == [i \in 1..L |-> Cardinality(OfClass(lines, SiteLines(CutOff[i]), class))]
  <2>1. \A i \in 1..L : part[i] = OfClass(lines, SiteLines(CutOff[i]), class)
    OBVIOUS
  <2> HIDE DEF part
  <2>2. list = [i \in 1..L |-> Cardinality(part[i])]
    BY <2>1
  <2>3. \A i \in 1..L : part[i] \in SUBSET SiteLines(CutOff[i])
    BY <2>1 DEF OfClass
  <2>4. UNION {part[i] : i \in 1..L} = OfClass(lines, rest, class)
    <3>1. \A x : (\E i \in 1..L : x \in SiteLines(CutOff[i])) <=> x \in rest
      BY <1>2
    <3>2. \A x : (\E i \in 1..L : x \in part[i]) <=> x \in rest /\ lines[x].class = class
      BY <2>1, <3>1 DEF OfClass
    <3>3. QED
      BY <3>2 DEF OfClass
  <2> HIDE DEF list
  <2>5. Sum(list) = Cardinality(OfClass(lines, rest, class))
    BY <1>5, <2>2, <2>3, <2>4
  <2>6. QED
    BY <2>5 DEF list
<1>8. /\ Sum([i \in 1..L |-> sites[CutOff[i]].status4xx]) = Cardinality(OfClass(lines, rest, "4xx"))
      /\ Sum([i \in 1..L |-> sites[CutOff[i]].status5xx]) = Cardinality(OfClass(lines, rest, "5xx"))
  <2>1. \A i \in 1..L :
          /\ sites[CutOff[i]].status4xx = Cardinality(OfClass(lines, SiteLines(CutOff[i]), "4xx"))
          /\ sites[CutOff[i]].status5xx = Cardinality(OfClass(lines, SiteLines(CutOff[i]), "5xx"))
    BY <1>3, <1>t
  <2>2. /\ [i \in 1..L |-> sites[CutOff[i]].status4xx]
             = [i \in 1..L |-> Cardinality(OfClass(lines, SiteLines(CutOff[i]), "4xx"))]
        /\ [i \in 1..L |-> sites[CutOff[i]].status5xx]
             = [i \in 1..L |-> Cardinality(OfClass(lines, SiteLines(CutOff[i]), "5xx"))]
    BY <2>1
  <2>3. QED
    BY <1>7, <2>2
<1>9. QED
  BY <1>4, <1>6, <1>8 DEF Together, Tally, L, rest

\* The rows of the report: those of the listed sites in their order, and the shared
\* row when anything is cut off.
LEMMA SampledRows ==
    ASSUME WindowInv
    PROVE  /\ Reported \in Nat
           /\ Len(SampleSites) = IF CutOff = <<>> THEN Reported ELSE Reported + 1
           /\ \A i \in 1..Reported : SampleSites[i] = Row(Ranked[i])
           /\ CutOff /= <<>> =>
                SampleSites[Reported + 1] = [host |-> Other, count |-> Together(CutOff),
                                             percentiles |-> NoPercentiles]
<1> DEFINE r == Reported
           kept == [i \in 1..r |-> Row(Ranked[i])]
           last == [host |-> Other, count |-> Together(CutOff), percentiles |-> NoPercentiles]
           tail == IF CutOff = <<>> THEN <<>> ELSE <<last>>
           R == {Row(Ranked[i]) : i \in 1..r} \cup {last}
<1>1. r \in Nat
  BY ReportedSites
<1>2. SampleSites = kept \o tail
  BY DEF SampleSites, OverflowRow, CutOff
<1> HIDE DEF last, r
<1>3. kept \in Seq(R) /\ Len(kept) = r /\ \A i \in 1..r : kept[i] = Row(Ranked[i])
  <2>1. \A i \in 1..r : Row(Ranked[i]) \in R
    OBVIOUS
  <2> HIDE DEF R
  <2>2. kept \in [1..r -> R]
    BY <2>1
  <2>3. \A i \in 1..r : kept[i] = Row(Ranked[i])
    OBVIOUS
  <2> HIDE DEF kept
  <2>4. QED
    BY <1>1, <2>2, <2>3
<1>4. tail \in Seq(R) /\ Len(tail) = IF CutOff = <<>> THEN 0 ELSE 1
  <2>1. last \in R
    OBVIOUS
  <2> HIDE DEF R
  <2>2. QED
    BY <2>1
<1>5. CutOff /= <<>> => tail[1] = last
  OBVIOUS
<1> HIDE DEF kept, tail, R
<1>6. /\ Len(kept \o tail) = r + Len(tail)
      /\ \A i \in 1..(r + Len(tail)) :
           (kept \o tail)[i] = IF i <= r THEN kept[i] ELSE tail[i - r]
  BY <1>3, <1>4, ConcatProperties
<1>7. Len(SampleSites) = IF CutOff = <<>> THEN r ELSE r + 1
  BY <1>1, <1>2, <1>4, <1>6
<1>8. \A i \in 1..r : SampleSites[i] = Row(Ranked[i])
  <2>1. \A i \in 1..r : i \in 1..(r + Len(tail)) /\ i <= r
    BY <1>1, <1>4
  <2>2. QED
    BY <1>2, <1>3, <1>6, <2>1
<1>9. CutOff /= <<>> => SampleSites[r + 1] = last
  <2>1. CutOff /= <<>> => r + 1 \in 1..(r + Len(tail)) /\ ~(r + 1 <= r) /\ (r + 1) - r = 1
    BY <1>1, <1>4
  <2>2. QED
    BY <1>2, <1>5, <1>6, <2>1
<1>10. QED
  BY <1>1, <1>7, <1>8, <1>9 DEF r, last

\* What is reported when a window is closed.
LEMMA ClosedReport ==
    ASSUME WindowInv, CloseWindow
    PROVE  LET rows == report'.rows
               listed == {i \in 1..Len(rows) : rows[i].host /= Other}
           IN  /\ report'.shown = TRUE /\ report'.total = total
               /\ report'.percentiles = Percentiles(histogram)
               /\ reported' = lines /\ lines \in Seq(Lines)
               /\ listed = 1..Reported /\ Reported \in Nat
               /\ Len(rows) \in Nat
               /\ \A i \in listed : rows[i] = Row(Ranked[i]) /\ Ranked[i] \in Tracked
               /\ \A i \in 1..Len(rows) : rows[i].host = Other =>
                    /\ i = Reported + 1
                    /\ rows[i].count = Together(CutOff) /\ rows[i].percentiles = NoPercentiles
               /\ RowHosts' = IF CutOff = <<>> THEN Listed ELSE Listed \cup {Other}
               /\ Unlisted' = NamedOtherThan(lines, Listed)
<1> DEFINE rows == report'.rows
           r == Reported
           listed == {i \in 1..Len(rows) : rows[i].host /= Other}
<1>1. /\ report' = [shown |-> TRUE, total |-> total, percentiles |-> Percentiles(histogram),
                    rows |-> SampleSites]
      /\ reported' = lines
  BY DEF CloseWindow
<1>2. lines \in Seq(Lines)
  BY DEF WindowInv
<1>3. /\ report'.shown = TRUE /\ report'.total = total
      /\ report'.percentiles = Percentiles(histogram) /\ rows = SampleSites
  BY <1>1
<1>4. /\ r \in Nat /\ Len(rows) = IF CutOff = <<>> THEN r ELSE r + 1
      /\ \A i \in 1..r : rows[i] = Row(Ranked[i])
      /\ CutOff /= <<>> =>
           rows[r + 1] = [host |-> Other, count |-> Together(CutOff), percentiles |-> NoPercentiles]
  BY <1>3, SampledRows
<1>5. \A i \in 1..r : Ranked[i] \in Tracked
  BY ReportedSites DEF Listed
<1>6. RowHosts' = {rows[i].host : i \in 1..Len(rows)}
  BY DEF RowHosts
<1> HIDE DEF rows, r
<1>7. \A i \in 1..r : rows[i].host = Ranked[i] /\ rows[i].host /= Other
  <2>1. \A h : Row(h).host = h
    BY DEF Row
  <2>2. \A i \in 1..r : rows[i].host = Ranked[i]
    BY <1>4, <2>1
  <2>3. Other \notin Tracked
    BY DEF Tracked
  <2>4. QED
    BY <1>5, <2>2, <2>3 DEF r
<1>8. CutOff /= <<>> => /\ rows[r + 1].host = Other /\ rows[r + 1].count = Together(CutOff)
                        /\ rows[r + 1].percentiles = NoPercentiles
  BY <1>4
<1>9. 1..Len(rows) = IF CutOff = <<>> THEN 1..r ELSE (1..r) \cup {r + 1}
  <2>1. r \in Nat /\ 1..(r + 1) = (1..r) \cup {r + 1}
    BY <1>4
  <2>2. QED
    BY <1>4, <2>1
<1>10. listed = 1..r
  BY <1>7, <1>8, <1>9
<1>11. ASSUME NEW i \in 1..Len(rows), rows[i].host = Other
       PROVE  /\ i = r + 1 /\ rows[i].count = Together(CutOff)
              /\ rows[i].percentiles = NoPercentiles
  BY <1>7, <1>8, <1>9, <1>11
<1>12. RowHosts' = IF CutOff = <<>> THEN Listed ELSE Listed \cup {Other}
  <2>1. Listed = {rows[i].host : i \in 1..r}
    BY <1>7 DEF Listed, r
  <2>2. QED
    BY <1>6, <1>8, <1>9, <2>1
<1>13. Unlisted' = NamedOtherThan(lines, Listed)
  <2>1. Unlisted' = NamedOtherThan(lines, RowHosts')
    BY <1>1 DEF Unlisted
  <2>2. \A i \in 1..Len(lines) : lines[i].host /= Other
    BY <1>2, LinesHave, HostsAre
  <2>3. QED
    BY <1>12, <2>1, <2>2 DEF NamedOtherThan
<1>14. Len(rows) \in Nat
  BY <1>4
<1>15. QED
  BY <1>1, <1>2, <1>3, <1>4, <1>5, <1>10, <1>11, <1>12, <1>13, <1>14 DEF rows, r

LEMMA ClosedRowsExact ==
    ASSUME WindowInv, CloseWindow
    PROVE  RowsAreExact'
<1> DEFINE rows == report'.rows
           listed == {i \in 1..Len(rows) : rows[i].host /= Other}
<1>1. /\ report'.total = total /\ reported' = lines
      /\ \A i \in listed : rows[i] = Row(Ranked[i]) /\ Ranked[i] \in Tracked
      /\ \A i \in 1..Len(rows) : rows[i].host = Other => rows[i].count = Together(CutOff)
      /\ RowHosts' = IF CutOff = <<>> THEN Listed ELSE Listed \cup {Other}
      /\ Unlisted' = NamedOtherThan(lines, Listed)
  BY ClosedReport
<1> HIDE DEF rows
<1>2. report'.total = Tally(reported', 1..Len(reported'))
  BY <1>1 DEF WindowInv, WindowCounts
<1>3. ASSUME NEW i \in 1..Len(rows)
      PROVE  rows[i].count = Tally(reported', IF rows[i].host = Other THEN Unlisted'
                                              ELSE Named(reported', rows[i].host))
  <2>1. CASE rows[i].host = Other
    BY <1>1, <2>1, TogetherTallies
  <2>2. CASE rows[i].host /= Other
    <3>1. rows[i] = Row(Ranked[i]) /\ Ranked[i] \in Tracked
      BY <1>1, <2>2
    <3>2. rows[i].host = Ranked[i] /\ rows[i].count = sites[Ranked[i]]
      BY <3>1 DEF Row
    <3>3. sites[Ranked[i]] = Tally(lines, Named(lines, Ranked[i]))
      BY <3>1 DEF WindowInv, WindowCounts
    <3>4. QED
      BY <1>1, <2>2, <3>2, <3>3
  <2>3. QED
    BY <2>1, <2>2
<1>4. Unlisted' /= {} => Other \in RowHosts'
  BY <1>1, TogetherTallies
<1>5. QED
  BY <1>2, <1>3, <1>4 DEF RowsAreExact, rows

LEMMA ClosedPercentilesHonest ==
    ASSUME WindowInv, CloseWindow
    PROVE  PercentilesAreHonest'
<1> DEFINE rows == report'.rows
           listed == {i \in 1..Len(rows) : rows[i].host /= Other}
           Of(I) == Durations(lines, I)
<1>1. /\ report'.percentiles = Percentiles(histogram) /\ reported' = lines /\ lines \in Seq(Lines)
      /\ \A i \in listed : rows[i] = Row(Ranked[i]) /\ Ranked[i] \in Tracked
      /\ \A i \in 1..Len(rows) : rows[i].host = Other => rows[i].percentiles = NoPercentiles
  BY ClosedReport
<1> HIDE DEF rows
<1>2. ASSUME NEW h, NEW I \in SUBSET (1..Len(lines)), HistogramOf(h, Counted(Of(I))),
             NEW p \in Percents
      PROVE  Honest(Percentiles(h)[p], p, Of(I))
  <2>1. Durable(Counted(Of(I)))
    BY <1>1, CountedDurable
  <2> HIDE DEF Of
  <2>2. Honest(Quantile(h, p), p, Of(I))
    BY <1>2, <2>1, QuantileIsHonest
  <2>3. QED
    BY <2>2 DEF Percentiles
<1>3. ASSUME NEW p \in Percents
      PROVE  Honest(report'.percentiles[p], p, Of(1..Len(lines)))
  <2>1. HistogramOf(histogram, Counted(Of(1..Len(lines))))
    BY DEF WindowInv, WindowDurations
  <2> HIDE DEF Of
  <2>2. QED
    BY <1>1, <1>2, <2>1
<1>4. ASSUME NEW p \in Percents, NEW i \in 1..Len(rows)
      PROVE  Honest(rows[i].percentiles[p], p,
                    Of(IF rows[i].host = Other THEN {} ELSE Named(lines, rows[i].host)))
  <2>1. CASE rows[i].host = Other
    <3>1. DOMAIN Counted(Of({})) = {}
      BY DEF Counted, Durations
    <3>2. rows[i].percentiles[p] = NoFigure
      BY <1>1, <2>1 DEF NoPercentiles
    <3>3. Honest(NoFigure, p, Of({}))
      BY <3>1 DEF Honest
    <3> HIDE DEF Of
    <3>4. QED
      BY <2>1, <3>2, <3>3
  <2>2. CASE rows[i].host /= Other
    <3>1. rows[i] = Row(Ranked[i]) /\ Ranked[i] \in Tracked
      BY <1>1, <2>2
    <3>2. /\ rows[i].host = Ranked[i]
          /\ rows[i].percentiles = Percentiles(siteHistogram[Ranked[i]])
      BY <3>1 DEF Row
    <3>3. HistogramOf(siteHistogram[Ranked[i]], Counted(Of(Named(lines, Ranked[i]))))
      BY <3>1 DEF WindowInv, WindowDurations
    <3>4. Named(lines, Ranked[i]) \in SUBSET (1..Len(lines))
      BY OfTheWindow
    <3> HIDE DEF Of
    <3>5. QED
      BY <1>2, <2>2, <3>2, <3>3, <3>4
  <2>3. QED
    BY <2>1, <2>2
<1>5. QED
  BY <1>1, <1>3, <1>4 DEF PercentilesAreHonest, rows

LEMMA ClosedBusiestFirst ==
    ASSUME WindowInv, CloseWindow
    PROVE  BusiestFirst'
<1> DEFINE rows == report'.rows
           r == Reported
           listed == {i \in 1..Len(rows) : rows[i].host /= Other}
           Requests(i) == rows[i].count.requests
<1>0. WindowNames /\ lines \in Seq(Lines)
  BY DEF WindowInv
<1>1. /\ reported' = lines /\ listed = 1..r /\ r \in Nat
      /\ \A i \in listed : rows[i] = Row(Ranked[i]) /\ Ranked[i] \in Tracked
      /\ \A i \in 1..Len(rows) : rows[i].host = Other => i = r + 1
      /\ RowHosts' = IF CutOff = <<>> THEN Listed ELSE Listed \cup {Other}
  BY ClosedReport
<1>2. /\ r <= Len(Ranked) /\ r <= MaxReported /\ Len(Ranked) \in Nat
      /\ \A h \in Tracked \ Listed : \E i \in (r + 1)..Len(Ranked) : Ranked[i] = h
  BY ReportedSites, RankedSites
<1>3. /\ \A i, j \in 1..Len(Ranked) : i < j => Busier(Ranked[i], Ranked[j])
      /\ \A i, j \in 1..Len(Ranked) : Ranked[i] = Ranked[j] => i = j
  BY RankedSites
<1>4. \A h \in Tracked : /\ sites[h].requests = Cardinality(Named(lines, h))
                         /\ sites[h].requests \in Nat
  <2>1. \A h \in Tracked : sites[h] = Tally(lines, SiteLines(h)) /\ sites[h] \in Counts
    BY WindowsCount DEF Tracked
  <2>2. \A h \in Tracked : SiteLines(h) = Named(lines, h)
    BY DEF SiteLines, Tracked
  <2>3. \A I : Tally(lines, I).requests = Cardinality(I)
    BY DEF Tally
  <2>4. \A c \in Counts : c.requests \in Nat
    BY DEF Counts
  <2>5. QED
    BY <2>1, <2>2, <2>3, <2>4
<1> HIDE DEF rows, r
<1>5. \A i \in 1..r : /\ i \in 1..Len(Ranked) /\ rows[i].host = Ranked[i] /\ Ranked[i] \in Tracked
                      /\ Requests(i) = sites[Ranked[i]].requests
  <2>1. \A h : Row(h).host = h /\ Row(h).count = sites[h]
    BY DEF Row
  <2>2. QED
    BY <1>1, <1>2, <2>1
<1>6. \A i, j \in 1..Len(Ranked) :
        i < j => /\ Ranked[i] \in Tracked /\ Ranked[j] \in Tracked
                 /\ sites[Ranked[i]].requests >= sites[Ranked[j]].requests
  <2>1. \A i \in 1..Len(Ranked) : Ranked[i] \in Tracked
    BY RankedSites
  <2>2. QED
    BY <1>3, <1>4, <2>1 DEF Busier
<1>7. ASSUME NEW i \in 1..Len(rows), NEW j \in 1..Len(rows), rows[i].host = rows[j].host
      PROVE  i = j
  <2>1. CASE rows[i].host = Other
    BY <1>1, <1>7, <2>1
  <2>2. CASE rows[i].host /= Other
    <3>1. i \in 1..r /\ j \in 1..r
      BY <1>1, <1>7, <2>2
    <3>2. QED
      BY <1>3, <1>5, <1>7, <3>1
  <2>3. QED
    BY <2>1, <2>2
<1>8. Cardinality(listed) <= MaxReported
  <2>1. Cardinality(1..r) = r
    BY <1>1, FS_Interval
  <2>2. QED
    BY <1>1, <1>2, <2>1
<1>9. Cardinality(DOMAIN sites' \ {Other}) <= MaxTracked
  <2>1. DOMAIN sites' \ {Other} = {}
    BY DEF CloseWindow
  <2>2. QED
    BY <2>1, FS_EmptySet, HostsAre
<1>10. ASSUME NEW i \in 1..r, NEW j \in 1..r, j < i PROVE Requests(j) >= Requests(i)
  BY <1>5, <1>6, <1>10
<1>11. ASSUME NEW i \in 1..r, NEW h \in Hosts \ RowHosts',
              Cardinality(Named(lines, h)) > Requests(i)
       PROVE  Cardinality(NamesBefore(lines, h)) >= MaxTracked
  <2>1. h \notin Listed
    BY <1>1
  <2>2. h \notin Tracked
    <3>1. SUFFICES ASSUME h \in Tracked PROVE FALSE
      OBVIOUS
    <3>2. PICK k \in (r + 1)..Len(Ranked) : Ranked[k] = h
      BY <1>2, <2>1, <3>1 DEF r
    <3>3. i < k /\ k \in 1..Len(Ranked) /\ i \in 1..Len(Ranked)
      BY <1>1, <1>2, <3>2
    <3>4. Requests(i) >= sites[h].requests /\ Requests(i) \in Nat /\ sites[h].requests \in Nat
      BY <1>4, <1>5, <1>6, <3>1, <3>2, <3>3
    <3>5. Cardinality(Named(lines, h)) = sites[h].requests
      BY <1>4, <3>1
    <3>6. QED
      BY <1>11, <3>4, <3>5
  <2>3. Named(lines, h) /= {}
    <3>1. Requests(i) \in Nat
      BY <1>4, <1>5
    <3>2. Cardinality(Named(lines, h)) /= 0
      BY <1>11, <3>1
    <3>3. QED
      BY <3>2, FS_EmptySet
  <2>4. Other \in DOMAIN sites /\ Tracked \in SUBSET NamesBefore(lines, h)
    BY <1>0, <2>2, <2>3 DEF WindowNames
  <2>5. Cardinality(Tracked) = MaxTracked
    BY <1>0, <2>4 DEF WindowNames
  <2>6. IsFiniteSet(NamesBefore(lines, h))
    <3>1. NamesBefore(lines, h) \in SUBSET Hosts
      <4>1. \A k \in 1..Len(lines) : lines[k].host \in Hosts \cup {Nameless}
        BY <1>0, LinesHave
      <4>2. QED
        BY <4>1 DEF NamesBefore
    <3>2. QED
      BY <3>1, HostsAre, FS_Subset
  <2>7. Cardinality(Tracked) <= Cardinality(NamesBefore(lines, h))
    BY <2>4, <2>6, FS_Subset
  <2>8. Cardinality(NamesBefore(lines, h)) \in Nat
    BY <2>6, FS_CardinalityType
  <2>9. QED
    BY <2>5, <2>7, <2>8, HostsAre
<1>12. QED
  BY <1>1, <1>7, <1>8, <1>9, <1>10, <1>11 DEF BusiestFirst, rows

----------------------------------------------------------------------------
(* Every other step keeps the report as it is or takes it away. *)

LEMMA ReportStep ==
    ASSUME [Next]_vars
    PROVE  \/ CloseWindow
           \/ UNCHANGED <<report, reported>>
           \/ report' = Blank /\ reported' = <<>>
<1>1. CASE \/ \E to \in Candidates \cup {Nothing} : Switch(to)
           \/ ReadingFails \/ \E line \in Lines : ParseLine(line)
           \/ \E opened, skips \in BOOLEAN : ReadLog(opened, skips)
           \/ UNCHANGED vars
  BY <1>1 DEF Switch, ReadingFails, ParseLine, ReadLog, vars, historyVars
<1>2. CASE SampleWithoutLog \/ TooSoon \/ ApplySetting \/ ApplySettingFails \/ Restart
  BY <1>2 DEF SampleWithoutLog, TooSoon, ApplySetting, ApplySettingFails, Restart, TickEnds
<1>3. QED
  BY <1>1, <1>2 DEF Next, TickStep

ReportInv == WindowInv /\ RowsAreExact /\ PercentilesAreHonest /\ BusiestFirst

NoReport == report = Blank /\ reported = <<>> /\ WindowInv

LEMMA BlankReport == NoReport => ReportInv
<1> SUFFICES ASSUME report = Blank, reported = <<>>, WindowInv PROVE ReportInv
  BY DEF NoReport
<1>1. report.shown = FALSE /\ report.rows = <<>>
  BY DEF Blank
<1>2. 1..Len(report.rows) = {}
  BY <1>1
<1>3. RowsAreExact /\ PercentilesAreHonest
  BY <1>1 DEF RowsAreExact, PercentilesAreHonest
<1>4. Cardinality(DOMAIN sites \ {Other}) <= MaxTracked
  BY DEF WindowInv, WindowNames, Tracked
<1>5. {i \in 1..Len(report.rows) : report.rows[i].host /= Other} = {}
  BY <1>2
<1>6. Cardinality({}) <= MaxReported
  BY FS_EmptySet, HostsAre
<1>7. BusiestFirst
  BY <1>2, <1>4, <1>5, <1>6 DEF BusiestFirst
<1>8. QED
  BY <1>3, <1>7 DEF ReportInv

LEMMA InitReport == Init => ReportInv
<1>1. Init => report = Blank /\ reported = <<>>
  BY DEF Init
<1>2. QED
  BY <1>1, InitWindow, BlankReport DEF NoReport

LEMMA NextReport ==
    ASSUME ReportInv, [Next]_vars
    PROVE  ReportInv'
<1>0. WindowInv /\ WindowInv'
  BY NextWindow DEF ReportInv
<1>1. CASE CloseWindow
  BY <1>0, <1>1, ClosedRowsExact, ClosedPercentilesHonest, ClosedBusiestFirst DEF ReportInv
<1>2. CASE report' = Blank /\ reported' = <<>>
  <2>1. NoReport' => ReportInv'
    BY BlankReport, PTL
  <2>2. NoReport'
    BY <1>0, <1>2 DEF NoReport
  <2>3. QED
    BY <2>1, <2>2
<1>3. CASE UNCHANGED <<report, reported>>
  <2>1. /\ report' = report /\ reported' = reported /\ RowHosts' = RowHosts
        /\ Unlisted' = Unlisted
    BY <1>3 DEF RowHosts, Unlisted
  <2>2. RowsAreExact'
    BY <2>1 DEF ReportInv, RowsAreExact
  <2>3. PercentilesAreHonest'
    BY <2>1 DEF ReportInv, PercentilesAreHonest
  <2>4. Cardinality(DOMAIN sites' \ {Other}) <= MaxTracked
    BY <1>0 DEF WindowInv, WindowNames, Tracked
  <2>5. BusiestFirst'
    BY <2>1, <2>4 DEF ReportInv, BusiestFirst
  <2>6. QED
    BY <1>0, <2>2, <2>3, <2>5 DEF ReportInv
<1>4. QED
  BY <1>1, <1>2, <1>3, ReportStep

LEMMA AlwaysReportInv == Spec => []ReportInv
  BY InitReport, NextReport, PTL DEF Spec

\* The total and every row of a report are the tallies of its lines, those of
\* "(other)" the lines of all the names that have no row, for any lines of any
\* hosts and any two caps: no line is lost or counted twice, whether it overflows
\* when it is read (collector.go:115-133) or when the report is cut
\* (collector.go:261-278).
THEOREM NoTrafficIsLost == Spec => []RowsAreExact
<1>1. ReportInv => RowsAreExact
  BY DEF ReportInv
<1>2. QED
  BY <1>1, AlwaysReportInv, PTL

\* For any number of names a report has at most MaxReported sites, each once and
\* busiest first, and a site is left out for a quieter one only when as many names
\* as are tracked came before its first line (collector.go:55-67, 115-133, 254-278).
THEOREM TheBusiestAreReported == Spec => []BusiestFirst
<1>1. ReportInv => BusiestFirst
  BY DEF ReportInv
<1>2. QED
  BY <1>1, AlwaysReportInv, PTL

\* For any rising bounds and any durations, each percentile of a report is in the
\* bucket of the true percentile of its own lines and within what was seen, and is
\* missing when nothing was counted (histogram.go:34-112, collector.go:173-207).
THEOREM PercentilesInTheirBucket == Spec => []PercentilesAreHonest
<1>1. ReportInv => PercentilesAreHonest
  BY DEF ReportInv
<1>2. QED
  BY <1>1, AlwaysReportInv, PTL

----------------------------------------------------------------------------
(* Types *)

Shown == ReportInv /\ report.shown /\ reported \in Seq(Lines)

ReportCounts ==
    /\ report.total \in Counts
    /\ \A i \in 1..Len(report.rows) : report.rows[i].count \in Counts

LEMMA ShownCounts == Shown => ReportCounts
<1> SUFFICES ASSUME ReportInv, report.shown, reported \in Seq(Lines)
             PROVE  ReportCounts
  BY DEF Shown
<1>1. IsFiniteSet(1..Len(reported))
  BY LinesHave, FS_Interval
<1>2. \A I \in SUBSET (1..Len(reported)) : Tally(reported, I) \in Counts
  BY <1>1, FS_Subset, TallyType
<1>3. Unlisted \in SUBSET (1..Len(reported)) /\ \A h : Named(reported, h) \in SUBSET (1..Len(reported))
  BY OfTheWindow DEF Unlisted
<1>4. report.total \in Counts
  BY <1>2 DEF ReportInv, RowsAreExact
<1>5. ASSUME NEW i \in 1..Len(report.rows) PROVE report.rows[i].count \in Counts
  <2>1. report.rows[i].count = Tally(reported, IF report.rows[i].host = Other THEN Unlisted
                                               ELSE Named(reported, report.rows[i].host))
    BY DEF ReportInv, RowsAreExact
  <2>2. QED
    BY <1>2, <1>3, <2>1
<1>6. QED
  BY <1>4, <1>5 DEF ReportCounts

LEMMA InitType == Init => TypeOK
<1> SUFFICES ASSUME Init PROVE TypeOK
  OBVIOUS
<1>1. Zero \in Counts
  BY DEF Zero, Counts
<1>2. DOMAIN sites = {} /\ DOMAIN siteHistogram = {} /\ Len(lines) = 0 /\ Len(reported) = 0
  BY DEF Init
<1>3. report.shown \in BOOLEAN /\ report.total = Zero /\ 1..Len(report.rows) = {}
  BY DEF Init, Blank
<1>4. setting \in Candidates \cup {Nothing, Unknown} /\ env \in BOOLEAN
  BY DEF Init
<1>5. source \in Candidates \cup {Nothing, Env}
  BY DEF Init, Enabled
<1>6. MaxLines \in Nat /\ MaxSwitches \in Nat /\ MaxFaults \in Nat
  BY RequestMetricsAssumption
<1>7. open \in BOOLEAN /\ skipped \in BOOLEAN /\ warned \in BOOLEAN
  BY DEF Init
<1>8. pc \in {"idle", "parse", "apply"} /\ total \in Counts
  BY <1>1 DEF Init
<1>9. unasked \in Nat /\ switches \in 0..MaxSwitches /\ faults \in 0..MaxFaults
  BY <1>6 DEF Init
<1>10. /\ DOMAIN sites \subseteq Hosts \cup {Other} /\ \A h \in DOMAIN sites : sites[h] \in Counts
       /\ DOMAIN siteHistogram = DOMAIN sites
  BY <1>2
<1>11. /\ report.shown \in BOOLEAN /\ report.total \in Counts
       /\ \A i \in 1..Len(report.rows) : report.rows[i].count \in Counts
  BY <1>1, <1>3
<1>12. Len(lines) <= MaxLines /\ Len(reported) <= MaxLines
  BY <1>2, <1>6
<1>13. QED
  BY <1>4, <1>5, <1>7, <1>8, <1>9, <1>10, <1>11, <1>12 DEF TypeOK

\* The counters of the window and of the report, and how many lines they are about.
WindowType ==
    /\ DOMAIN sites \subseteq Hosts \cup {Other} /\ \A h \in DOMAIN sites : sites[h] \in Counts
    /\ DOMAIN siteHistogram = DOMAIN sites /\ total \in Counts

ReportTypes == report.shown \in BOOLEAN /\ ReportCounts /\ Len(reported) <= MaxLines

\* Where the tick is, what is being read and the setting.
ControlType ==
    /\ setting \in Candidates \cup {Nothing, Unknown}
    /\ env \in BOOLEAN
    /\ pc \in {"idle", "parse", "apply"}
    /\ source \in Candidates \cup {Nothing, Env}
    /\ open \in BOOLEAN /\ skipped \in BOOLEAN /\ warned \in BOOLEAN

BoundType ==
    /\ Len(lines) <= MaxLines
    /\ unasked \in Nat /\ switches \in 0..MaxSwitches /\ faults \in 0..MaxFaults

LEMMA TypeParts == TypeOK <=> WindowType /\ ReportTypes /\ ControlType /\ BoundType
  BY DEF TypeOK, WindowType, ReportTypes, ReportCounts, ControlType, BoundType

LEMMA WindowTyped == WindowInv => WindowType
<1> SUFFICES ASSUME WindowInv PROVE WindowType
  OBVIOUS
<1>1. \A h \in DOMAIN sites : sites[h] \in Counts
  BY WindowsCount
<1>2. DOMAIN sites \subseteq Hosts \cup {Other} /\ DOMAIN siteHistogram = DOMAIN sites
  BY DEF WindowInv, WindowNames, WindowDurations
<1>3. total \in Counts
  <2>1. IsFiniteSet(1..Len(lines)) /\ total = Tally(lines, 1..Len(lines))
    BY LinesHave, FS_Interval DEF WindowInv, WindowCounts
  <2>2. QED
    BY <2>1, TallyType
<1>4. QED
  BY <1>1, <1>2, <1>3 DEF WindowType

LEMMA NextReportType ==
    ASSUME ReportTypes, BoundType, ReportInv, [Next]_vars
    PROVE  ReportTypes'
<1>1. CASE CloseWindow
  <2>1. /\ report'.shown = TRUE /\ reported' = lines /\ lines \in Seq(Lines)
    BY <1>1, ClosedReport DEF ReportInv
  <2>2. ReportInv'
    BY NextReport
  <2>3. Shown' => ReportCounts'
    BY ShownCounts, PTL
  <2>4. Shown'
    BY <2>1, <2>2 DEF Shown
  <2>5. report'.shown \in BOOLEAN /\ Len(reported') <= MaxLines
    BY <2>1 DEF BoundType
  <2>6. QED
    BY <2>3, <2>4, <2>5 DEF ReportTypes
<1>2. CASE report' = Blank /\ reported' = <<>>
  <2>1. Zero \in Counts /\ MaxLines \in Nat
    BY RequestMetricsAssumption DEF Zero, Counts
  <2>2. report'.total = Zero /\ 1..Len(report'.rows) = {}
    BY <1>2 DEF Blank
  <2>3. report'.shown \in BOOLEAN
    BY <1>2 DEF Blank
  <2>4. Len(reported') <= MaxLines
    BY <1>2, <2>1
  <2>5. ReportCounts'
    BY <2>1, <2>2 DEF ReportCounts
  <2>6. QED
    BY <2>3, <2>4, <2>5 DEF ReportTypes
<1>3. CASE UNCHANGED <<report, reported>>
  BY <1>3 DEF ReportTypes, ReportCounts
<1>4. QED
  BY <1>1, <1>2, <1>3, ReportStep

LEMMA NextControlType ==
    ASSUME ControlType, [Next]_vars
    PROVE  ControlType'
<1>0. Enabled \in Candidates \cup {Nothing}
  BY DEF ControlType, Enabled
<1>1. ASSUME NEW enabled \in Candidates \cup {Nothing}, Adopt(enabled)
      PROVE  /\ source' \in Candidates \cup {Nothing, Env}
             /\ open' \in BOOLEAN /\ skipped' \in BOOLEAN /\ warned' \in BOOLEAN
  <2>1. CASE env \/ enabled = source
    BY <1>1, <2>1 DEF Adopt, collectorVars, ControlType
  <2>2. CASE ~(env \/ enabled = source)
    BY <1>1, <2>2 DEF Adopt, NewCollector
  <2>3. QED
    BY <2>1, <2>2
<1>2. ASSUME Health PROVE warned' \in BOOLEAN /\ skipped' \in BOOLEAN
  BY <1>2 DEF Health
<1>3. CASE \E to \in Candidates \cup {Nothing} : Switch(to)
  BY <1>3 DEF ControlType, Switch, collectorVars
<1>4. CASE SampleWithoutLog
  BY <1>4 DEF ControlType, SampleWithoutLog, collectorVars
<1>5. CASE \E opened, skips \in BOOLEAN : ReadLog(opened, skips)
  <2>1. PICK opened \in BOOLEAN, skips \in BOOLEAN : ReadLog(opened, skips)
    BY <1>5
  <2>2. open' \in BOOLEAN /\ skipped' \in BOOLEAN
    BY <2>1 DEF ReadLog
  <2>3. UNCHANGED <<setting, env, source, warned>> /\ pc' = "parse"
    BY <2>1 DEF ReadLog
  <2>4. QED
    BY <2>2, <2>3 DEF ControlType
<1>6. CASE CloseWindow
  <2>1. UNCHANGED <<setting, env, source, open>> /\ pc' = "apply" /\ Health
    BY <1>6 DEF CloseWindow
  <2>2. QED
    BY <1>2, <2>1 DEF ControlType
<1>7. CASE TooSoon
  <2>1. UNCHANGED <<setting, env, source, open>> /\ pc' = "apply" /\ Health
    BY <1>7 DEF TooSoon
  <2>2. QED
    BY <1>2, <2>1 DEF ControlType
<1>8. CASE ApplySetting \/ ApplySettingFails
  <2>1. /\ \E enabled \in Candidates \cup {Nothing} : Adopt(enabled)
        /\ UNCHANGED <<setting, env>> /\ pc' = "idle"
    BY <1>0, <1>8 DEF ApplySetting, ApplySettingFails, TickEnds
  <2>2. QED
    BY <1>1, <2>1 DEF ControlType
<1>9. CASE Restart
  <2>1. UNCHANGED <<setting, env>> /\ pc' = "idle"
    BY <1>9 DEF Restart, TickEnds
  <2>2. source' \in Candidates \cup {Nothing, Env}
    BY <1>0, <1>9 DEF Restart
  <2>3. open' \in BOOLEAN /\ skipped' \in BOOLEAN /\ warned' \in BOOLEAN
    BY <1>9 DEF Restart, NewCollector
  <2>4. QED
    BY <2>1, <2>2, <2>3 DEF ControlType
<1>10. CASE \E line \in Lines : ParseLine(line)
  BY <1>10 DEF ControlType, ParseLine
<1>11. CASE ReadingFails \/ UNCHANGED vars
  BY <1>11 DEF ControlType, ReadingFails, vars, collectorVars
<1>12. QED
  BY <1>3, <1>4, <1>5, <1>6, <1>7, <1>8, <1>9, <1>10, <1>11 DEF Next, TickStep

LEMMA NextBoundType ==
    ASSUME BoundType, WindowInv, [Next]_vars
    PROVE  BoundType'
<1>0. MaxLines \in Nat /\ MaxSwitches \in Nat /\ MaxFaults \in Nat /\ Len(lines) \in Nat
  BY RequestMetricsAssumption, LinesHave DEF WindowInv
<1>1. ASSUME Fault PROVE faults' \in 0..MaxFaults
  BY <1>0, <1>1 DEF Fault, BoundType
<1>2. ASSUME NewCollector PROVE Len(lines') <= MaxLines
  BY <1>0, <1>2 DEF NewCollector
<1>3. ASSUME NEW enabled, Adopt(enabled) PROVE Len(lines') <= MaxLines /\ unasked' \in Nat
  <2>1. CASE env \/ enabled = source
    BY <1>3, <2>1 DEF Adopt, BoundType
  <2>2. CASE ~(env \/ enabled = source)
    BY <1>2, <1>3, <2>2 DEF Adopt
  <2>3. QED
    BY <2>1, <2>2
<1>4. CASE \E to \in Candidates \cup {Nothing} : Switch(to)
  BY <1>0, <1>4 DEF BoundType, Switch
<1>5. CASE \/ SampleWithoutLog \/ TooSoon \/ UNCHANGED vars
           \/ \E opened, skips \in BOOLEAN : ReadLog(opened, skips)
  BY <1>5 DEF BoundType, SampleWithoutLog, TooSoon, ReadLog, vars, historyVars
<1>6. CASE CloseWindow
  <2>1. lines' = <<>> /\ unasked' \in Nat /\ UNCHANGED <<switches, faults>>
    BY <1>6 DEF CloseWindow, BoundType
  <2>2. QED
    BY <1>0, <2>1 DEF BoundType
<1>7. CASE ApplySetting
  BY <1>3, <1>7 DEF ApplySetting, BoundType
<1>8. CASE ApplySettingFails
  BY <1>1, <1>3, <1>8 DEF ApplySettingFails, BoundType
<1>9. CASE Restart
  BY <1>1, <1>2, <1>9 DEF Restart, BoundType
<1>10. ASSUME NEW line \in Lines, ParseLine(line) PROVE BoundType'
  <2>1. Len(lines) < MaxLines /\ UNCHANGED <<unasked, switches, faults>>
    BY <1>10 DEF ParseLine
  <2>2. Len(lines') = Len(lines) + 1
    BY <1>10, LinesJoin
  <2>3. Len(lines') <= MaxLines
    BY <1>0, <2>1, <2>2
  <2>4. QED
    BY <2>1, <2>3 DEF BoundType
<1>11. CASE ReadingFails
  BY <1>1, <1>11 DEF BoundType, ReadingFails
<1>12. QED
  BY <1>4, <1>5, <1>6, <1>7, <1>8, <1>9, <1>10, <1>11 DEF Next, TickStep

LEMMA NextType ==
    ASSUME TypeOK, ReportInv, [Next]_vars
    PROVE  TypeOK'
<1>1. WindowType /\ ReportTypes /\ ControlType /\ BoundType /\ WindowInv
  BY TypeParts DEF ReportInv
<1>2. WindowInv' => WindowType'
  BY WindowTyped, PTL
<1>3. WindowType'
  BY <1>1, <1>2, NextWindow
<1>4. ReportTypes' /\ ControlType' /\ BoundType'
  BY <1>1, NextReportType, NextControlType, NextBoundType
<1>5. (WindowType /\ ReportTypes /\ ControlType /\ BoundType)' => TypeOK'
  BY TypeParts, PTL
<1>6. QED
  BY <1>3, <1>4, <1>5

\* The state is what its declarations say: counters of tracked hosts and of the
\* shared window only, and no source but a log of the table, the one of the
\* environment or none, also when the settings file names one this build does not
\* have (state.go:49-61).
THEOREM TypesHold == Spec => []TypeOK
<1>1. TypeOK /\ ReportInv /\ [Next]_vars => TypeOK'
  BY NextType
<1>2. QED
  BY <1>1, InitType, AlwaysReportInv, PTL DEF Spec

=============================================================================
