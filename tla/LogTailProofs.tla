---------------------------- MODULE LogTailProofs ----------------------------
(***************************************************************************)
(* Theorems about the tailer, for every number of files, lines, faults and *)
(* truncations and for every size of a read.                               *)
(***************************************************************************)
EXTENDS LogTail, TLAPS, NaturalsInduction, WellFoundedInduction, SequenceTheorems,
        FiniteSetTheorems

----------------------------------------------------------------------------
(***************************************************************************)
(* The log on disk.  The proxy numbers the halves as it writes them and    *)
(* never goes back to an older file, so that halves only grow, along a     *)
(* file and from one file to a younger one, also when a file is emptied.   *)
(***************************************************************************)
Rising(s) == \A k, l \in 1..Len(s) : k < l => s[k] < s[l]

DiskOK ==
    /\ path \in {None, created} /\ writer <= created /\ created \in Inodes \cup {None}
    /\ \A i \in Inodes :
         /\ i > writer => content[i] = <<>>
         /\ Rising(content[i])
         /\ \A k \in 1..Len(content[i]) :
              /\ content[i][k] <= written
              /\ \A j \in Inodes : i < j =>
                   \A l \in 1..Len(content[j]) : content[i][k] < content[j][l]

\* The handle is that of the file followed, unless the path was swapped.
Following ==
    /\ tpc \in {"size", "read"} => handle /= None
    /\ tpc = "open" => info /= None
    /\ ~everOpened =>
         /\ handle = None /\ identity = None /\ tpc \notin {"size", "read"}
         /\ offset = 0 /\ begun = 0 /\ partial = <<>> /\ counted = <<>>
    /\ everOpened => identity /= None
    /\ identity <= created /\ info <= created
    /\ ~swapped => (tpc = "open" => path = info) /\ handle \in {None, identity}

\* All that was read lies below a half.
ReadBelow(h) ==
    /\ \A i \in 1..Len(counted) : 2 * counted[i] < h
    /\ \A i \in 1..Len(partial) : partial[i] < h

\* Everything still to be read, in the file followed, in a younger one or not even
\* written, lies above everything read.
Ordered ==
    /\ Rising(counted) /\ Rising(partial)
    /\ \A i \in 1..Len(counted) : \A j \in 1..Len(partial) : 2 * counted[i] < partial[j]
    /\ ReadBelow(written + 1)
    /\ \A f \in Inodes : \A k \in 1..Len(content[f]) :
         /\ f = identity /\ k > offset => ReadBelow(content[f][k])
         /\ f > identity => ReadBelow(content[f][k])
         /\ f = identity /\ Len(content[f]) < offset =>
              \A i \in 1..Len(counted) : 2 * counted[i] < content[f][k]

OrderInv == DiskOK /\ Following /\ (~swapped => Ordered)

(***************************************************************************)
(* As long as no file was emptied, a file holds its lines without a gap,   *)
(* and what the tailer holds back is the end of what it has read.          *)
(***************************************************************************)
WithoutGaps ==
    /\ \A i \in Inodes : \A k \in 1..Len(content[i]) :
         /\ k = 1 => ~IsNewline(content[i][k])
         /\ k > 1 => content[i][k] = content[i][k - 1] + 1
    /\ writer /= None =>
         IF content[writer] = <<>> THEN IsNewline(written)
         ELSE content[writer][Len(content[writer])] = written

Start == offset - Len(partial)

\* Line i of the file, if it is one, was counted or skipped over.
Accounted(f, i) ==
    (IsNewline(f[i]) /\ f[i - 1] = f[i] - 1) =>
      Contains(counted, f[i] \div 2) \/ {f[i - 1], f[i]} \cap passed /= {}

HeldBack ==
    identity /= None =>
      LET file == content[identity] IN
      /\ begun <= Start /\ offset <= Len(file)
      /\ \A k \in 1..Len(partial) : partial[k] = file[Start + k]
      /\ Start = begun \/ IsNewline(file[Start]) \/ file[Start] \in passed
      /\ \A i \in (begun + 2)..offset : Accounted(file, i)

LineInv == truncations = 0 => WithoutGaps /\ (~swapped => HeldBack)
----------------------------------------------------------------------------
(* The tailer's operators. *)

\* Induction in the form the provers can use: over a set.
LEMMA FromZeroUp ==
    ASSUME NEW S, 0 \in S, \A n \in Nat : n \in S => n + 1 \in S
    PROVE  \A n \in Nat : n \in S
<1> DEFINE R == {ss \in Nat \X Nat : ss[1] < ss[2]}
           T == {n \in Nat : n \notin S}
<1> SUFFICES ASSUME T /= {} PROVE FALSE
  OBVIOUS
<1>1. IsWellFoundedOn(R, Nat)
  BY NatLessThanWellFounded DEF OpToRel
<1>2. PICK x \in T : \A y \in T : ~ (<<y, x>> \in R)
  <2>1. T \subseteq Nat
    OBVIOUS
  <2> HIDE DEF R, T
  <2> QED
    BY <1>1, <2>1, WFMin
<1>3. x \in Nat /\ x /= 0
  BY <1>2
<1>4. x - 1 \in Nat /\ <<x - 1, x>> \in R
  BY <1>3
<1>5. x - 1 \in S
  BY <1>2, <1>4
<1>6. (x - 1) + 1 \in S
  BY <1>4, <1>5
<1>7. (x - 1) + 1 = x
  BY <1>3
<1>8. QED
  BY <1>2, <1>6, <1>7

\* Some numbers, none of which is above n, have a largest.
LEMMA LargestOfSome ==
    ASSUME NEW n \in Nat, NEW S \in SUBSET (0..n), S /= {}
    PROVE  Max(S) \in S /\ \A y \in S : y <= Max(S)
<1> DEFINE U == {k \in Nat : \A T \in SUBSET (0..k) :
                               T /= {} => \E x \in T : \A y \in T : x >= y}
<1>1. 0 \in U
  <2>1. ASSUME NEW T \in SUBSET (0..0), T /= {} PROVE \E x \in T : \A y \in T : x >= y
    <3>1. \A x \in T : x = 0
      OBVIOUS
    <3>2. 0 \in T
      BY <2>1, <3>1
    <3>3. QED
      BY <3>1, <3>2
  <2>2. QED
    BY <2>1
<1>2. ASSUME NEW k \in Nat, k \in U PROVE k + 1 \in U
  <2>1. ASSUME NEW T \in SUBSET (0..(k + 1)), T /= {} PROVE \E x \in T : \A y \in T : x >= y
    <3>1. CASE k + 1 \in T
      BY <3>1
    <3>2. CASE k + 1 \notin T
      <4>1. T \in SUBSET (0..k)
        BY <3>2
      <4>2. QED
        BY <1>2, <2>1, <4>1
    <3>3. QED
      BY <3>1, <3>2
  <2>2. QED
    BY <2>1
<1>3. n \in U
  <2> HIDE DEF U
  <2> QED
    BY <1>1, <1>2, FromZeroUp
<1>4. \E x \in S : \A y \in S : x >= y
  BY <1>3
<1>5. Max(S) \in S /\ \A y \in S : Max(S) >= y
  BY <1>4 DEF Max
<1>6. QED
  BY <1>5

LEMMA SmallerOfTwo ==
    ASSUME NEW a \in Nat, NEW b \in Nat
    PROVE  Min({a, b}) = IF a <= b THEN a ELSE b
<1> DEFINE m == IF a <= b THEN a ELSE b
<1>1. m \in {a, b} /\ \A y \in {a, b} : m <= y
  OBVIOUS
<1>2. \A z \in {a, b} : (\A y \in {a, b} : z <= y) => z = m
  BY <1>1
<1>3. QED
  BY <1>1, <1>2 DEF Min

LEMMA NewlineHalf ==
    ASSUME NEW h \in Nat, IsNewline(h)
    PROVE  h \div 2 \in Nat /\ h = 2 * (h \div 2) /\ ~IsNewline(h - 1) /\ IsNewline(h - 2)
  BY DEF IsNewline

LEMMA NextHalf ==
    ASSUME NEW h \in Nat
    PROVE  IsNewline(h + 1) <=> ~IsNewline(h)
  BY DEF IsNewline

NoNewlines == {h \in Halves : ~IsNewline(h)}

\* What is held back follows the last newline, if there is one.
LEMMA HeldOf ==
    ASSUME NEW b \in Seq(Halves)
    PROVE  \E m \in 0..Len(b) :
             /\ m /= 0 => IsNewline(b[m])
             /\ Held(b) \in Seq(NoNewlines) /\ Len(Held(b)) = Len(b) - m
             /\ \A k \in 1..(Len(b) - m) : Held(b)[k] = b[m + k]
             /\ (\A k \in 1..Len(b) : ~IsNewline(b[k])) => m = 0
             /\ \A k \in 1..Len(b) : IsNewline(b[k]) => k <= m
<1> DEFINE S == Newlines(b) \cup {0}
           m == Max(S)
<1>1. Len(b) \in Nat /\ \A k \in 1..Len(b) : b[k] \in Halves
  OBVIOUS
<1>2. S \in SUBSET (0..Len(b)) /\ S /= {}
  BY <1>1 DEF Newlines
<1>3. m \in S /\ \A y \in S : y <= m
  <2> HIDE DEF S
  <2> QED
    BY <1>1, <1>2, LargestOfSome
<1>4. Held(b) = SubSeq(b, m + 1, Len(b))
  BY DEF Held
<1> HIDE DEF m
<1>5. m \in 0..Len(b) /\ (m /= 0 => IsNewline(b[m]))
  BY <1>1, <1>3 DEF Newlines
<1>6. \A k \in 1..Len(b) : IsNewline(b[k]) => k <= m
  BY <1>1, <1>3 DEF Newlines
<1>7. /\ Len(Held(b)) = Len(b) - m /\ Held(b) \in Seq(Halves)
      /\ \A k \in 1..(Len(b) - m) : Held(b)[k] = b[m + k]
  <2>1. \A k \in (m + 1)..Len(b) : b[k] \in Halves
    BY <1>1, <1>5
  <2>2. QED
    BY <1>1, <1>4, <1>5, <2>1
<1>8. Held(b) \in Seq(NoNewlines)
  <2>1. ASSUME NEW k \in 1..Len(Held(b)) PROVE Held(b)[k] \in NoNewlines
    <3>1. k \in 1..(Len(b) - m) /\ m + k \in 1..Len(b) /\ ~(m + k <= m)
      BY <1>1, <1>5, <1>7
    <3>2. Held(b)[k] = b[m + k] /\ ~IsNewline(b[m + k])
      BY <1>6, <1>7, <3>1
    <3>3. QED
      BY <1>1, <3>1, <3>2 DEF NoNewlines
  <2>2. QED
    BY <1>7, <2>1
<1>9. (\A k \in 1..Len(b) : ~IsNewline(b[k])) => m = 0
  BY <1>1, <1>5
<1>10. QED
  BY <1>5, <1>6, <1>7, <1>8, <1>9

\* The lines of the first i halves of a buffer, as LinesOf collects them.
IsUpto(f, b) ==
    f = [i \in 0..Len(b) |-> IF i = 0 THEN <<>>
                             ELSE IF i \in WholeLines(b) THEN Append(f[i - 1], b[i] \div 2)
                             ELSE f[i - 1]]

LEMMA UptoExists ==
    ASSUME NEW b \in Seq(Halves)
    PROVE  \E f : IsUpto(f, b)
<1> DEFINE Is(f, n) == f = [i \in 0..n |-> IF i = 0 THEN <<>>
                               ELSE IF i \in WholeLines(b) THEN Append(f[i - 1], b[i] \div 2)
                               ELSE f[i - 1]]
           S == {n \in Nat : \E f : Is(f, n)}
<1>1. 0 \in S
  <2>1. Is([i \in 0..0 |-> <<>>], 0)
    OBVIOUS
  <2>2. QED
    BY <2>1
<1>2. ASSUME NEW n \in Nat, n \in S PROVE n + 1 \in S
  <2>1. PICK f : Is(f, n)
    BY <1>2
  <2> DEFINE last == IF n + 1 \in WholeLines(b) THEN Append(f[n], b[n + 1] \div 2) ELSE f[n]
             g == [i \in 0..(n + 1) |-> IF i = n + 1 THEN last ELSE f[i]]
  <2>2. \A i \in 0..n : f[i] = IF i = 0 THEN <<>>
                               ELSE IF i \in WholeLines(b) THEN Append(f[i - 1], b[i] \div 2)
                               ELSE f[i - 1]
    BY <2>1
  <2>3. /\ g[n + 1] = last /\ \A i \in 0..n : g[i] = f[i]
    OBVIOUS
  <2>4. ASSUME NEW i \in 0..(n + 1)
        PROVE  g[i] = IF i = 0 THEN <<>>
                      ELSE IF i \in WholeLines(b) THEN Append(g[i - 1], b[i] \div 2)
                      ELSE g[i - 1]
    <3>1. CASE i = n + 1
      <4>1. i - 1 = n /\ g[i - 1] = f[n] /\ i /= 0
        BY <2>3, <3>1
      <4>2. QED
        BY <2>3, <3>1, <4>1
    <3>2. CASE i = 0
      BY <2>2, <2>3, <3>2
    <3>3. CASE i \in 1..n
      <4>1. i - 1 \in 0..n /\ i \in 0..n /\ i /= 0
        BY <3>3
      <4>2. g[i - 1] = f[i - 1] /\ g[i] = f[i]
        BY <2>3, <4>1
      <4> HIDE DEF g, last
      <4>3. QED
        BY <2>2, <4>1, <4>2
    <3>4. QED
      BY <3>1, <3>2, <3>3
  <2>5. Is(g, n + 1)
    <3> DEFINE body == [i \in 0..(n + 1) |-> IF i = 0 THEN <<>>
                          ELSE IF i \in WholeLines(b) THEN Append(g[i - 1], b[i] \div 2)
                          ELSE g[i - 1]]
    <3>1. \A i \in 0..(n + 1) : g[i] = body[i]
      BY <2>4
    <3>2. g = [i \in 0..(n + 1) |-> g[i]] /\ body = [i \in 0..(n + 1) |-> body[i]]
      OBVIOUS
    <3> HIDE DEF g, body
    <3>3. g = body
      BY <3>1, <3>2
    <3>4. QED
      BY <3>3 DEF body
  <2>6. \E h : Is(h, n + 1)
    <3> HIDE DEF Is, g
    <3> QED
      BY <2>5
  <2>7. n + 1 \in Nat
    OBVIOUS
  <2> HIDE DEF Is
  <2>8. QED
    BY <2>6, <2>7
<1>3. Len(b) \in S
  <2>1. Len(b) \in Nat
    OBVIOUS
  <2> HIDE DEF S
  <2>2. QED
    BY <1>1, <1>2, <2>1, FromZeroUp
<1>4. QED
  BY <1>3 DEF IsUpto

\* The lines of a buffer are the whole ones it ends, in its order.
LEMMA LinesOfBuffer ==
    ASSUME NEW b \in Seq(Halves)
    PROVE  /\ LinesOf(b) \in Seq(1..MaxLines)
           /\ \A k \in 1..Len(LinesOf(b)) : \E j \in WholeLines(b) : LinesOf(b)[k] = b[j] \div 2
           /\ \A j \in WholeLines(b) : Contains(LinesOf(b), b[j] \div 2)
           /\ Rising(b) => Rising(LinesOf(b))
<1> DEFINE f == CHOOSE f : IsUpto(f, b)
<1>1. IsUpto(f, b)
  BY UptoExists
<1>2. LinesOf(b) = f[Len(b)]
  BY DEF LinesOf, IsUpto
<1> HIDE DEF f
<1>3. \A i \in 0..Len(b) :
        f[i] = IF i = 0 THEN <<>>
               ELSE IF i \in WholeLines(b) THEN Append(f[i - 1], b[i] \div 2)
               ELSE f[i - 1]
  BY <1>1 DEF IsUpto
<1>4. \A j \in WholeLines(b) : /\ j \in 1..Len(b) /\ b[j] \in Nat /\ b[j] \div 2 \in 1..MaxLines
                               /\ b[j] = 2 * (b[j] \div 2)
  <2>1. ASSUME NEW j \in WholeLines(b)
        PROVE  /\ j \in 1..Len(b) /\ b[j] \in Nat /\ b[j] \div 2 \in 1..MaxLines
               /\ b[j] = 2 * (b[j] \div 2)
    <3>1. j \in 1..Len(b) /\ IsNewline(b[j])
      BY DEF WholeLines, Newlines
    <3>2. MaxLines \in Nat /\ b[j] \in Nat /\ b[j] >= 1 /\ b[j] <= 2 * MaxLines
      BY <3>1, LogTailAssumption DEF Halves
    <3> DEFINE q == b[j] \div 2
    <3>3. q \in Nat /\ b[j] = 2 * q
      BY <3>1, <3>2, NewlineHalf
    <3> HIDE DEF q
    <3>4. q \in 1..MaxLines
      BY <3>2, <3>3
    <3>5. QED
      BY <3>1, <3>2, <3>3, <3>4 DEF q
  <2>2. QED
    BY <2>1
<1> DEFINE P(i) == /\ f[i] \in Seq(1..MaxLines)
                   /\ \A k \in 1..Len(f[i]) : \E j \in WholeLines(b) : j <= i /\ f[i][k] = b[j] \div 2
                   /\ \A j \in WholeLines(b) : j <= i =>
                        \E k \in 1..Len(f[i]) : f[i][k] = b[j] \div 2
                   /\ Rising(b) => Rising(f[i])
           S == {i \in Nat : i <= Len(b) => P(i)}
<1>5. 0 \in S
  <2>1. f[0] = <<>>
    <3>1. 0 \in 0..Len(b)
      OBVIOUS
    <3>2. QED
      BY <1>3, <3>1
  <2>2. \A j \in WholeLines(b) : ~(j <= 0)
    BY <1>4
  <2>3. f[0] \in Seq(1..MaxLines) /\ 1..Len(f[0]) = {}
    BY <2>1
  <2>4. P(0)
    BY <2>2, <2>3 DEF Rising
  <2>5. QED
    BY <2>4
<1>6. ASSUME NEW i \in Nat, i \in S PROVE i + 1 \in S
  <2>0. SUFFICES ASSUME i + 1 <= Len(b) PROVE P(i + 1)
    <3> HIDE DEF P
    <3> QED
      OBVIOUS
  <2>1. P(i) /\ i + 1 \in 0..Len(b) /\ Len(b) \in Nat /\ i + 1 /= 0 /\ (i + 1) - 1 = i
    <3>1. Len(b) \in Nat /\ i <= Len(b)
      BY <2>0
    <3>2. P(i)
      BY <1>6, <3>1
    <3> HIDE DEF P
    <3>3. QED
      BY <2>0, <3>1, <3>2
  <2>2. CASE i + 1 \notin WholeLines(b)
    <3>1. f[i + 1] = f[i]
      BY <1>3, <2>1, <2>2
    <3>2. \A j \in WholeLines(b) : j <= i + 1 => j <= i
      BY <1>4, <2>2
    <3>3. \A j \in WholeLines(b) : j <= i => j <= i + 1
      BY <1>4
    <3>4. QED
      BY <2>1, <3>1, <3>2, <3>3
  <2>3. CASE i + 1 \in WholeLines(b)
    <3> DEFINE s == f[i]
               t == f[i + 1]
               v == b[i + 1] \div 2
    <3>1. t = Append(s, v)
      <4>1. f[i + 1] = Append(f[(i + 1) - 1], v)
        BY <1>3, <2>1, <2>3
      <4>2. QED
        BY <2>1, <4>1
    <3>2. s \in Seq(1..MaxLines) /\ v \in 1..MaxLines
      BY <1>4, <2>1, <2>3
    <3> HIDE DEF s, t, v
    <3>3. /\ t \in Seq(1..MaxLines) /\ Len(t) = Len(s) + 1 /\ Len(s) \in Nat
          /\ t[Len(s) + 1] = v /\ \A k \in 1..Len(s) : t[k] = s[k]
      BY <3>1, <3>2, AppendProperties
    <3>4. \A k \in 1..Len(t) : \E j \in WholeLines(b) : j <= i + 1 /\ t[k] = b[j] \div 2
      <4>1. ASSUME NEW k \in 1..Len(t)
            PROVE  \E j \in WholeLines(b) : j <= i + 1 /\ t[k] = b[j] \div 2
        <5>1. CASE k = Len(s) + 1
          BY <2>3, <3>3, <5>1 DEF v
        <5>2. CASE k \in 1..Len(s)
          <6>1. PICK j \in WholeLines(b) : j <= i /\ s[k] = b[j] \div 2
            BY <2>1, <5>2 DEF s
          <6>2. j <= i + 1
            BY <1>4, <6>1
          <6>3. QED
            BY <3>3, <5>2, <6>1, <6>2
        <5>3. QED
          BY <3>3, <5>1, <5>2
      <4>2. QED
        BY <4>1
    <3>5. \A j \in WholeLines(b) : j <= i + 1 => \E k \in 1..Len(t) : t[k] = b[j] \div 2
      <4>1. ASSUME NEW j \in WholeLines(b), j <= i + 1
            PROVE  \E k \in 1..Len(t) : t[k] = b[j] \div 2
        <5>1. CASE j = i + 1
          <6>1. Len(s) + 1 \in 1..Len(t)
            BY <3>3
          <6>2. QED
            BY <3>3, <5>1, <6>1 DEF v
        <5>2. CASE j /= i + 1
          <6>1. j <= i
            BY <1>4, <4>1, <5>2
          <6>2. PICK k \in 1..Len(s) : s[k] = b[j] \div 2
            BY <2>1, <6>1 DEF s
          <6>3. k \in 1..Len(t)
            BY <3>3
          <6>4. QED
            BY <3>3, <6>2, <6>3
        <5>3. QED
          BY <5>1, <5>2
      <4>2. QED
        BY <4>1
    <3>6. Rising(b) => Rising(t)
      <4> SUFFICES ASSUME Rising(b), NEW k \in 1..Len(t), NEW l \in 1..Len(t), k < l
                   PROVE  t[k] < t[l]
        BY DEF Rising
      <4>1. CASE l \in 1..Len(s)
        <5>1. k \in 1..Len(s) /\ Rising(s)
          BY <2>1, <3>3, <4>1 DEF s
        <5>2. QED
          BY <3>3, <4>1, <5>1 DEF Rising
      <4>2. CASE l = Len(s) + 1
        <5>1. k \in 1..Len(s) /\ t[k] = s[k] /\ t[l] = v
          BY <3>3, <4>2
        <5>2. PICK j \in WholeLines(b) : j <= i /\ s[k] = b[j] \div 2
          BY <2>1, <5>1 DEF s
        <5>3. /\ b[j] < b[i + 1] /\ b[j] = 2 * s[k] /\ b[i + 1] = 2 * v
              /\ s[k] \in Nat /\ v \in Nat
          <6>1. j \in 1..Len(b) /\ i + 1 \in 1..Len(b) /\ j < i + 1
            BY <1>4, <2>1, <5>2
          <6>2. b[j] < b[i + 1]
            BY <6>1 DEF Rising
          <6>3. /\ b[j] = 2 * (b[j] \div 2) /\ b[j] \div 2 \in Nat
                /\ b[i + 1] = 2 * (b[i + 1] \div 2) /\ b[i + 1] \div 2 \in Nat
            BY <1>4, <2>3
          <6>4. QED
            BY <5>2, <6>2, <6>3 DEF v
        <5>4. QED
          BY <5>1, <5>3
      <4>3. QED
        BY <3>3, <4>1, <4>2
    <3>7. QED
      BY <3>3, <3>4, <3>5, <3>6 DEF t
  <2>4. QED
    BY <2>2, <2>3
<1>7. Len(b) \in Nat /\ Len(b) \in S
  <2>1. Len(b) \in Nat
    OBVIOUS
  <2> HIDE DEF S
  <2>2. QED
    BY <1>5, <1>6, <2>1, FromZeroUp
<1>8. P(Len(b))
  BY <1>7
<1>9. /\ f[Len(b)] \in Seq(1..MaxLines) /\ (Rising(b) => Rising(f[Len(b)]))
      /\ \A k \in 1..Len(f[Len(b)]) : \E j \in WholeLines(b) : f[Len(b)][k] = b[j] \div 2
  BY <1>8
<1>10. \A j \in WholeLines(b) : Contains(f[Len(b)], b[j] \div 2)
  <2>1. \A j \in WholeLines(b) : j <= Len(b)
    BY <1>4
  <2>2. QED
    BY <1>8, <2>1 DEF Contains
<1>11. QED
  BY <1>2, <1>9, <1>10

----------------------------------------------------------------------------
(* Types, the disk and the file followed. *)

LEMMA InodesAreNumbers ==
    /\ Inodes \subseteq Nat \ {0} /\ 1 \in Inodes /\ None = 0 /\ None \notin Inodes
    /\ Files \subseteq Nat /\ MaxLines \in Nat \ {0} /\ MaxRead \in Nat \ {0}
<1>1. Cardinality(Inodes) \in Nat
  BY LogTailAssumption, FS_CardinalityType
<1>2. Inodes \subseteq Nat \ {0} /\ 1 \in Inodes
  BY <1>1, LogTailAssumption
<1>3. QED
  BY <1>2, LogTailAssumption DEF None, Files

\* What ReadLog reads.
ReadEnd == Min({size, Len(content[handle])})
Buffer == partial \o SubSeq(content[handle], offset + 1, ReadEnd)

LEMMA BufferRead ==
    ASSUME TypeOK, Following, tpc = "read"
    PROVE  /\ handle \in Inodes /\ content[handle] \in Seq(Halves)
           /\ ReadEnd \in Nat /\ ReadEnd <= Len(content[handle])
           /\ Buffer \in Seq(Halves) /\ Len(partial) \in Nat /\ partial \in Seq(NoNewlines)
           /\ Len(Buffer) = Len(partial) + IF ReadEnd > offset THEN ReadEnd - offset ELSE 0
           /\ \A k \in 1..Len(partial) : Buffer[k] = partial[k]
           /\ \A k \in 1..(ReadEnd - offset) :
                Buffer[Len(partial) + k] = content[handle][offset + k]
           /\ ReadEnd <= offset => Buffer = partial
<1> DEFINE file == content[handle]
           new == SubSeq(file, offset + 1, ReadEnd)
<1>1. /\ handle \in Inodes /\ file \in Seq(Halves) /\ offset \in Nat /\ size \in Nat
      /\ partial \in Seq(NoNewlines) /\ partial \in Seq(Halves)
  BY DEF TypeOK, Following, Files, NoNewlines
<1> HIDE DEF file
<1>2. Len(file) \in Nat
  BY <1>1
<1>3. ReadEnd \in Nat /\ ReadEnd <= Len(file)
  BY <1>1, <1>2, SmallerOfTwo DEF ReadEnd, file
<1> HIDE DEF ReadEnd
<1>4. \A k \in (offset + 1)..ReadEnd : file[k] \in Halves
  BY <1>1, <1>2, <1>3
<1>5. /\ new \in Seq(Halves) /\ Len(new) = IF ReadEnd > offset THEN ReadEnd - offset ELSE 0
      /\ \A k \in 1..(ReadEnd - offset) : new[k] = file[offset + k]
  <2>1. CASE ReadEnd > offset
    BY <1>1, <1>2, <1>3, <1>4, <2>1
  <2>2. CASE ~(ReadEnd > offset)
    <3>1. new = <<>>
      BY <1>1, <1>2, <1>3, <2>2
    <3>2. QED
      BY <1>1, <1>3, <2>2, <3>1
  <2>3. QED
    BY <2>1, <2>2
<1> HIDE DEF new
<1>6. Buffer = partial \o new
  BY DEF Buffer, new, file
<1>7. /\ Buffer \in Seq(Halves) /\ Len(Buffer) = Len(partial) + Len(new) /\ Len(partial) \in Nat
      /\ Len(new) \in Nat
      /\ \A k \in 1..Len(partial) : Buffer[k] = partial[k]
      /\ \A k \in 1..Len(new) : Buffer[Len(partial) + k] = new[k]
  BY <1>1, <1>5, <1>6
<1>8. ReadEnd <= offset => Buffer = partial
  <2> SUFFICES ASSUME ReadEnd <= offset PROVE Buffer = partial
    OBVIOUS
  <2>1. Len(new) = 0
    BY <1>1, <1>3, <1>5
  <2>2. new = <<>>
    BY <1>5, <2>1, EmptySeq
  <2>3. QED
    BY <1>1, <1>6, <2>2, ConcatEmptySeq
<1>9. \A k \in 1..(ReadEnd - offset) : Buffer[Len(partial) + k] = file[offset + k]
  <2>1. SUFFICES ASSUME NEW k \in 1..(ReadEnd - offset)
                 PROVE  Buffer[Len(partial) + k] = file[offset + k]
    OBVIOUS
  <2>2. ReadEnd > offset
    BY <1>1, <1>3, <2>1
  <2>3. k \in 1..Len(new)
    BY <1>5, <2>1, <2>2
  <2>4. QED
    BY <1>5, <1>7, <2>1, <2>3
<1>10. QED
  BY <1>1, <1>3, <1>5, <1>7, <1>8, <1>9 DEF file

\* What SizeLog finds.
LEMMA SizeFound ==
    ASSUME TypeOK, Following, SizeLog
    PROVE  LET end == Len(content[handle])
               from == IF end < offset THEN 0 ELSE offset
           IN
           /\ handle \in Inodes /\ content[handle] \in Seq(Halves) /\ end \in Nat
           /\ from \in Nat /\ from <= end /\ size' = end
           /\ tpc' \in {"read", "idle"}
           /\ begun' = IF end < offset THEN 0 ELSE begun
           /\ \/ /\ end - from <= MaxRead /\ offset' = from /\ passed' = passed
                 /\ partial' = IF end < offset THEN <<>> ELSE partial
              \/ /\ end - from > MaxRead /\ offset' = end - MaxRead /\ partial' = <<>>
                 /\ offset' \in Nat /\ from < offset' /\ offset' <= end
                 /\ passed' = passed \cup ToSet(partial)
                                \cup ToSet(SubSeq(content[handle], from + 1, end - MaxRead))
<1> DEFINE end == Len(content[handle])
           from == IF end < offset THEN 0 ELSE offset
           skip == end - from > MaxRead
<1>1. /\ handle \in Inodes /\ content[handle] \in Seq(Halves) /\ offset \in Nat
      /\ MaxRead \in Nat \ {0}
  BY InodesAreNumbers DEF TypeOK, Following, Files, SizeLog
<1>2. end \in Nat /\ from \in Nat /\ from <= end
  BY <1>1
<1>3. /\ size' = end
      /\ offset' = IF skip THEN end - MaxRead ELSE from
      /\ partial' = IF skip \/ end < offset THEN <<>> ELSE partial
      /\ passed' = IF skip THEN passed \cup ToSet(partial)
                          \cup ToSet(SubSeq(content[handle], from + 1, end - MaxRead))
                    ELSE passed
      /\ begun' = IF end < offset THEN 0 ELSE begun
      /\ tpc' = IF end > from THEN "read" ELSE "idle"
  BY DEF SizeLog
<1> HIDE DEF end, from
<1>4. CASE skip
  <2>1. end - MaxRead \in Nat /\ from < end - MaxRead /\ end - MaxRead <= end
    BY <1>1, <1>2, <1>4
  <2>2. /\ offset' = end - MaxRead /\ partial' = <<>>
        /\ passed' = passed \cup ToSet(partial)
                       \cup ToSet(SubSeq(content[handle], from + 1, end - MaxRead))
    BY <1>3, <1>4
  <2>3. tpc' \in {"read", "idle"} /\ end - from > MaxRead
    BY <1>3, <1>4
  <2>4. QED
    BY <1>1, <1>2, <1>3, <2>1, <2>2, <2>3 DEF end, from
<1>5. CASE ~skip
  <2>1. end - from <= MaxRead
    BY <1>1, <1>2, <1>5
  <2>2. QED
    BY <1>1, <1>2, <1>3, <1>5, <2>1 DEF end, from
<1>6. QED
  BY <1>4, <1>5

LEMMA TailTyped ==
    ASSUME TypeOK, Following, DiskOK, Next
    PROVE  TypeOK'
<1>0. /\ Inodes \subseteq Nat \ {0} /\ None = 0 /\ Files \subseteq Nat
      /\ MaxLines \in Nat \ {0} /\ <<>> \in Seq(Halves) /\ <<>> \in Seq(NoNewlines)
  BY InodesAreNumbers
<1>a. partial \in Seq(NoNewlines) /\ offset \in Nat /\ begun \in Nat
  BY DEF TypeOK, NoNewlines
<1>1. CASE WriteHalf
  <2>1. writer \in Inodes /\ written + 1 \in Halves /\ content[writer] \in Seq(Halves)
    BY <1>0, <1>1 DEF WriteHalf, TypeOK, Files, Halves
  <2>2. Append(content[writer], written + 1) \in Seq(Halves)
    BY <2>1
  <2>3. content' \in [Inodes -> Seq(Halves)]
    BY <1>1, <2>1, <2>2 DEF WriteHalf, TypeOK
  <2>4. QED
    BY <1>1, <2>3 DEF WriteHalf, TypeOK, tailerVars, localVars, historyVars
<1>2. CASE RotateAway \/ CreateLog
  <2>1. path' \in Files /\ swapped' \in BOOLEAN /\ created' \in Nat
    BY <1>0, <1>2 DEF RotateAway, CreateLog, PathChanges, TypeOK, Files
  <2>2. UNCHANGED <<content, writer, written, tailerVars, localVars, counted, passed, begun,
                    truncations, faults>>
    BY <1>2 DEF RotateAway, CreateLog, PathChanges
  <2>3. QED
    BY <2>1, <2>2 DEF TypeOK, tailerVars, localVars
<1>3. CASE ReopenLog
  BY <1>3 DEF ReopenLog, TypeOK, tailerVars, localVars, historyVars
<1>4. CASE Truncate
  <2>1. content' \in [Inodes -> Seq(Halves)]
    BY <1>0, <1>4 DEF Truncate, TypeOK
  <2>2. truncations' \in 0..MaxTruncations
    BY <1>4, LogTailAssumption DEF Truncate, TypeOK
  <2>3. QED
    BY <1>4, <2>1, <2>2 DEF Truncate, TypeOK, tailerVars, localVars
<1>5. CASE StatLog
  <2>1. /\ handle' \in {handle, None} /\ tpc' \in {"idle", "open", "size", "read"}
        /\ info' = path
        /\ UNCHANGED <<content, path, created, writer, written, identity, offset, partial,
                       everOpened, size, counted, passed, begun, swapped, truncations, faults>>
    BY <1>5 DEF StatLog, DropHandle, diskVars, historyVars
  <2>2. handle' \in Files
    BY <2>1 DEF TypeOK, Files
  <2>3. QED
    BY <2>1, <2>2 DEF TypeOK
<1>6. CASE StatFails \/ OpenFails \/ ReadFails
  <2>1. faults' \in 0..MaxFaults
    BY <1>6, LogTailAssumption DEF StatFails, OpenFails, ReadFails, Fault, TypeOK
  <2>2. /\ handle' = None /\ tpc' = "idle"
        /\ UNCHANGED <<content, path, created, writer, written, identity, offset, partial,
                       everOpened, info, size, counted, passed, begun, swapped, truncations>>
    BY <1>6 DEF StatFails, OpenFails, ReadFails, DropHandle, diskVars
  <2>3. QED
    BY <2>1, <2>2 DEF TypeOK, Files
<1>7. CASE OpenLog
  <2>1. path \in Inodes /\ Len(content[path]) \in Nat
    BY <1>7 DEF OpenLog, TypeOK, Files
  <2>2. offset' \in Nat /\ begun' \in Nat /\ partial' \in Seq(NoNewlines)
    <3>1. \/ offset' = Len(content[path]) /\ begun' = offset' /\ partial' = <<>>
          \/ offset' = 0 /\ begun' = 0 /\ partial' = <<>>
          \/ UNCHANGED <<offset, begun, partial>>
      BY <1>7 DEF OpenLog
    <3>2. partial' \in Seq(NoNewlines)
      <4>1. partial' = <<>> \/ partial' = partial
        BY <3>1
      <4>2. QED
        BY <1>0, <1>a, <4>1, Zenon
    <3>3. offset' \in Nat /\ begun' \in Nat
      BY <1>a, <2>1, <3>1
    <3>4. QED
      BY <3>2, <3>3
  <2>3. /\ handle' = path /\ identity' = info /\ everOpened' = TRUE /\ tpc' = "size"
        /\ UNCHANGED <<content, path, created, writer, written, info, size, counted, passed,
                       swapped, truncations, faults>>
    BY <1>7 DEF OpenLog, diskVars
  <2>4. QED
    BY <1>0, <2>2, <2>3 DEF TypeOK, NoNewlines
<1>8. CASE SizeLog
  <2> DEFINE end == Len(content[handle])
             from == IF end < offset THEN 0 ELSE offset
             cut == SubSeq(content[handle], from + 1, end - MaxRead)
  <2>1. /\ content[handle] \in Seq(Halves) /\ end \in Nat /\ from \in Nat /\ size' = end
        /\ tpc' \in {"read", "idle"} /\ begun' \in {0, begun} /\ offset' \in Nat
        /\ partial' \in {<<>>, partial}
        /\ passed' = passed \/ /\ passed' = passed \cup ToSet(partial) \cup ToSet(cut)
                               /\ end - MaxRead \in Nat /\ end - MaxRead <= end
    BY <1>8, SizeFound
  <2>2. ToSet(partial) \subseteq Halves
    BY DEF TypeOK, ToSet
  <2>3. end - MaxRead \in Nat /\ end - MaxRead <= end => ToSet(cut) \subseteq Halves
    <3>1. SUFFICES ASSUME end - MaxRead \in Nat, end - MaxRead <= end
                   PROVE  ToSet(cut) \subseteq Halves
      OBVIOUS
    <3> DEFINE top == end - MaxRead
    <3>2. \A k \in (from + 1)..top : content[handle][k] \in Halves
      BY <2>1, <3>1
    <3>3. cut \in Seq(Halves)
      <4> HIDE DEF end, from, top
      <4>1. cut = SubSeq(content[handle], from + 1, top)
        BY DEF top
      <4>2. QED
        BY <2>1, <3>1, <3>2, <4>1 DEF top
    <3> HIDE DEF cut
    <3>4. \A k \in DOMAIN cut : cut[k] \in Halves
      BY <3>3
    <3>5. QED
      BY <3>4 DEF ToSet
  <2>4. passed' \in SUBSET Halves
    BY <2>1, <2>2, <2>3 DEF TypeOK
  <2>5. UNCHANGED <<content, path, created, writer, written, handle, identity, everOpened, info,
                    counted, swapped, truncations, faults>>
    BY <1>8 DEF SizeLog, diskVars
  <2>6. partial' \in Seq(NoNewlines) /\ begun' \in Nat /\ size' \in Nat
    <3>1. partial' = <<>> \/ partial' = partial
      BY <2>1
    <3>2. partial' \in Seq(NoNewlines)
      BY <1>0, <1>a, <3>1, Zenon
    <3>3. begun' \in Nat /\ size' \in Nat
      BY <1>a, <2>1
    <3>4. QED
      BY <3>2, <3>3
  <2>7. QED
    BY <1>0, <2>1, <2>4, <2>5, <2>6 DEF TypeOK, NoNewlines
<1>9. CASE ReadLog
  <2>1. /\ partial' = Held(Buffer) /\ counted' = counted \o LinesOf(Buffer) /\ tpc' = "idle"
        /\ offset' = IF ReadEnd > offset THEN ReadEnd ELSE offset
        /\ UNCHANGED <<content, path, created, writer, written, handle, identity, everOpened,
                       info, size, passed, begun, swapped, truncations, faults>>
    BY <1>9 DEF ReadLog, Buffer, ReadEnd, diskVars
  <2>2. Buffer \in Seq(Halves) /\ ReadEnd \in Nat
    BY <1>9, BufferRead DEF ReadLog
  <2>3. partial' \in Seq(NoNewlines) /\ LinesOf(Buffer) \in Seq(1..MaxLines)
    BY <2>1, <2>2, HeldOf, LinesOfBuffer
  <2>4. counted' \in Seq(1..MaxLines)
    BY <2>1, <2>3 DEF TypeOK
  <2>5. offset' \in Nat
    BY <2>1, <2>2 DEF TypeOK
  <2>6. QED
    BY <1>0, <2>1, <2>3, <2>4, <2>5 DEF TypeOK, NoNewlines
<1>10. QED
  BY <1>1, <1>2, <1>3, <1>4, <1>5, <1>6, <1>7, <1>8, <1>9
  DEF Next, Environment, Tailer, Failure

\* One more half at the end of the file that is written.
LEMMA HalfWritten ==
    ASSUME TypeOK, WriteHalf
    PROVE  /\ writer \in Inodes /\ content \in [Inodes -> Seq(Halves)]
           /\ written \in Nat /\ written' = written + 1
           /\ content'[writer] \in Seq(Halves) /\ Len(content[writer]) \in Nat
           /\ Len(content'[writer]) = Len(content[writer]) + 1
           /\ content'[writer][Len(content[writer]) + 1] = written + 1
           /\ \A k \in 1..Len(content[writer]) : content'[writer][k] = content[writer][k]
           /\ \A i \in Inodes : i /= writer => content'[i] = content[i]
<1>1. /\ writer \in Inodes /\ content \in [Inodes -> Seq(Halves)] /\ written \in Nat
      /\ written + 1 \in Halves /\ MaxLines \in Nat
  BY InodesAreNumbers DEF TypeOK, WriteHalf, Files, Halves
<1>2. content[writer] \in Seq(Halves)
  BY <1>1
<1>3. content'[writer] = Append(content[writer], written + 1)
  BY <1>1 DEF WriteHalf
<1>4. \A i \in Inodes : i /= writer => content'[i] = content[i]
  BY <1>1 DEF WriteHalf
<1>5. written' = written + 1
  BY DEF WriteHalf
<1>6. QED
  BY <1>1, <1>2, <1>3, <1>4, <1>5, AppendProperties, LenProperties

LEMMA DiskKept ==
    ASSUME TypeOK, DiskOK, Next
    PROVE  DiskOK'
<1>0. /\ Inodes \subseteq Nat \ {0} /\ None = 0 /\ created \in Nat /\ written \in Nat
      /\ writer \in Nat /\ path \in Nat /\ content \in [Inodes -> Seq(Halves)]
      /\ \A i \in Inodes : /\ content[i] \in Seq(Halves)
                           /\ \A k \in 1..Len(content[i]) : content[i][k] \in Nat
  <2>1. content \in [Inodes -> Seq(Halves)] /\ Halves \subseteq Nat
    BY DEF TypeOK, Halves
  <2>2. \A i \in Inodes : /\ content[i] \in Seq(Halves)
                          /\ \A k \in 1..Len(content[i]) : content[i][k] \in Nat
    <3>1. ASSUME NEW i \in Inodes PROVE content[i] \in Seq(Halves)
      BY <2>1
    <3>2. ASSUME NEW i \in Inodes, NEW k \in 1..Len(content[i]) PROVE content[i][k] \in Nat
      <4>1. content[i][k] \in Halves
        BY <3>1, <3>2, ElementOfSeq
      <4>2. QED
        BY <2>1, <4>1
    <3>3. QED
      BY <3>1, <3>2
  <2>3. QED
    BY <2>1, <2>2, InodesAreNumbers DEF TypeOK
<1>1. CASE WriteHalf
  <2>0. UNCHANGED <<path, created, writer>>
    BY <1>1 DEF WriteHalf
  <2> DEFINE n == Len(content[writer])
  <2>1. /\ writer \in Inodes /\ written' = written + 1 /\ n \in Nat
        /\ Len(content'[writer]) = n + 1 /\ content'[writer][n + 1] = written + 1
        /\ \A k \in 1..n : content'[writer][k] = content[writer][k]
        /\ \A i \in Inodes : i /= writer => content'[i] = content[i]
    BY <1>1, HalfWritten
  <2> HIDE DEF n
  <2>2. \A i \in Inodes : \A k \in 1..Len(content'[i]) :
          \/ i = writer /\ k = n + 1 /\ content'[i][k] = written + 1
          \/ k \in 1..Len(content[i]) /\ content'[i][k] = content[i][k] /\ (i = writer => k <= n)
    BY <1>0, <2>1 DEF n
  <2>3. \A i \in Inodes : Rising(content'[i])
    <3>1. SUFFICES ASSUME NEW i \in Inodes, NEW k \in 1..Len(content'[i]),
                          NEW l \in 1..Len(content'[i]), k < l
                   PROVE  content'[i][k] < content'[i][l]
      BY DEF Rising
    <3>2. CASE i /= writer
      BY <2>1, <3>1, <3>2 DEF DiskOK, Rising
    <3>3. CASE i = writer /\ l \in 1..n
      <4>1. k \in 1..n
        BY <2>1, <3>1, <3>3
      <4>2. content[i][k] < content[i][l]
        BY <3>1, <3>3, <4>1 DEF DiskOK, Rising, n
      <4>3. QED
        BY <2>1, <3>3, <4>1, <4>2
    <3>4. CASE i = writer /\ l = n + 1
      <4>1. k \in 1..n
        BY <2>1, <3>1, <3>4
      <4>2. content[i][k] <= written /\ content[i][k] \in Nat
        BY <1>0, <3>4, <4>1 DEF DiskOK, n
      <4>3. QED
        BY <1>0, <2>1, <3>4, <4>1, <4>2
    <3>5. QED
      BY <2>1, <3>1, <3>2, <3>3, <3>4
  <2>4. \A i \in Inodes : \A k \in 1..Len(content'[i]) : content'[i][k] <= written'
    <3>1. \A i \in Inodes : \A k \in 1..Len(content[i]) : content[i][k] <= written + 1
      BY <1>0 DEF DiskOK
    <3>2. QED
      BY <1>0, <2>1, <2>2, <3>1
  <2>5. ASSUME NEW i \in Inodes, NEW k \in 1..Len(content'[i]),
               NEW j \in Inodes, i < j, NEW l \in 1..Len(content'[j])
        PROVE  content'[i][k] < content'[j][l]
    <3>1. CASE i = writer
      <4>1. j > writer /\ j /= writer
        BY <1>0, <2>5, <3>1
      <4>2. content[j] = <<>> /\ content'[j] = content[j]
        BY <2>1, <4>1 DEF DiskOK
      <4>3. QED
        BY <2>5, <4>2
    <3>2. CASE i /= writer
      <4>1. k \in 1..Len(content[i]) /\ content'[i][k] = content[i][k]
        BY <2>1, <3>2
      <4>2. content[i][k] <= written /\ content[i][k] \in Nat
        BY <1>0, <4>1 DEF DiskOK
      <4>3. CASE j = writer /\ l = n + 1
        BY <1>0, <2>1, <4>1, <4>2, <4>3
      <4>4. CASE l \in 1..Len(content[j]) /\ content'[j][l] = content[j][l]
        BY <2>5, <4>1, <4>4 DEF DiskOK
      <4>5. QED
        BY <2>2, <4>3, <4>4
    <3>3. QED
      BY <3>1, <3>2
  <2>6. \A i \in Inodes : i > writer => content'[i] = <<>>
    BY <1>0, <2>1 DEF DiskOK
  <2>7. QED
    BY <2>0, <2>3, <2>4, <2>5, <2>6 DEF DiskOK
<1>2. CASE RotateAway \/ CreateLog
  <2>1. /\ UNCHANGED <<content, writer, written>> /\ path' \in {None, created'}
        /\ created' \in {created, created + 1} /\ created' \in Inodes \cup {None}
    BY <1>2 DEF RotateAway, CreateLog, PathChanges, DiskOK
  <2>2. writer <= created'
    BY <1>0, <2>1 DEF DiskOK
  <2>3. QED
    BY <2>1, <2>2 DEF DiskOK, Rising
<1>3. CASE ReopenLog
  <2>1. UNCHANGED <<content, path, created, written>> /\ writer' = created
    BY <1>3 DEF ReopenLog, DiskOK
  <2>2. \A i \in Inodes : i > writer' => i > writer
    BY <1>0, <2>1 DEF DiskOK
  <2>3. writer' <= created
    BY <1>0, <2>1
  <2>4. QED
    BY <2>1, <2>2, <2>3 DEF DiskOK, Rising
<1>4. CASE Truncate
  <2>1. /\ UNCHANGED <<path, created, writer, written>>
        /\ content' = [content EXCEPT ![path] = <<>>]
    BY <1>4 DEF Truncate
  <2>2. \A i \in Inodes : content'[i] = <<>> \/ content'[i] = content[i]
    BY <1>0, <2>1
  <2>3. \A i \in Inodes : content'[i] = <<>> => 1..Len(content'[i]) = {}
    OBVIOUS
  <2>4. QED
    BY <2>1, <2>2, <2>3 DEF DiskOK, Rising
<1>5. CASE Tailer \/ Failure
  <2>1. UNCHANGED <<content, path, created, writer, written>>
    BY <1>5 DEF Tailer, Failure, StatLog, OpenLog, OpenFails, SizeLog, ReadLog, StatFails,
                ReadFails, diskVars
  <2>2. QED
    BY <2>1 DEF DiskOK, Rising
<1>6. QED
  BY <1>1, <1>2, <1>3, <1>4, <1>5 DEF Next, Environment

LEMMA FollowingKept ==
    ASSUME TypeOK, DiskOK, Following, Next
    PROVE  Following'
<1>0. /\ Inodes \subseteq Nat \ {0} /\ None = 0 /\ created \in Nat /\ path \in Nat
      /\ identity \in Nat /\ info \in Nat
  BY InodesAreNumbers DEF TypeOK
<1>1. CASE WriteHalf \/ ReopenLog \/ Truncate
  <2>1. UNCHANGED <<path, created, tpc, handle, identity, offset, partial, everOpened, info,
                    counted, begun, swapped>>
    BY <1>1 DEF WriteHalf, ReopenLog, Truncate, tailerVars, localVars, historyVars
  <2>2. QED
    BY <2>1 DEF Following
<1>2. CASE RotateAway \/ CreateLog
  <2>1. /\ UNCHANGED <<tpc, handle, identity, offset, partial, everOpened, info, counted, begun>>
        /\ swapped' = (swapped \/ tpc = "open") /\ created' \in {created, created + 1}
    BY <1>2 DEF RotateAway, CreateLog, PathChanges, tailerVars, localVars
  <2>2. identity <= created' /\ info <= created'
    BY <1>0, <2>1 DEF Following
  <2>3. QED
    BY <2>1, <2>2 DEF Following
<1>3. CASE StatLog
  <2>1. /\ UNCHANGED <<path, created, identity, offset, partial, everOpened, counted, begun,
                       swapped>>
        /\ info' = path
        /\ \/ handle' = None /\ tpc' = "idle"
           \/ handle' = handle /\ handle /= None /\ tpc' = "size"
           \/ path /= None /\ handle' = None /\ tpc' = "open"
    BY <1>3 DEF StatLog, DropHandle, diskVars, historyVars
  <2>2. info' <= created
    BY <1>0, <2>1 DEF DiskOK
  <2>3. QED
    BY <2>1, <2>2 DEF Following
<1>4. CASE StatFails \/ OpenFails \/ ReadFails
  <2>1. /\ handle' = None /\ tpc' = "idle"
        /\ UNCHANGED <<path, created, identity, offset, partial, everOpened, info, counted, begun,
                       swapped>>
    BY <1>4 DEF StatFails, OpenFails, ReadFails, DropHandle, diskVars
  <2>2. QED
    BY <2>1 DEF Following
<1>5. CASE OpenLog
  <2>1. /\ tpc = "open" /\ path /= None /\ handle' = path /\ identity' = info /\ everOpened' = TRUE
        /\ tpc' = "size" /\ UNCHANGED <<path, created, info, swapped>>
    BY <1>5 DEF OpenLog, diskVars
  <2>2. QED
    BY <2>1 DEF Following
<1>6. CASE SizeLog \/ ReadLog
  <2>1. /\ tpc \in {"size", "read"} /\ tpc' \in {"idle", "read"}
        /\ UNCHANGED <<path, created, handle, identity, everOpened, info, swapped>>
    BY <1>6 DEF SizeLog, ReadLog, diskVars
  <2>2. QED
    BY <2>1 DEF Following
<1>7. QED
  BY <1>1, <1>2, <1>3, <1>4, <1>5, <1>6 DEF Next, Environment, Tailer, Failure

----------------------------------------------------------------------------
(* Once, and in order. *)

\* Numbers in what the tailer has and in what it may still read.
LEMMA Numbers ==
    ASSUME TypeOK
    PROVE  /\ Inodes \subseteq Nat \ {0} /\ None = 0 /\ created \in Nat /\ written \in Nat
           /\ identity \in Nat /\ info \in Nat /\ path \in Nat /\ handle \in Nat /\ offset \in Nat
           /\ \A i \in 1..Len(counted) : counted[i] \in Nat
           /\ \A i \in 1..Len(partial) : partial[i] \in Nat
           /\ \A f \in Inodes : /\ content[f] \in Seq(Halves) /\ Len(content[f]) \in Nat
                                /\ \A k \in 1..Len(content[f]) : content[f][k] \in Nat
<1>1. Halves \subseteq Nat /\ 1..MaxLines \subseteq Nat
  BY DEF Halves
<1>2. ASSUME NEW i \in 1..Len(counted) PROVE counted[i] \in Nat
  <2>1. counted[i] \in 1..MaxLines
    BY <1>2, ElementOfSeq DEF TypeOK
  <2>2. QED
    BY <1>1, <2>1
<1>3. ASSUME NEW i \in 1..Len(partial) PROVE partial[i] \in Nat
  <2>1. partial \in Seq(Halves)
    BY DEF TypeOK
  <2>2. partial[i] \in Halves
    BY <1>3, <2>1, ElementOfSeq
  <2>3. QED
    BY <1>1, <2>2
<1>4. ASSUME NEW f \in Inodes
      PROVE  /\ content[f] \in Seq(Halves) /\ Len(content[f]) \in Nat
             /\ \A k \in 1..Len(content[f]) : content[f][k] \in Nat
  <2>1. content[f] \in Seq(Halves)
    BY <1>4 DEF TypeOK
  <2>2. \A k \in 1..Len(content[f]) : content[f][k] \in Halves
    BY <2>1, ElementOfSeq
  <2>3. \A k \in 1..Len(content[f]) : content[f][k] \in Nat
    BY <1>1, <2>2, Zenon
  <2>4. Len(content[f]) \in Nat
    BY <2>1
  <2>5. QED
    BY <2>1, <2>3, <2>4
<1>5. QED
  BY <1>2, <1>3, <1>4, InodesAreNumbers DEF TypeOK

\* What a half has to lie above.
LEMMA Below ==
    ASSUME Ordered
    PROVE  /\ \A i \in 1..Len(counted) : 2 * counted[i] < written + 1
           /\ \A i \in 1..Len(partial) : partial[i] < written + 1
           /\ \A f \in Inodes : \A k \in 1..Len(content[f]) :
                (f = identity /\ k > offset) \/ f > identity =>
                  /\ \A i \in 1..Len(counted) : 2 * counted[i] < content[f][k]
                  /\ \A i \in 1..Len(partial) : partial[i] < content[f][k]
  BY DEF Ordered, ReadBelow

\* A half that is written lies above everything read.
LEMMA WrittenAbove ==
    ASSUME TypeOK, Ordered, WriteHalf
    PROVE  Ordered'
<1>0. /\ Inodes \subseteq Nat \ {0} /\ written \in Nat /\ offset \in Nat
      /\ \A i \in 1..Len(counted) : counted[i] \in Nat
      /\ \A i \in 1..Len(partial) : partial[i] \in Nat
      /\ \A f \in Inodes : Len(content[f]) \in Nat
  BY Numbers
<1>1. UNCHANGED <<identity, offset, partial, counted>>
  BY DEF WriteHalf, tailerVars, historyVars
<1> DEFINE n == Len(content[writer])
<1>2. /\ writer \in Inodes /\ written' = written + 1 /\ n \in Nat
      /\ Len(content'[writer]) = n + 1 /\ content'[writer][n + 1] = written + 1
      /\ \A k \in 1..n : content'[writer][k] = content[writer][k]
      /\ \A i \in Inodes : i /= writer => content'[i] = content[i]
  BY HalfWritten
<1>3. \A f \in Inodes : \A k \in 1..Len(content'[f]) :
        \/ content'[f][k] = written + 1
        \/ k \in 1..Len(content[f]) /\ content'[f][k] = content[f][k]
  BY <1>0, <1>2
<1>4. \A f \in Inodes : Len(content'[f]) < offset => Len(content[f]) < offset
  BY <1>0, <1>2
<1> HIDE DEF n
<1>5. /\ \A i \in 1..Len(counted) : 2 * counted[i] < written + 1 /\ 2 * counted[i] < written' + 1
      /\ \A i \in 1..Len(partial) : partial[i] < written + 1 /\ partial[i] < written' + 1
  BY <1>0, <1>2, Below
<1>6. ASSUME NEW f \in Inodes, NEW k \in 1..Len(content'[f])
      PROVE  /\ (f = identity /\ k > offset) \/ f > identity =>
                  /\ \A i \in 1..Len(counted) : 2 * counted[i] < content'[f][k]
                  /\ \A i \in 1..Len(partial) : partial[i] < content'[f][k]
             /\ f = identity /\ Len(content'[f]) < offset =>
                  \A i \in 1..Len(counted) : 2 * counted[i] < content'[f][k]
  <2>1. CASE content'[f][k] = written + 1
    BY <1>5, <2>1
  <2>2. CASE k \in 1..Len(content[f]) /\ content'[f][k] = content[f][k]
    BY <1>4, <2>2, Below DEF Ordered
  <2>3. QED
    BY <1>3, <1>6, <2>1, <2>2
<1>7. QED
  BY <1>1, <1>5, <1>6 DEF Ordered, ReadBelow, Rising

\* What is read next lies above what was read before, and below what is left.
LEMMA BufferAbove ==
    ASSUME TypeOK, DiskOK, Following, Ordered, ~swapped, tpc = "read"
    PROVE  /\ handle = identity /\ Rising(Buffer)
           /\ \A j \in 1..Len(Buffer) :
                /\ Buffer[j] \in Nat /\ Buffer[j] < written + 1
                /\ \A i \in 1..Len(counted) : 2 * counted[i] < Buffer[j]
                /\ \A f \in Inodes : \A k \in 1..Len(content[f]) :
                     (f = identity /\ k > offset /\ k > ReadEnd) \/ f > identity =>
                       Buffer[j] < content[f][k]
<1> DEFINE p == Len(partial)
           file == content[identity]
<1>1. handle = identity /\ identity \in Inodes
  BY BufferRead DEF Following
<1>2. /\ ReadEnd \in Nat /\ ReadEnd <= Len(file) /\ p \in Nat /\ Buffer \in Seq(Halves)
      /\ Len(Buffer) = p + IF ReadEnd > offset THEN ReadEnd - offset ELSE 0
      /\ \A k \in 1..p : Buffer[k] = partial[k]
      /\ \A k \in 1..(ReadEnd - offset) : Buffer[p + k] = file[offset + k]
  BY <1>1, BufferRead
<1>3. /\ offset \in Nat /\ written \in Nat
      /\ \A f \in Inodes : /\ content[f] \in Seq(Halves) /\ Len(content[f]) \in Nat
                           /\ \A k \in 1..Len(content[f]) : content[f][k] \in Nat
      /\ \A i \in 1..p : partial[i] \in Nat
  BY Numbers
<1>4. ASSUME NEW j \in 1..Len(Buffer)
      PROVE  \/ j \in 1..p /\ Buffer[j] = partial[j]
             \/ /\ j - p \in 1..(ReadEnd - offset) /\ offset + (j - p) \in 1..Len(file)
                /\ offset + (j - p) > offset /\ offset + (j - p) <= ReadEnd
                /\ Buffer[j] = file[offset + (j - p)]
  <2> HIDE DEF p, file
  <2>0. Len(file) \in Nat
    BY <1>1, <1>3 DEF file
  <2>1. CASE j \in 1..p
    BY <1>2, <2>1
  <2>2. CASE j \notin 1..p
    <3>1. j > p /\ j \in Nat /\ ReadEnd > offset /\ Len(Buffer) = p + (ReadEnd - offset)
      BY <1>2, <1>3, <1>4, <2>2
    <3>2. j - p \in 1..(ReadEnd - offset)
      BY <1>2, <1>3, <1>4, <3>1
    <3>3. Buffer[p + (j - p)] = file[offset + (j - p)] /\ p + (j - p) = j
      BY <1>2, <3>1, <3>2
    <3>4. offset + (j - p) \in 1..Len(file) /\ offset + (j - p) > offset /\ offset + (j - p) <= ReadEnd
      BY <1>2, <1>3, <2>0, <3>2
    <3>5. QED
      BY <3>2, <3>3, <3>4
  <2>3. QED
    BY <2>1, <2>2
<1>5. Rising(file) /\ \A k \in 1..Len(file) : file[k] <= written
  BY <1>1 DEF DiskOK
<1>6. ASSUME NEW j \in 1..Len(Buffer)
      PROVE  /\ Buffer[j] \in Nat /\ Buffer[j] < written + 1
             /\ \A i \in 1..Len(counted) : 2 * counted[i] < Buffer[j]
             /\ \A f \in Inodes : \A k \in 1..Len(content[f]) :
                  (f = identity /\ k > offset /\ k > ReadEnd) \/ f > identity =>
                    Buffer[j] < content[f][k]
  <2>1. CASE j \in 1..p /\ Buffer[j] = partial[j]
    BY <1>3, <2>1, Below DEF Ordered
  <2>2. CASE /\ offset + (j - p) \in 1..Len(file)
             /\ offset + (j - p) > offset /\ offset + (j - p) <= ReadEnd
             /\ Buffer[j] = file[offset + (j - p)]
    <3> DEFINE x == offset + (j - p)
    <3>1. x \in 1..Len(file) /\ x > offset /\ x <= ReadEnd /\ Buffer[j] = file[x]
      BY <2>2
    <3> HIDE DEF x
    <3>2. Buffer[j] \in Nat /\ Buffer[j] <= written
      BY <1>1, <1>3, <1>5, <3>1
    <3>3. \A i \in 1..Len(counted) : 2 * counted[i] < Buffer[j]
      BY <1>1, <3>1, Below
    <3>4. ASSUME NEW k \in 1..Len(file), k > ReadEnd PROVE Buffer[j] < file[k]
      <4>1. x < k
        BY <1>2, <3>1, <3>4
      <4>2. QED
        BY <1>5, <3>1, <4>1 DEF Rising
    <3>5. ASSUME NEW f \in Inodes, f > identity, NEW k \in 1..Len(content[f])
          PROVE  Buffer[j] < content[f][k]
      <4>1. identity < f
        BY <1>1, <3>5, InodesAreNumbers
      <4>2. QED
        BY <1>1, <3>1, <3>5, <4>1 DEF DiskOK
    <3>6. QED
      BY <1>3, <3>2, <3>3, <3>4, <3>5
  <2>3. QED
    BY <1>4, <2>1, <2>2
<1>7. ASSUME NEW k \in 1..Len(Buffer), NEW l \in 1..Len(Buffer), k < l
      PROVE  Buffer[k] < Buffer[l]
  <2>1. CASE l \in 1..p
    <3>1. k \in 1..p
      BY <1>2, <1>7, <2>1
    <3>2. partial[k] < partial[l]
      BY <1>7, <2>1, <3>1 DEF Ordered, Rising
    <3>3. QED
      BY <1>2, <2>1, <3>1, <3>2
  <2>2. CASE l \notin 1..p
    <3> DEFINE y == offset + (l - p)
    <3>1. y \in 1..Len(file) /\ y > offset /\ Buffer[l] = file[y]
      BY <1>4, <2>2
    <3>2. CASE k \in 1..p
      <4> HIDE DEF y
      <4>1. partial[k] < file[y]
        BY <1>1, <3>1, <3>2, Below
      <4>2. QED
        BY <1>2, <3>1, <3>2, <4>1
    <3>3. CASE k \notin 1..p
      <4> DEFINE x == offset + (k - p)
      <4>1. x \in 1..Len(file) /\ Buffer[k] = file[x]
        BY <1>4, <3>3
      <4>2. x < y
        <5> HIDE DEF p
        <5> QED
          BY <1>2, <1>3, <1>7
      <4> HIDE DEF x, y
      <4>3. QED
        BY <1>5, <3>1, <4>1, <4>2 DEF Rising
    <3>4. QED
      BY <3>2, <3>3
  <2>3. QED
    BY <2>1, <2>2
<1>8. QED
  BY <1>1, <1>6, <1>7 DEF Rising

\* A line counted by a read was counted before, or its newline was just read.
LEMMA CountedRead ==
    ASSUME TypeOK, Following, ReadLog
    PROVE  /\ Len(counted) \in Nat /\ Len(counted') = Len(counted) + Len(LinesOf(Buffer))
           /\ LinesOf(Buffer) \in Seq(1..MaxLines) /\ counted' \in Seq(1..MaxLines)
           /\ \A i \in 1..Len(counted) : counted'[i] = counted[i]
           /\ \A i \in 1..Len(LinesOf(Buffer)) : counted'[Len(counted) + i] = LinesOf(Buffer)[i]
           /\ \A i \in 1..Len(LinesOf(Buffer)) :
                \E j \in 1..Len(Buffer) : /\ IsNewline(Buffer[j])
                                          /\ 2 * LinesOf(Buffer)[i] = Buffer[j]
<1>1. tpc = "read" /\ counted' = counted \o LinesOf(Buffer)
  BY DEF ReadLog, Buffer, ReadEnd
<1>2. Buffer \in Seq(Halves) /\ counted \in Seq(1..MaxLines)
  BY <1>1, BufferRead DEF TypeOK
<1>3. /\ LinesOf(Buffer) \in Seq(1..MaxLines)
      /\ \A k \in 1..Len(LinesOf(Buffer)) :
           \E j \in WholeLines(Buffer) : LinesOf(Buffer)[k] = Buffer[j] \div 2
  BY <1>2, LinesOfBuffer
<1>4. ASSUME NEW i \in 1..Len(LinesOf(Buffer))
      PROVE  \E j \in 1..Len(Buffer) : IsNewline(Buffer[j]) /\ 2 * LinesOf(Buffer)[i] = Buffer[j]
  <2>1. PICK j \in WholeLines(Buffer) : LinesOf(Buffer)[i] = Buffer[j] \div 2
    BY <1>3
  <2>2. j \in 1..Len(Buffer) /\ IsNewline(Buffer[j])
    BY DEF WholeLines, Newlines
  <2>3. Buffer[j] \in Halves
    BY <1>2, <2>2, ElementOfSeq
  <2>4. Buffer[j] \in Nat
    BY <2>3 DEF Halves
  <2>5. Buffer[j] = 2 * (Buffer[j] \div 2)
    BY <2>2, <2>4, NewlineHalf
  <2>6. QED
    BY <2>1, <2>2, <2>5
<1> DEFINE L == LinesOf(Buffer)
<1> HIDE DEF L
<1>5. /\ counted' = counted \o L /\ L \in Seq(1..MaxLines)
  BY <1>1, <1>3 DEF L
<1>6. /\ Len(counted) \in Nat /\ Len(counted') = Len(counted) + Len(L) /\ counted' \in Seq(1..MaxLines)
      /\ \A i \in 1..Len(counted) : counted'[i] = counted[i]
      /\ \A i \in 1..Len(L) : counted'[Len(counted) + i] = L[i]
  BY <1>2, <1>5
<1>7. QED
  BY <1>3, <1>4, <1>6 DEF L

\* A read leaves everything read below everything still to be read.
LEMMA ReadOrdered ==
    ASSUME TypeOK, DiskOK, Following, Ordered, ~swapped, ReadLog
    PROVE  Ordered'
<1>0. /\ tpc = "read" /\ partial' = Held(Buffer)
      /\ offset' = IF ReadEnd > offset THEN ReadEnd ELSE offset
      /\ UNCHANGED <<content, written, identity>>
  BY DEF ReadLog, Buffer, ReadEnd, diskVars
<1>1. /\ handle = identity /\ Rising(Buffer)
      /\ \A j \in 1..Len(Buffer) :
           /\ Buffer[j] \in Nat /\ Buffer[j] < written + 1
           /\ \A i \in 1..Len(counted) : 2 * counted[i] < Buffer[j]
           /\ \A f \in Inodes : \A k \in 1..Len(content[f]) :
                (f = identity /\ k > offset /\ k > ReadEnd) \/ f > identity =>
                  Buffer[j] < content[f][k]
  BY <1>0, BufferAbove
<1>2. /\ ReadEnd \in Nat /\ ReadEnd <= Len(content[identity]) /\ Buffer \in Seq(Halves)
      /\ (ReadEnd <= offset => Buffer = partial) /\ partial \in Seq(NoNewlines)
      /\ identity \in Inodes
  BY <1>0, <1>1, BufferRead
<1>3. /\ offset \in Nat /\ written \in Nat
      /\ \A i \in 1..Len(counted) : counted[i] \in Nat
      /\ \A f \in Inodes : /\ Len(content[f]) \in Nat
                           /\ \A k \in 1..Len(content[f]) : content[f][k] \in Nat
  BY Numbers
<1> DEFINE n == Len(counted)
           L == LinesOf(Buffer)
           b == Len(Buffer)
<1>4. /\ n \in Nat /\ Len(counted') = n + Len(L) /\ L \in Seq(1..MaxLines)
      /\ counted' \in Seq(1..MaxLines)
      /\ \A i \in 1..n : counted'[i] = counted[i]
      /\ \A i \in 1..Len(L) : counted'[n + i] = L[i]
      /\ \A i \in 1..Len(L) : \E j \in 1..b : IsNewline(Buffer[j]) /\ 2 * L[i] = Buffer[j]
  BY CountedRead
<1>5. Rising(L)
  BY <1>1, <1>2, LinesOfBuffer
<1>6. PICK m \in 0..b :
        /\ Len(partial') = b - m
        /\ \A k \in 1..(b - m) : partial'[k] = Buffer[m + k]
        /\ \A k \in 1..b : IsNewline(Buffer[k]) => k <= m
  BY <1>0, <1>2, HeldOf
<1>7. b \in Nat
  BY <1>2
<1>8. \A i \in 1..Len(L) : L[i] \in Nat
  <2>1. ASSUME NEW i \in 1..Len(L) PROVE L[i] \in 1..MaxLines
    <3> HIDE DEF L
    <3> QED
      BY <1>4, <2>1, ElementOfSeq
  <2>2. QED
    BY <2>1
<1> HIDE DEF L, b, n
\* each line counted by now
<1>9. ASSUME NEW i \in 1..Len(counted')
      PROVE  \/ i \in 1..n /\ counted'[i] = counted[i] /\ counted[i] \in Nat
             \/ i > n /\ i - n \in 1..Len(L) /\ counted'[i] = L[i - n] /\ L[i - n] \in Nat
  <2>0. Len(L) \in Nat
    BY <1>4
  <2>1. CASE i \in 1..n
    BY <1>3, <1>4, <2>1 DEF n
  <2>2. CASE i \notin 1..n
    <3>1. i > n /\ i - n \in 1..Len(L) /\ n + (i - n) = i
      BY <1>4, <1>9, <2>0, <2>2
    <3>2. QED
      BY <1>4, <1>8, <3>1
  <2>3. QED
    BY <2>1, <2>2
<1>10. Rising(counted')
  <2>1. SUFFICES ASSUME NEW i \in 1..Len(counted'), NEW j \in 1..Len(counted'), i < j
                 PROVE  counted'[i] < counted'[j]
    BY DEF Rising
  <2>2. CASE j \in 1..n
    <3>1. i \in 1..n
      BY <1>4, <2>1, <2>2
    <3>2. counted[i] < counted[j]
      BY <2>1, <2>2, <3>1 DEF Ordered, Rising, n
    <3>3. QED
      BY <1>4, <2>2, <3>1, <3>2
  <2>3. CASE i \in 1..n /\ j \notin 1..n
    <3>1. j - n \in 1..Len(L) /\ counted'[j] = L[j - n] /\ L[j - n] \in Nat
      BY <1>9, <2>3
    <3>2. PICK x \in 1..b : 2 * L[j - n] = Buffer[x]
      BY <1>4, <3>1
    <3>3. 2 * counted[i] < Buffer[x] /\ counted[i] \in Nat
      BY <1>1, <1>3, <2>3, <3>2 DEF n, b
    <3>4. counted[i] < L[j - n]
      BY <3>1, <3>2, <3>3
    <3>5. QED
      BY <1>4, <2>3, <3>1, <3>4
  <2>4. CASE i \notin 1..n /\ j \notin 1..n
    <3>1. /\ j - n \in 1..Len(L) /\ counted'[j] = L[j - n]
          /\ i - n \in 1..Len(L) /\ counted'[i] = L[i - n]
      BY <1>9, <2>4
    <3>2. i - n < j - n
      BY <1>4, <2>1
    <3>3. L[i - n] < L[j - n]
      BY <1>5, <3>1, <3>2 DEF Rising, L
    <3>4. QED
      BY <3>1, <3>3
  <2>5. QED
    BY <1>4, <2>1, <2>2, <2>3, <2>4
\* each half held back now
<1>11. ASSUME NEW k \in 1..Len(partial')
       PROVE  m + k \in 1..b /\ m + k > m /\ partial'[k] = Buffer[m + k] /\ Buffer[m + k] \in Nat
  <2>1. k \in 1..(b - m)
    BY <1>6
  <2>2. m + k \in 1..b /\ m + k > m /\ partial'[k] = Buffer[m + k]
    BY <1>6, <1>7, <2>1
  <2>3. QED
    BY <1>1, <2>2 DEF b
<1>12. Rising(partial')
  <2>1. SUFFICES ASSUME NEW k \in 1..Len(partial'), NEW l \in 1..Len(partial'), k < l
                 PROVE  partial'[k] < partial'[l]
    BY DEF Rising
  <2>2. m + k < m + l
    BY <1>6, <2>1
  <2>3. Buffer[m + k] < Buffer[m + l]
    BY <1>1, <1>11, <2>1, <2>2 DEF Rising, b
  <2>4. QED
    BY <1>11, <2>1, <2>3
<1>13. ASSUME NEW i \in 1..Len(counted'), NEW j \in 1..Len(partial')
       PROVE  2 * counted'[i] < partial'[j]
  <2>1. m + j \in 1..b /\ m + j > m /\ partial'[j] = Buffer[m + j]
    BY <1>11, <1>13
  <2>2. CASE i \in 1..n /\ counted'[i] = counted[i]
    BY <1>1, <2>1, <2>2 DEF n, b
  <2>3. CASE i - n \in 1..Len(L) /\ counted'[i] = L[i - n]
    <3>1. PICK x \in 1..b : IsNewline(Buffer[x]) /\ 2 * L[i - n] = Buffer[x]
      BY <1>4, <2>3
    <3>2. x <= m
      BY <1>6, <3>1
    <3>3. x < m + j
      BY <1>6, <1>7, <2>1, <3>2
    <3>4. Buffer[x] < Buffer[m + j]
      BY <1>1, <2>1, <3>1, <3>3 DEF Rising, b
    <3>5. QED
      BY <2>1, <2>3, <3>1, <3>4
  <2>4. QED
    BY <1>9, <1>13, <2>2, <2>3
\* what lies above the buffer and what was counted lies above all that is read now
<1>14. ASSUME NEW h, \A i \in 1..n : 2 * counted[i] < h, \A j \in 1..b : Buffer[j] < h
       PROVE  /\ \A i \in 1..Len(counted') : 2 * counted'[i] < h
              /\ \A i \in 1..Len(partial') : partial'[i] < h
  <2>1. ASSUME NEW i \in 1..Len(counted') PROVE 2 * counted'[i] < h
    <3>1. CASE i \in 1..n /\ counted'[i] = counted[i]
      BY <1>14, <3>1
    <3>2. CASE i - n \in 1..Len(L) /\ counted'[i] = L[i - n]
      BY <1>4, <1>14, <3>2
    <3>3. QED
      BY <1>9, <2>1, <3>1, <3>2
  <2>2. QED
    BY <1>11, <1>14, <2>1
<1>15. /\ \A i \in 1..Len(counted') : 2 * counted'[i] < written + 1
       /\ \A i \in 1..Len(partial') : partial'[i] < written + 1
  BY <1>1, <1>14, Below DEF n, b
<1>16. ASSUME NEW f \in Inodes, NEW k \in 1..Len(content[f]),
              (f = identity /\ k > offset') \/ f > identity
       PROVE  /\ \A i \in 1..Len(counted') : 2 * counted'[i] < content[f][k]
              /\ \A i \in 1..Len(partial') : partial'[i] < content[f][k]
  <2>1. (f = identity /\ k > offset /\ k > ReadEnd) \/ f > identity
    BY <1>0, <1>2, <1>3, <1>16
  <2>2. \A j \in 1..b : Buffer[j] < content[f][k]
    BY <1>1, <1>16, <2>1 DEF b
  <2>3. \A i \in 1..n : 2 * counted[i] < content[f][k]
    BY <1>16, <2>1, Below DEF n
  <2>4. QED
    BY <1>14, <2>2, <2>3
<1>17. ASSUME NEW k \in 1..Len(content[identity]), Len(content[identity]) < offset',
              NEW i \in 1..Len(counted')
       PROVE  2 * counted'[i] < content[identity][k]
  <2>1. ReadEnd <= offset /\ offset' = offset
    BY <1>0, <1>2, <1>3, <1>17
  <2>2. Buffer = partial
    BY <1>2, <2>1
  <2>3. \A j \in 1..b : ~IsNewline(Buffer[j])
    <3>1. ASSUME NEW j \in 1..b PROVE Buffer[j] \in NoNewlines
      BY <1>2, <2>2, <3>1, ElementOfSeq DEF b
    <3>2. QED
      BY <3>1 DEF NoNewlines
  <2>4. i \in 1..n /\ counted'[i] = counted[i]
    BY <1>4, <1>9, <1>17, <2>3
  <2>5. QED
    BY <1>2, <1>17, <2>1, <2>4 DEF Ordered, n
<1>18. QED
  <2>1. ASSUME NEW f \in Inodes, NEW k \in 1..Len(content[f])
        PROVE  /\ f = identity /\ k > offset' =>
                    /\ \A i \in 1..Len(counted') : 2 * counted'[i] < content[f][k]
                    /\ \A i \in 1..Len(partial') : partial'[i] < content[f][k]
               /\ f > identity =>
                    /\ \A i \in 1..Len(counted') : 2 * counted'[i] < content[f][k]
                    /\ \A i \in 1..Len(partial') : partial'[i] < content[f][k]
               /\ f = identity /\ Len(content[f]) < offset' =>
                    \A i \in 1..Len(counted') : 2 * counted'[i] < content[f][k]
    BY <1>16, <1>17, <2>1
  <2>2. QED
    BY <1>0, <1>10, <1>12, <1>13, <1>15, <2>1 DEF Ordered, ReadBelow, Rising

\* Opening the log and looking at its size only move the position forward, or to a
\* younger file, or back to the beginning of one that was emptied.
LEMMA OpenOrdered ==
    ASSUME TypeOK, DiskOK, Following, Ordered, ~swapped, OpenLog
    PROVE  Ordered'
<1>0. /\ Inodes \subseteq Nat \ {0} /\ None = 0 /\ identity \in Nat /\ info \in Nat
      /\ created \in Nat
  BY Numbers
<1>1. /\ tpc = "open" /\ path = info /\ info = created /\ info \in Nat \ {0}
      /\ identity' = info /\ UNCHANGED <<content, written, counted>>
  BY <1>0 DEF OpenLog, Following, DiskOK, diskVars
<1>2. CASE ~everOpened
  <2>1. counted = <<>> /\ partial' = <<>>
    BY <1>2 DEF OpenLog, Following
  <2>2. 1..Len(counted) = {} /\ 1..Len(partial') = {}
    BY <2>1
  <2>3. QED
    BY <1>1, <2>2 DEF Ordered, ReadBelow, Rising
<1>3. CASE everOpened /\ info /= identity
  <2>1. partial' = <<>> /\ offset' = 0 /\ identity < info
    BY <1>0, <1>1, <1>3 DEF OpenLog, Following
  <2>2. 1..Len(partial') = {}
    BY <2>1
  <2>3. \A f \in Inodes : f = identity' \/ f > identity' => f > identity
    BY <1>0, <1>1, <2>1
  <2>4. \A f \in Inodes : \A k \in 1..Len(content[f]) : f = identity' \/ f > identity' =>
          \A i \in 1..Len(counted) : 2 * counted[i] < content[f][k]
    BY <2>3, Below
  <2>5. QED
    BY <1>1, <2>2, <2>4 DEF Ordered, ReadBelow, Rising
<1>4. CASE everOpened /\ info = identity
  <2>1. UNCHANGED <<partial, offset, identity>>
    BY <1>1, <1>4 DEF OpenLog
  <2>2. QED
    BY <1>1, <2>1 DEF Ordered, ReadBelow, Rising
<1>5. QED
  BY <1>2, <1>3, <1>4

LEMMA SizeOrdered ==
    ASSUME TypeOK, DiskOK, Following, Ordered, ~swapped, SizeLog
    PROVE  Ordered'
<1> DEFINE end == Len(content[identity])
<1>1. /\ handle = identity /\ identity \in Inodes /\ end \in Nat /\ offset \in Nat
      /\ UNCHANGED <<content, written, identity, counted>>
  <2>1. handle \in Inodes /\ handle = identity
    BY SizeFound, InodesAreNumbers DEF Following, SizeLog
  <2>2. QED
    BY <2>1, Numbers DEF SizeLog, diskVars
<1>2. CASE end < offset
  <2>1. partial' = <<>>
    BY <1>1, <1>2, SizeFound
  <2>2. 1..Len(partial') = {}
    BY <2>1
  <2>3. \A k \in 1..end : \A i \in 1..Len(counted) : 2 * counted[i] < content[identity][k]
    BY <1>1, <1>2 DEF Ordered
  <2>4. QED
    BY <1>1, <2>2, <2>3 DEF Ordered, ReadBelow, Rising
<1>3. CASE ~(end < offset) /\ partial' = <<>> /\ offset' \in Nat /\ offset < offset' /\ offset' <= end
  <2>1. 1..Len(partial') = {}
    BY <1>3
  <2>2. \A k \in 1..end : k > offset' => k > offset
    BY <1>1, <1>3
  <2>3. ~(end < offset')
    BY <1>1, <1>3
  <2>4. \A k \in 1..end : k > offset' => \A i \in 1..Len(counted) : 2 * counted[i] < content[identity][k]
    BY <1>1, <2>2, Below
  <2>5. QED
    BY <1>1, <2>1, <2>3, <2>4 DEF Ordered, ReadBelow, Rising
<1>4. CASE ~(end < offset) /\ UNCHANGED <<offset, partial>>
  BY <1>1, <1>4 DEF Ordered, ReadBelow, Rising
<1>5. QED
  BY <1>1, <1>2, <1>3, <1>4, SizeFound

LEMMA OrderedKept ==
    ASSUME TypeOK, OrderInv, Next, ~swapped'
    PROVE  Ordered'
<1>1. ~swapped /\ DiskOK /\ Following /\ Ordered
  <2>1. ~swapped
    BY DEF Next, Environment, Tailer, Failure, WriteHalf, RotateAway, CreateLog, PathChanges,
           ReopenLog, Truncate, StatLog, OpenLog, OpenFails, SizeLog, ReadLog, StatFails,
           ReadFails, historyVars
  <2>2. QED
    BY <2>1 DEF OrderInv
<1>2. CASE WriteHalf
  BY <1>1, <1>2, WrittenAbove
<1>3. CASE Truncate
  <2>1. /\ UNCHANGED <<written, identity, offset, partial, counted>>
        /\ content' = [content EXCEPT ![path] = <<>>]
    BY <1>3 DEF Truncate, tailerVars
  <2>2. \A f \in Inodes : 1..Len(content'[f]) = {} \/ content'[f] = content[f]
    <3>1. content \in [Inodes -> Seq(Halves)]
      BY DEF TypeOK
    <3>2. \A f \in Inodes : content'[f] = <<>> \/ content'[f] = content[f]
      BY <2>1, <3>1
    <3>3. QED
      BY <3>2
  <2>3. QED
    BY <1>1, <2>1, <2>2 DEF Ordered, ReadBelow, Rising
<1>4. CASE OpenLog
  BY <1>1, <1>4, OpenOrdered
<1>5. CASE SizeLog
  BY <1>1, <1>5, SizeOrdered
<1>6. CASE ReadLog
  BY <1>1, <1>6, ReadOrdered
<1>7. CASE RotateAway \/ CreateLog \/ ReopenLog \/ StatLog \/ StatFails \/ OpenFails \/ ReadFails
  <2>1. UNCHANGED <<content, written, identity, offset, partial, counted>>
    BY <1>7 DEF RotateAway, CreateLog, PathChanges, ReopenLog, StatLog, StatFails, OpenFails,
                ReadFails, DropHandle, diskVars, tailerVars, historyVars
  <2>2. QED
    BY <1>1, <2>1 DEF Ordered, ReadBelow, Rising
<1>8. QED
  BY <1>2, <1>3, <1>4, <1>5, <1>6, <1>7 DEF Next, Environment, Tailer, Failure

LEMMA TailStarts ==
    ASSUME Init
    PROVE  TypeOK /\ OrderInv
<1>1. /\ tpc = "idle" /\ info = 0 /\ size = 0 /\ handle = 0 /\ identity = 0 /\ offset = 0
      /\ partial = <<>> /\ everOpened = FALSE /\ counted = <<>> /\ passed = {} /\ begun = 0
      /\ swapped = FALSE /\ truncations = 0 /\ faults = 0
  BY DEF Init, None
<1>2. /\ path \in {0, 1} /\ created = path /\ writer = path
      /\ written \in {0, 2} /\ (path = 0 => written = 0)
      /\ \A i \in Inodes : content[i] = <<>> \/ (i = 1 /\ path = 1 /\ written = 2 /\ content[i] = <<1, 2>>)
      /\ content = [i \in Inodes |-> content[i]]
  BY InodesAreNumbers DEF Init
<1>3. <<1, 2>> \in Seq(Halves) /\ <<>> \in Seq(Halves)
  <2>1. 1 \in Halves /\ 2 \in Halves
    BY InodesAreNumbers DEF Halves
  <2>2. QED
    BY <2>1
<1>4. content \in [Inodes -> Seq(Halves)]
  <2>1. \A i \in Inodes : content[i] \in Seq(Halves)
    BY <1>2, <1>3, Zenon
  <2>2. QED
    BY <1>2, <2>1
<1>5. <<>> \in Seq({h \in Halves : ~IsNewline(h)}) /\ <<>> \in Seq(1..MaxLines)
  OBVIOUS
<1>6. TypeOK
  <2>1. partial \in Seq({h \in Halves : ~IsNewline(h)}) /\ counted \in Seq(1..MaxLines)
    BY <1>1, <1>5, Zenon
  <2>2. path \in Files /\ writer \in Files /\ created \in Nat /\ written \in Nat
    BY <1>2, InodesAreNumbers DEF Files
  <2>3. 0 \in Files /\ 0 \in 0..MaxTruncations /\ 0 \in 0..MaxFaults
    BY LogTailAssumption, InodesAreNumbers DEF Files
  <2>4. QED
    BY <1>1, <1>4, <2>1, <2>2, <2>3 DEF TypeOK
<1>7. ASSUME NEW i \in Inodes
      PROVE  /\ 1..Len(content[i]) = {} \/ /\ i = 1 /\ path = 1 /\ Len(content[i]) = 2
                                           /\ content[i][1] = 1 /\ content[i][2] = 2 /\ written = 2
             /\ i /= 1 => 1..Len(content[i]) = {} /\ content[i] = <<>>
             /\ path = 0 => content[i] = <<>>
  <2>1. CASE content[i] = <<>>
    BY <2>1
  <2>2. CASE i = 1 /\ path = 1 /\ written = 2 /\ content[i] = <<1, 2>>
    <3>1. Len(content[i]) = 2 /\ content[i][1] = 1 /\ content[i][2] = 2
      BY <2>2
    <3>2. QED
      BY <2>2, <3>1
  <2>3. QED
    BY <1>2, <1>7, <2>1, <2>2
<1>8. DiskOK
  <2>1. path \in {None, created} /\ writer <= created /\ created \in Inodes \cup {None}
    BY <1>2, InodesAreNumbers
  <2>2. ASSUME NEW i \in Inodes PROVE i > writer => content[i] = <<>>
    BY <1>2, <1>7, <2>2, InodesAreNumbers
  <2>3. ASSUME NEW i \in Inodes PROVE Rising(content[i])
    BY <1>7, <2>3 DEF Rising
  <2>4. ASSUME NEW i \in Inodes, NEW k \in 1..Len(content[i])
        PROVE  content[i][k] <= written
    BY <1>7, <2>4
  <2>5. ASSUME NEW i \in Inodes, NEW k \in 1..Len(content[i]), NEW j \in Inodes, i < j,
               NEW l \in 1..Len(content[j])
        PROVE  content[i][k] < content[j][l]
    <3>1. i = 1
      BY <1>7, <2>5
    <3>2. j /= 1
      BY <2>5, <3>1, InodesAreNumbers
    <3>3. QED
      BY <1>7, <2>5, <3>2
  <2>6. QED
    BY <2>1, <2>2, <2>3, <2>4, <2>5 DEF DiskOK
<1>9. Following
  BY <1>1, <1>2, InodesAreNumbers DEF Following
<1>10. Ordered
  <2>1. 1..Len(counted) = {} /\ 1..Len(partial) = {}
    BY <1>1
  <2>2. QED
    BY <2>1 DEF Ordered, ReadBelow, Rising
<1>11. QED
  BY <1>6, <1>8, <1>9, <1>10 DEF OrderInv

LEMMA OrderKept ==
    ASSUME TypeOK /\ OrderInv, [Next]_vars
    PROVE  (TypeOK /\ OrderInv)'
<1>1. CASE Next
  <2>1. TypeOK' /\ DiskOK' /\ Following'
    BY <1>1, TailTyped, DiskKept, FollowingKept DEF OrderInv
  <2>2. ~swapped' => Ordered'
    BY <1>1, OrderedKept
  <2>3. QED
    BY <2>1, <2>2 DEF OrderInv
<1>2. CASE UNCHANGED vars
  <2>1. UNCHANGED <<content, path, created, writer, written, tpc, handle, identity, offset, partial,
                    everOpened, info, size, counted, passed, begun, swapped, truncations, faults>>
    BY <1>2 DEF vars, diskVars, tailerVars, localVars, historyVars
  <2>2. TypeOK'
    BY <2>1 DEF TypeOK
  <2>3. DiskOK' /\ Following'
    BY <2>1 DEF DiskOK, Following, OrderInv, Rising
  <2>4. ~swapped' => Ordered'
    BY <2>1 DEF Ordered, OrderInv, Rising, ReadBelow
  <2>5. QED
    BY <2>2, <2>3, <2>4 DEF OrderInv
<1>3. QED
  BY <1>1, <1>2

\* The tailer's state keeps its types; in particular what it holds back never has
\* a newline in it.
THEOREM TailTypeCorrect == Spec => []TypeOK
<1>1. Init => TypeOK /\ OrderInv
  BY TailStarts
<1>2. TypeOK /\ OrderInv /\ [Next]_vars => (TypeOK /\ OrderInv)'
  BY OrderKept
<1>3. TypeOK /\ OrderInv => TypeOK
  OBVIOUS
<1>4. QED
  BY <1>1, <1>2, <1>3, PTL DEF Spec

\* No line is counted twice and lines are counted in the order they were written,
\* through any rotations, truncations and failed calls, as long as the path never
\* changed between a Stat and its Open (tail.go:8-21): the halves still to be read
\* lie above all that was read, because the proxy never goes back to an older file.
THEOREM LinesCountedOnceInOrder == Spec => []CountedOnceInOrder
<1>1. Init => TypeOK /\ OrderInv
  BY TailStarts
<1>2. TypeOK /\ OrderInv /\ [Next]_vars => (TypeOK /\ OrderInv)'
  BY OrderKept
<1>3. TypeOK /\ OrderInv => CountedOnceInOrder
  BY DEF OrderInv, Ordered, Rising, CountedOnceInOrder
<1>4. QED
  BY <1>1, <1>2, <1>3, PTL DEF Spec

----------------------------------------------------------------------------
(* No line overlooked. *)

LEMMA GapsKept ==
    ASSUME TypeOK, DiskOK, WithoutGaps, Next, truncations' = 0
    PROVE  WithoutGaps'
<1>0. /\ Inodes \subseteq Nat \ {0} /\ None = 0 /\ written \in Nat /\ created \in Nat
      /\ \A f \in Inodes : /\ content[f] \in Seq(Halves) /\ Len(content[f]) \in Nat
                           /\ \A k \in 1..Len(content[f]) : content[f][k] \in Nat
  BY Numbers
<1>1. CASE WriteHalf
  <2> DEFINE n == Len(content[writer])
  <2>1. /\ writer \in Inodes /\ written' = written + 1 /\ n \in Nat
        /\ content'[writer] \in Seq(Halves)
        /\ Len(content'[writer]) = n + 1 /\ content'[writer][n + 1] = written + 1
        /\ \A k \in 1..n : content'[writer][k] = content[writer][k]
        /\ \A i \in Inodes : i /= writer => content'[i] = content[i]
    BY <1>1, HalfWritten
  <2>2. n = 0 => ~IsNewline(written + 1)
    <3>1. n = 0 => content[writer] = <<>>
      BY <1>0, <2>1, EmptySeq
    <3>2. n = 0 => IsNewline(written)
      BY <1>0, <2>1, <3>1 DEF WithoutGaps
    <3>3. QED
      BY <1>0, <3>2, NextHalf
  <2>3. n /= 0 => content[writer][n] = written
    <3>1. n /= 0 => content[writer] /= <<>>
      OBVIOUS
    <3>2. writer /= None
      BY <1>0, <2>1
    <3>3. QED
      BY <3>1, <3>2 DEF WithoutGaps
  <2> HIDE DEF n
  <2>4. ASSUME NEW i \in Inodes, NEW k \in 1..Len(content'[i])
        PROVE  /\ k = 1 => ~IsNewline(content'[i][k])
               /\ k > 1 => content'[i][k] = content'[i][k - 1] + 1
    <3>1. CASE i /= writer
      BY <2>1, <2>4, <3>1 DEF WithoutGaps
    <3>2. CASE i = writer /\ k = n + 1
      <4>1. k = 1 => n = 0
        BY <2>1, <3>2
      <4>2. k > 1 => n /= 0 /\ k - 1 = n /\ n \in 1..n
        BY <2>1, <3>2
      <4>3. QED
        BY <2>1, <2>2, <2>3, <3>2, <4>1, <4>2
    <3>3. CASE i = writer /\ k \in 1..n
      <4>1. /\ k = 1 => ~IsNewline(content[writer][k])
            /\ k > 1 => content[writer][k] = content[writer][k - 1] + 1
        BY <2>1, <3>3 DEF WithoutGaps, n
      <4>2. k > 1 => k - 1 \in 1..n
        BY <2>1, <3>3
      <4>3. QED
        BY <2>1, <3>3, <4>1, <4>2
    <3>4. QED
      BY <2>1, <2>4, <3>1, <3>2, <3>3
  <2>5. writer' = writer /\ content'[writer] /= <<>>
    <3>1. Len(content'[writer]) /= 0
      BY <2>1
    <3>2. QED
      BY <1>1, <3>1 DEF WriteHalf
  <2>6. content'[writer][Len(content'[writer])] = written'
    BY <2>1
  <2>7. QED
    BY <2>4, <2>5, <2>6 DEF WithoutGaps
<1>2. CASE ReopenLog
  <2>1. UNCHANGED <<content, written>> /\ writer' = path /\ path /= None /\ writer /= path
        /\ IsNewline(written)
    BY <1>2 DEF ReopenLog
  <2>2. path = created /\ path \in Inodes /\ path > writer
    <3>1. path = created /\ path \in Inodes /\ writer <= created /\ writer \in Nat
      BY <2>1, InodesAreNumbers DEF DiskOK, TypeOK
    <3>2. QED
      BY <1>0, <2>1, <3>1
  <2>3. content[path] = <<>>
    BY <2>2 DEF DiskOK
  <2>4. QED
    BY <2>1, <2>3 DEF WithoutGaps
<1>3. CASE Truncate
  <2>1. truncations' >= 1 /\ truncations \in Nat
    BY <1>3 DEF Truncate, TypeOK
  <2>2. QED
    BY <2>1
<1>4. CASE RotateAway \/ CreateLog \/ Tailer \/ Failure
  <2>1. UNCHANGED <<content, writer, written>>
    BY <1>4 DEF RotateAway, CreateLog, Tailer, Failure, StatLog, OpenLog, OpenFails, SizeLog,
                ReadLog, StatFails, ReadFails, diskVars
  <2>2. QED
    BY <2>1 DEF WithoutGaps
<1>5. QED
  BY <1>1, <1>2, <1>3, <1>4 DEF Next, Environment

\* What HeldBack says of a file that is followed.
HeldFrom(file, s) ==
    /\ s \in Nat /\ begun <= s /\ s <= offset /\ offset <= Len(file)
    /\ \A k \in 1..Len(partial) : partial[k] = file[s + k]
    /\ s = begun \/ IsNewline(file[s]) \/ file[s] \in passed
    /\ \A i \in (begun + 2)..offset : Accounted(file, i)

LEMMA HeldSplit ==
    ASSUME TypeOK, HeldBack, identity /= None
    PROVE  identity \in Inodes /\ HeldFrom(content[identity], Start)
<1>1. identity \in Inodes /\ offset \in Nat /\ begun \in Nat /\ Len(partial) \in Nat
  BY DEF TypeOK, Files
<1>2. Start \in Nat /\ Start <= offset
  BY <1>1 DEF HeldBack, Start
<1>3. QED
  BY <1>1, <1>2 DEF HeldBack, HeldFrom

\* The file grows at its end only.
LEMMA WrittenBehind ==
    ASSUME TypeOK, HeldBack, WriteHalf
    PROVE  HeldBack'
<1>0. UNCHANGED <<identity, offset, partial, counted, passed, begun>>
  BY DEF WriteHalf, tailerVars, historyVars
<1>1. SUFFICES ASSUME identity /= None PROVE HeldBack'
  BY <1>0 DEF HeldBack
<1> DEFINE file == content[identity]
           new == content'[identity]
<1>2. identity \in Inodes /\ HeldFrom(file, Start)
  BY <1>1, HeldSplit
<1>3. /\ offset \in Nat /\ begun \in Nat /\ Len(file) \in Nat /\ Len(partial) \in Nat
  BY <1>2 DEF TypeOK
<1>4. Len(new) \in Nat /\ Len(file) <= Len(new) /\ \A k \in 1..Len(file) : new[k] = file[k]
  <2>1. CASE identity = writer
    <3>1. Len(new) = Len(file) + 1 /\ \A k \in 1..Len(file) : new[k] = file[k]
      BY <2>1, HalfWritten
    <3>2. QED
      BY <1>3, <3>1
  <2>2. CASE identity /= writer
    BY <1>2, <1>3, <2>2, HalfWritten
  <2>3. QED
    BY <2>1, <2>2
<1>5. Start \in Nat /\ begun <= Start /\ Start <= offset /\ offset <= Len(file)
  BY <1>2 DEF HeldFrom
<1> HIDE DEF file, new
<1>6. \A k \in 1..Len(partial) : partial[k] = new[Start + k]
  <2>1. SUFFICES ASSUME NEW k \in 1..Len(partial) PROVE partial[k] = new[Start + k]
    OBVIOUS
  <2>2. Start + k \in 1..Len(file)
    BY <1>3, <1>5, <2>1 DEF Start
  <2>3. QED
    BY <1>2, <1>4, <2>1, <2>2 DEF HeldFrom
<1>7. Start = begun \/ IsNewline(new[Start]) \/ new[Start] \in passed
  <2>1. Start /= begun => Start \in 1..Len(file)
    BY <1>3, <1>5
  <2>2. QED
    BY <1>2, <1>4, <2>1 DEF HeldFrom
<1>8. ASSUME NEW i \in (begun + 2)..offset PROVE Accounted(new, i)
  <2>1. i \in 1..Len(file) /\ i - 1 \in 1..Len(file)
    BY <1>3, <1>5, <1>8
  <2>2. new[i] = file[i] /\ new[i - 1] = file[i - 1]
    BY <1>4, <2>1
  <2>3. Accounted(file, i)
    BY <1>2 DEF HeldFrom
  <2>4. QED
    BY <2>2, <2>3 DEF Accounted
<1>9. offset <= Len(new)
  BY <1>3, <1>4, <1>5
<1>10. QED
  BY <1>0, <1>5, <1>6, <1>7, <1>8, <1>9 DEF HeldBack, Start, Accounted, new

LEMMA OpenedHeld ==
    ASSUME TypeOK, Following, HeldBack, ~swapped, OpenLog
    PROVE  HeldBack'
<1>1. identity' = path /\ path \in Inodes /\ UNCHANGED <<content, counted, passed>>
  BY DEF OpenLog, Following, TypeOK, Files, diskVars
<1> DEFINE file == content[path]
<1>2. Len(file) \in Nat
  BY <1>1, Numbers
<1>3. CASE offset' = begun' /\ partial' = <<>> /\ offset' \in Nat /\ offset' <= Len(file)
  <2>1. Len(partial') = 0 /\ offset' = begun' /\ offset' \in Nat
    BY <1>3
  <2>2. offset' - Len(partial') = begun' /\ begun' <= offset' - Len(partial')
    <3>1. \A x \in Nat : x - 0 = x /\ x <= x
      OBVIOUS
    <3>2. QED
      BY <2>1, <3>1
  <2>3. (begun' + 2)..offset' = {} /\ 1..Len(partial') = {}
    <3>1. 1..0 = {} /\ \A x \in Nat : (x + 2)..x = {}
      OBVIOUS
    <3>2. QED
      BY <2>1, <3>1, Zenon
  <2>4. QED
    BY <1>1, <1>3, <2>2, <2>3 DEF HeldBack, Start
<1>4. CASE everOpened /\ info = identity
  <2>1. UNCHANGED <<offset, begun, partial, identity>>
    BY <1>4 DEF OpenLog
  <2>2. QED
    BY <1>1, <2>1 DEF HeldBack, Start, Accounted
<1>5. QED
  BY <1>2, <1>3, <1>4 DEF OpenLog

LEMMA CutOut ==
    ASSUME NEW s \in Seq(Halves), NEW a \in Nat, NEW b \in Nat, a < b, b <= Len(s)
    PROVE  \A i \in (a + 1)..b : s[i] \in ToSet(SubSeq(s, a + 1, b))
<1> DEFINE cut == SubSeq(s, a + 1, b)
<1>1. \A k \in (a + 1)..b : s[k] \in Halves
  OBVIOUS
<1>2. cut \in Seq(Halves) /\ Len(cut) = b - a /\ \A k \in 1..(b - a) : cut[k] = s[a + k]
  BY <1>1
<1>3. ASSUME NEW i \in (a + 1)..b PROVE s[i] \in ToSet(cut)
  <2>1. i - a \in 1..(b - a) /\ a + (i - a) = i
    BY <1>3
  <2> HIDE DEF cut
  <2>2. i - a \in DOMAIN cut /\ cut[i - a] = s[i]
    BY <1>2, <2>1
  <2>3. QED
    BY <2>2 DEF ToSet
<1>4. QED
  BY <1>3

\* What is skipped is reported.
LEMMA SkippedHeld ==
    ASSUME TypeOK, Following, HeldBack, ~swapped, SizeLog
    PROVE  HeldBack'
<1>0. /\ handle = identity /\ identity /= None /\ UNCHANGED <<content, identity, counted>>
  BY SizeFound, InodesAreNumbers DEF Following, SizeLog, diskVars
<1> DEFINE file == content[identity]
<1>1. identity \in Inodes /\ HeldFrom(file, Start)
  BY <1>0, HeldSplit
<1>2. /\ offset \in Nat /\ begun \in Nat /\ file \in Seq(Halves) /\ Len(file) \in Nat
      /\ ~(Len(file) < offset)
  BY <1>1 DEF TypeOK, HeldFrom
<1>3. begun' = begun
  BY <1>0, <1>2, SizeFound
<1>4. CASE UNCHANGED <<offset, partial, passed>>
  BY <1>0, <1>3, <1>4 DEF HeldBack, Start, Accounted
<1>5. CASE /\ partial' = <<>> /\ offset' \in Nat /\ offset < offset' /\ offset' <= Len(file)
           /\ passed' = passed \cup ToSet(partial) \cup ToSet(SubSeq(file, offset + 1, offset'))
  <2>1. offset' \in Nat /\ offset < offset' /\ offset' <= Len(file) /\ Len(partial') = 0
    BY <1>5
  <2>2. \A i \in (offset + 1)..offset' : file[i] \in passed'
    <3> HIDE DEF file
    <3>1. \A i \in (offset + 1)..offset' : file[i] \in ToSet(SubSeq(file, offset + 1, offset'))
      BY <1>2, <2>1, CutOut
    <3>2. QED
      BY <1>5, <3>1
  <2>3. offset' - Len(partial') = offset' /\ 1..Len(partial') = {}
    <3>1. 1..0 = {} /\ \A x \in Nat : x - 0 = x
      OBVIOUS
    <3>2. QED
      BY <2>1, <3>1, Zenon
  <2>4. begun <= offset' /\ offset' \in (offset + 1)..offset'
    BY <1>1, <1>2, <1>5 DEF HeldFrom
  <2>5. ASSUME NEW i \in (begun + 2)..offset' PROVE Accounted(file, i)'
    <3>1. CASE i <= offset
      <4>1. i \in (begun + 2)..offset
        BY <1>2, <2>5, <3>1
      <4>2. Accounted(file, i)
        BY <1>1, <4>1 DEF HeldFrom
      <4>3. passed \subseteq passed'
        BY <1>5
      <4> HIDE DEF file
      <4>4. QED
        BY <1>0, <4>2, <4>3 DEF Accounted, file
    <3>2. CASE ~(i <= offset)
      <4>1. i \in (offset + 1)..offset'
        BY <1>2, <1>5, <2>5, <3>2
      <4>2. QED
        BY <1>0, <2>2, <4>1 DEF Accounted
    <3>3. QED
      BY <3>1, <3>2
  <2>6. file[offset'] \in passed'
    BY <2>2, <2>4
  <2>7. QED
    BY <1>0, <1>3, <1>5, <2>3, <2>4, <2>5, <2>6 DEF HeldBack, Start
<1>6. QED
  BY <1>0, <1>2, <1>4, <1>5, SizeFound

\* The buffer of a read is a stretch of the file, from what was held back on.
LEMMA BufferIsStretch ==
    ASSUME TypeOK, Following, HeldBack, ~swapped, tpc = "read",
           NEW top, top = IF ReadEnd > offset THEN ReadEnd ELSE offset
    PROVE  LET file == content[identity] IN
           /\ handle = identity /\ identity \in Inodes /\ HeldFrom(file, Start)
           /\ top \in Nat /\ offset <= top /\ top <= Len(file)
           /\ Len(Buffer) = top - Start /\ Len(Buffer) \in Nat
           /\ \A k \in 1..Len(Buffer) : Buffer[k] = file[Start + k]
<1> DEFINE file == content[identity]
           p == Len(partial)
<1>1. handle = identity /\ identity \in Inodes /\ identity /= None
  BY BufferRead, InodesAreNumbers DEF Following
<1>2. HeldFrom(file, Start)
  BY <1>1, HeldSplit
<1>3. /\ Start \in Nat /\ offset \in Nat /\ p \in Nat /\ offset = Start + p /\ offset <= Len(file)
      /\ Len(file) \in Nat
  <2>1. Start \in Nat /\ offset \in Nat /\ p \in Nat /\ offset <= Len(file) /\ Len(file) \in Nat
    BY <1>1, <1>2 DEF TypeOK, HeldFrom
  <2>2. offset = Start + p
    BY <2>1 DEF Start
  <2>3. QED
    BY <2>1, <2>2
<1>4. /\ ReadEnd \in Nat /\ ReadEnd <= Len(file)
      /\ Len(Buffer) = p + IF ReadEnd > offset THEN ReadEnd - offset ELSE 0
      /\ \A k \in 1..p : Buffer[k] = partial[k]
      /\ \A k \in 1..(ReadEnd - offset) : Buffer[p + k] = file[offset + k]
  BY <1>1, BufferRead
<1> HIDE DEF file, p
<1>5. /\ top \in Nat /\ offset <= top /\ top <= Len(file)
      /\ Len(Buffer) = top - Start /\ Len(Buffer) \in Nat
  BY <1>3, <1>4
<1>6. ASSUME NEW k \in 1..Len(Buffer) PROVE Buffer[k] = file[Start + k]
  <2>1. CASE k \in 1..p
    BY <1>2, <1>4, <2>1 DEF HeldFrom, p
  <2>2. CASE k \notin 1..p
    <3>1. k - p \in 1..(ReadEnd - offset) /\ p + (k - p) = k /\ offset + (k - p) = Start + k
      BY <1>3, <1>4, <1>6, <2>2
    <3>2. QED
      BY <1>4, <3>1
  <2>3. QED
    BY <2>1, <2>2
<1>7. QED
  BY <1>1, <1>2, <1>5, <1>6 DEF file

\* A line that a read reaches the end of is counted by it, unless its beginning
\* was skipped.
LEMMA ReachedIsCounted ==
    ASSUME TypeOK, Following, WithoutGaps, HeldBack, ~swapped, ReadLog,
           NEW i \in (begun + 2)..offset', ~(i <= offset),
           IsNewline(content[identity][i]),
           content[identity][i - 1] = content[identity][i] - 1
    PROVE  \/ Contains(LinesOf(Buffer), content[identity][i] \div 2)
           \/ content[identity][i - 1] \in passed
<1> DEFINE file == content[identity]
           top == IF ReadEnd > offset THEN ReadEnd ELSE offset
           s == Start
           j == i - s
<1>0. tpc = "read" /\ offset' = top
  BY DEF ReadLog, ReadEnd
<1>1. /\ handle = identity /\ identity \in Inodes /\ HeldFrom(file, s)
      /\ top \in Nat /\ offset <= top /\ top <= Len(file)
      /\ Len(Buffer) = top - s /\ Len(Buffer) \in Nat
      /\ \A k \in 1..Len(Buffer) : Buffer[k] = file[s + k]
  BY <1>0, BufferIsStretch
<1>2. s \in Nat /\ begun \in Nat /\ begun <= s /\ s <= offset /\ offset \in Nat
  BY <1>1 DEF HeldFrom, TypeOK
<1>3. /\ Len(file) \in Nat /\ Buffer \in Seq(Halves)
      /\ \A k \in 1..Len(file) : file[k] \in Nat
  BY <1>0, <1>1, BufferRead, Numbers
<1>4. i \in (begun + 2)..top
  BY <1>0
<1> HIDE DEF file, top, s
<1>5. j \in 1..Len(Buffer) /\ s + j = i /\ i \in 2..Len(file) /\ i - 1 \in 1..Len(file)
  BY <1>1, <1>2, <1>3, <1>4
<1>6. Buffer[j] = file[i]
  BY <1>1, <1>5
<1>7. file[i - 1] = file[i] - 1 /\ IsNewline(file[i]) /\ file[i] \in Nat /\ file[i - 1] \in Nat
  BY <1>3, <1>5 DEF file
<1> HIDE DEF j
<1>8. CASE j >= 2
  <2>1. j - 1 \in 1..Len(Buffer) /\ s + (j - 1) = i - 1
    BY <1>2, <1>5, <1>8
  <2>2. Buffer[j - 1] = Buffer[j] - 1
    BY <1>1, <1>6, <1>7, <2>1
  <2>3. j >= 3 => IsNewline(Buffer[j - 2])
    <3>1. SUFFICES ASSUME j >= 3 PROVE IsNewline(Buffer[j - 2])
      OBVIOUS
    <3>2. j - 2 \in 1..Len(Buffer) /\ s + (j - 2) = i - 2 /\ i - 1 > 1 /\ (i - 1) - 1 = i - 2
          /\ i - 2 \in 1..Len(file)
      BY <1>1, <1>2, <1>5, <3>1
    <3>3. file[i - 1] = file[i - 2] + 1
      BY <1>1, <1>5, <3>2 DEF WithoutGaps, file
    <3>4. file[i - 2] \in Nat
      BY <1>3, <3>2
    <3>5. file[i - 2] = file[i] - 2
      BY <1>7, <3>3, <3>4
    <3>6. IsNewline(file[i] - 2)
      BY <1>7, NewlineHalf
    <3>7. QED
      BY <1>1, <3>2, <3>5, <3>6
  <2>4. j \in WholeLines(Buffer)
    BY <1>5, <1>6, <1>7, <1>8, <2>2, <2>3 DEF WholeLines, Newlines
  <2>5. Contains(LinesOf(Buffer), Buffer[j] \div 2)
    BY <1>3, <2>4, LinesOfBuffer
  <2>6. QED
    BY <1>6, <2>5 DEF file
<1>9. CASE ~(j >= 2)
  <2>1. i - 1 = s /\ s /= begun
    BY <1>2, <1>4, <1>5, <1>9
  <2>2. ~IsNewline(file[s])
    BY <1>7, <2>1, NewlineHalf
  <2>3. file[s] \in passed
    BY <1>1, <2>1, <2>2 DEF HeldFrom
  <2>4. QED
    BY <2>1, <2>3 DEF file
<1>10. QED
  BY <1>8, <1>9

LEMMA ReadHeld ==
    ASSUME TypeOK, Following, WithoutGaps, HeldBack, ~swapped, ReadLog
    PROVE  HeldBack'
<1> DEFINE file == content[identity]
           top == IF ReadEnd > offset THEN ReadEnd ELSE offset
           s == Start
           b == Len(Buffer)
<1>0. /\ tpc = "read" /\ offset' = top /\ partial' = Held(Buffer)
      /\ UNCHANGED <<content, identity, passed, begun>>
  BY DEF ReadLog, ReadEnd, Buffer, diskVars
<1>1. /\ handle = identity /\ identity \in Inodes /\ HeldFrom(file, s)
      /\ top \in Nat /\ offset <= top /\ top <= Len(file)
      /\ b = top - s /\ b \in Nat
      /\ \A k \in 1..b : Buffer[k] = file[s + k]
  BY <1>0, BufferIsStretch
<1>2. s \in Nat /\ begun \in Nat /\ begun <= s /\ s <= offset /\ offset \in Nat
  BY <1>1 DEF HeldFrom, TypeOK
<1>3. PICK m \in 0..b :
        /\ m /= 0 => IsNewline(Buffer[m])
        /\ Len(partial') = b - m
        /\ \A k \in 1..(b - m) : partial'[k] = Buffer[m + k]
  BY <1>0, BufferRead, HeldOf
<1> HIDE DEF top, s, b
<1>4. top - (b - m) = s + m /\ s + m \in Nat /\ begun <= s + m
  BY <1>1, <1>2, <1>3
<1>5. offset' - Len(partial') = s + m
  BY <1>0, <1>3, <1>4, Zenon
<1>6. ASSUME NEW k \in 1..Len(partial') PROVE partial'[k] = file[(s + m) + k]
  <2>1. k \in 1..(b - m)
    BY <1>3
  <2>2. m + k \in 1..b /\ s + (m + k) = (s + m) + k
    BY <1>1, <1>2, <1>3, <2>1
  <2>3. Buffer[m + k] = file[s + (m + k)]
    BY <1>1, <2>2
  <2>4. QED
    BY <1>3, <2>1, <2>2, <2>3
<1>7. s + m = begun \/ IsNewline(file[s + m]) \/ file[s + m] \in passed
  <2>1. CASE m = 0
    <3>1. s + m = s
      BY <1>2, <2>1
    <3>2. QED
      BY <1>1, <3>1 DEF HeldFrom
  <2>2. CASE m /= 0
    <3>1. m \in 1..b
      BY <1>1, <1>3, <2>2
    <3>2. QED
      BY <1>1, <1>3, <2>2, <3>1
  <2>3. QED
    BY <2>1, <2>2
<1>8. \A v : Contains(counted, v) \/ Contains(LinesOf(Buffer), v) => Contains(counted', v)
  <2> DEFINE L == LinesOf(Buffer)
             n == Len(counted)
  <2>1. /\ n \in Nat /\ Len(counted') = n + Len(L) /\ L \in Seq(1..MaxLines)
        /\ \A i \in 1..n : counted'[i] = counted[i]
        /\ \A i \in 1..Len(L) : counted'[n + i] = L[i]
    BY CountedRead
  <2>2. Len(L) \in Nat
    BY <2>1
  <2> HIDE DEF L, n
  <2>3. ASSUME NEW v, Contains(counted, v) PROVE Contains(counted', v)
    <3>1. PICK i \in 1..n : counted[i] = v
      BY <2>3 DEF Contains, n
    <3>2. i \in 1..Len(counted')
      BY <2>1, <2>2
    <3>3. QED
      BY <2>1, <3>1, <3>2 DEF Contains
  <2>4. ASSUME NEW v, Contains(L, v) PROVE Contains(counted', v)
    <3>1. PICK i \in 1..Len(L) : L[i] = v
      BY <2>4 DEF Contains
    <3>2. n + i \in 1..Len(counted')
      BY <2>1, <2>2
    <3>3. QED
      BY <2>1, <3>1, <3>2 DEF Contains
  <2>5. QED
    BY <2>3, <2>4 DEF L
<1>9. ASSUME NEW i \in (begun + 2)..top,
             IsNewline(file[i]), file[i - 1] = file[i] - 1
      PROVE  Contains(counted', file[i] \div 2) \/ {file[i - 1], file[i]} \cap passed /= {}
  <2>1. CASE i <= offset
    <3>1. i \in (begun + 2)..offset
      BY <1>1, <1>2, <1>9, <2>1
    <3>2. Accounted(file, i)
      BY <1>1, <3>1 DEF HeldFrom
    <3>3. Contains(counted, file[i] \div 2) \/ {file[i - 1], file[i]} \cap passed /= {}
      BY <1>9, <3>2 DEF Accounted
    <3>4. QED
      BY <1>8, <3>3
  <2>2. CASE ~(i <= offset)
    <3>1. i \in (begun + 2)..offset'
      BY <1>0, <1>9
    <3>2. Contains(LinesOf(Buffer), file[i] \div 2) \/ file[i - 1] \in passed
      BY <1>9, <2>2, <3>1, ReachedIsCounted
    <3>3. QED
      BY <1>8, <3>2
  <2>3. QED
    BY <2>1, <2>2
<1> DEFINE t == s + m
<1>10. /\ begun <= t /\ top <= Len(file)
       /\ \A k \in 1..Len(partial') : partial'[k] = file[t + k]
       /\ t = begun \/ IsNewline(file[t]) \/ file[t] \in passed
  BY <1>1, <1>4, <1>6, <1>7
<1>11. Start' = t
  BY <1>5 DEF Start
<1> HIDE DEF t, file
<1>12. \A i \in (begun' + 2)..offset' : Accounted(file, i)'
  BY <1>0, <1>9 DEF Accounted, file
<1>13. QED
  BY <1>0, <1>10, <1>11, <1>12 DEF HeldBack, file

LEMMA LinesKept ==
    ASSUME TypeOK, OrderInv, LineInv, Next
    PROVE  LineInv'
<1>1. SUFFICES ASSUME truncations' = 0 PROVE WithoutGaps' /\ (~swapped' => HeldBack')
  BY DEF LineInv
<1>2. truncations = 0 /\ ~Truncate
  <2>1. truncations \in Nat
    BY DEF TypeOK
  <2>2. ~Truncate
    BY <1>1, <2>1 DEF Truncate
  <2>3. UNCHANGED truncations
    BY <2>2 DEF Next, Environment, Tailer, Failure, WriteHalf, RotateAway, CreateLog, PathChanges,
           ReopenLog, StatLog, OpenLog, OpenFails, SizeLog, ReadLog, StatFails,
           ReadFails, historyVars
  <2>4. QED
    BY <1>1, <2>2, <2>3
<1>3. WithoutGaps /\ (~swapped => HeldBack)
  BY <1>2 DEF LineInv
<1>4. DiskOK /\ Following
  BY DEF OrderInv
<1>5. WithoutGaps'
  BY <1>1, <1>3, <1>4, GapsKept
<1>6. ASSUME ~swapped' PROVE HeldBack'
  <2>1. ~swapped
    BY <1>6 DEF Next, Environment, Tailer, Failure, WriteHalf, RotateAway, CreateLog, PathChanges,
           ReopenLog, Truncate, StatLog, OpenLog, OpenFails, SizeLog, ReadLog, StatFails,
           ReadFails, historyVars
  <2>2. HeldBack
    BY <1>3, <2>1
  <2>3. CASE WriteHalf
    BY <2>2, <2>3, WrittenBehind
  <2>4. CASE OpenLog
    BY <1>4, <2>1, <2>2, <2>4, OpenedHeld
  <2>5. CASE SizeLog
    BY <1>4, <2>1, <2>2, <2>5, SkippedHeld
  <2>6. CASE ReadLog
    BY <1>3, <1>4, <2>1, <2>2, <2>6, ReadHeld
  <2>7. CASE RotateAway \/ CreateLog \/ ReopenLog \/ StatLog \/ StatFails \/ OpenFails \/ ReadFails
    <3>1. UNCHANGED <<content, identity, offset, partial, counted, passed, begun>>
      BY <2>7 DEF RotateAway, CreateLog, PathChanges, ReopenLog, StatLog, StatFails, OpenFails,
                  ReadFails, DropHandle, diskVars, tailerVars, historyVars
    <3>2. QED
      BY <2>2, <3>1 DEF HeldBack, Start, Accounted
  <2>8. QED
    BY <1>2, <2>3, <2>4, <2>5, <2>6, <2>7 DEF Next, Environment, Tailer, Failure
<1>7. QED
  BY <1>5, <1>6

LEMMA LinesStart ==
    ASSUME Init
    PROVE  LineInv
<1>1. identity = None
  BY DEF Init
<1>2. CASE path = None /\ writer = None /\ content = [i \in Inodes |-> <<>>]
  <2>1. \A i \in Inodes : 1..Len(content[i]) = {}
    BY <1>2
  <2>2. QED
    BY <1>1, <1>2, <2>1 DEF LineInv, WithoutGaps, HeldBack
<1>3. CASE /\ writer = 1 /\ written = 2
           /\ content = [i \in Inodes |-> IF i = 1 THEN <<1, 2>> ELSE <<>>]
  <2>1. /\ 1 \in Inodes /\ content[1] = <<1, 2>>
        /\ \A i \in Inodes : i /= 1 => 1..Len(content[i]) = {}
    BY <1>3, InodesAreNumbers
  <2>2. Len(content[1]) = 2 /\ content[1][1] = 1 /\ content[1][2] = 2 /\ content[1] /= <<>>
    BY <2>1
  <2>3. ~IsNewline(1)
    BY DEF IsNewline
  <2>4. ASSUME NEW i \in Inodes, NEW k \in 1..Len(content[i])
        PROVE  /\ k = 1 => ~IsNewline(content[i][k])
               /\ k > 1 => content[i][k] = content[i][k - 1] + 1
    BY <2>1, <2>2, <2>3, <2>4
  <2>5. WithoutGaps
    BY <1>3, <2>2, <2>4 DEF WithoutGaps
  <2>6. QED
    BY <1>1, <2>5 DEF LineInv, HeldBack
<1>4. QED
  BY <1>2, <1>3 DEF Init

\* Behind the tailer's position every whole line of the file it follows was counted,
\* or a part of it was skipped and reported as skipped: for a log that is rotated but
\* never emptied in place, and whose path never changes between a Stat and its Open.
\* What is held back is the end of what was read, and it begins behind a newline or
\* behind something skipped: so a line is only split where a skip split it.
THEOREM LinesAreNeverOverlooked == Spec => []NoLineOverlooked
<1> DEFINE Inv == TypeOK /\ OrderInv /\ LineInv
<1>1. Init => Inv
  BY TailStarts, LinesStart
<1>2. Inv /\ [Next]_vars => Inv'
  <2>1. SUFFICES ASSUME Inv, [Next]_vars PROVE Inv'
    OBVIOUS
  <2>2. (TypeOK /\ OrderInv)'
    BY <2>1, OrderKept
  <2>3. CASE Next
    BY <2>1, <2>2, <2>3, LinesKept
  <2>4. CASE UNCHANGED vars
    <3>1. UNCHANGED <<content, writer, written, identity, offset, partial, counted, passed,
                      begun, swapped, truncations>>
      BY <2>4 DEF vars, diskVars, tailerVars, historyVars
    <3>2. LineInv'
      BY <2>1, <3>1 DEF LineInv, WithoutGaps, HeldBack, Start, Accounted
    <3>3. QED
      BY <2>2, <3>2
  <2>5. QED
    BY <2>1, <2>3, <2>4
<1>3. Inv => NoLineOverlooked
  <2>1. SUFFICES ASSUME Inv, truncations = 0, ~swapped, handle /= None,
                        NEW i \in (begun + 2)..offset
                 PROVE  Accounted(content[handle], i)
    BY DEF NoLineOverlooked, Accounted
  <2>2. handle = identity /\ HeldBack
    BY <2>1 DEF OrderInv, Following, LineInv
  <2>3. QED
    BY <2>1, <2>2 DEF HeldBack
<1>4. QED
  BY <1>1, <1>2, <1>3, PTL DEF Spec

=============================================================================
