------------------------- MODULE MachineRatesProofs -------------------------
(***************************************************************************)
(* Theorems about the machine's own reading, for any interfaces, processes *)
(* and containers and every bound.                                         *)
(***************************************************************************)
EXTENDS MachineRates, TLAPS, NaturalsInduction, WellFoundedInduction, FiniteSetTheorems

----------------------------------------------------------------------------
(***************************************************************************)
(* Sums over finite sets.                                                  *)
(***************************************************************************)
Total(F, D) == MapThenSumSet(LAMBDA x : F[x], D)
Pick(S) == CHOOSE x \in S : TRUE

IsIter(it, F, D) ==
    it = [s \in SUBSET D |-> IF s = {} THEN 0 ELSE F[Pick(s)] + it[s \ {Pick(s)}]]

LEMMA TotalIsIter ==
    ASSUME NEW F, NEW D
    PROVE  Total(F, D) = (CHOOSE it : IsIter(it, F, D))[D]
  BY DEF Total, MapThenSumSet, MapThenFoldSet, IsIter, Pick

\* Induction in the form the provers can use: over a set.
LEMMA FromZeroUp ==
    ASSUME NEW S, 0 \in S, \A n \in Nat : n \in S => n + 1 \in S
    PROVE  \A n \in Nat : n \in S
<1> DEFINE less == {ss \in Nat \X Nat : ss[1] < ss[2]}
           missing == {n \in Nat : n \notin S}
<1> SUFFICES ASSUME missing /= {} PROVE FALSE
  OBVIOUS
<1>1. IsWellFoundedOn(less, Nat)
  BY NatLessThanWellFounded DEF OpToRel
<1>2. PICK x \in missing : \A y \in missing : ~ (<<y, x>> \in less)
  <2>1. missing \subseteq Nat
    OBVIOUS
  <2> HIDE DEF less, missing
  <2> QED
    BY <1>1, <2>1, WFMin
<1>3. x \in Nat /\ x /= 0
  BY <1>2
<1>4. x - 1 \in Nat /\ <<x - 1, x>> \in less
  BY <1>3
<1>5. x - 1 \in S
  BY <1>2, <1>4
<1>6. (x - 1) + 1 \in S
  BY <1>4, <1>5
<1>7. (x - 1) + 1 = x
  BY <1>3
<1>8. QED
  BY <1>2, <1>6, <1>7

\* Taking elements away from a finite set one at a time comes to an end.
LEMMA Smaller ==
    ASSUME NEW D, IsFiniteSet(D), NEW T \in SUBSET D
    PROVE  /\ IsFiniteSet(T) /\ Cardinality(T) \in Nat
           /\ (Cardinality(T) = 0) <=> (T = {})
           /\ \A x \in T : /\ T \ {x} \in SUBSET D /\ Cardinality(T \ {x}) = Cardinality(T) - 1
                           /\ Cardinality(T) >= 1
           /\ T /= {} => Pick(T) \in T
<1>1. IsFiniteSet(T)
  BY FS_Subset
<1>2. Cardinality(T) \in Nat
  BY <1>1, FS_CardinalityType
<1>3. (Cardinality(T) = 0) <=> (T = {})
  BY <1>1, FS_EmptySet
<1>4. ASSUME NEW x \in T
      PROVE  /\ T \ {x} \in SUBSET D /\ Cardinality(T \ {x}) = Cardinality(T) - 1
             /\ Cardinality(T) >= 1
  <2>1. Cardinality(T \ {x}) = Cardinality(T) - 1
    BY <1>1, <1>4, FS_RemoveElement
  <2>2. Cardinality(T) /= 0
    BY <1>3, <1>4
  <2>3. QED
    BY <1>2, <2>1, <2>2
<1>5. T /= {} => Pick(T) \in T
  BY DEF Pick
<1>6. QED
  BY <1>1, <1>2, <1>3, <1>4, <1>5

LEMMA OneLess ==
    ASSUME NEW D, IsFiniteSet(D), NEW T \in SUBSET D, NEW n \in Nat, Cardinality(T) = n + 1
    PROVE  /\ Pick(T) \in T
           /\ \A x \in T : T \ {x} \in SUBSET D /\ Cardinality(T \ {x}) = n
<1>1. T /= {}
  BY Smaller
<1>2. Pick(T) \in T
  BY <1>1, Smaller
<1>3. \A x \in T : T \ {x} \in SUBSET D /\ Cardinality(T \ {x}) = (n + 1) - 1
  BY Smaller
<1>4. (n + 1) - 1 = n
  OBVIOUS
<1>5. QED
  BY <1>2, <1>3, <1>4

LEMMA IterExists ==
    ASSUME NEW F, NEW D, IsFiniteSet(D)
    PROVE  \E it : IsIter(it, F, D)
<1> DEFINE Sub(n) == {s \in SUBSET D : Cardinality(s) <= n}
           Is(it, n) == it = [s \in Sub(n) |-> IF s = {} THEN 0
                                               ELSE F[Pick(s)] + it[s \ {Pick(s)}]]
           N == {n \in Nat : \E it : Is(it, n)}
<1>0. \A s \in SUBSET D : /\ Cardinality(s) \in Nat /\ ((Cardinality(s) = 0) <=> (s = {}))
                          /\ s /= {} => /\ s \ {Pick(s)} \in SUBSET D
                                        /\ Cardinality(s \ {Pick(s)}) = Cardinality(s) - 1
  BY Smaller
<1>1. 0 \in N
  <2>1. ASSUME NEW s \in Sub(0) PROVE s = {}
    <3>1. s \in SUBSET D /\ Cardinality(s) <= 0
      OBVIOUS
    <3>2. Cardinality(s) \in Nat /\ ((Cardinality(s) = 0) <=> (s = {}))
      BY <1>0, <3>1
    <3>3. QED
      BY <3>1, <3>2
  <2>2. Is([s \in Sub(0) |-> 0], 0)
    <3> HIDE DEF Sub
    <3> QED
      BY <2>1
  <2>3. \E it : Is(it, 0)
    <3> HIDE DEF Is
    <3> QED
      BY <2>2
  <2>4. QED
    BY <2>3
<1>2. ASSUME NEW n \in Nat, n \in N PROVE n + 1 \in N
  <2>1. PICK f : Is(f, n)
    BY <1>2
  <2> DEFINE g == [s \in Sub(n + 1) |-> IF s = {} THEN 0 ELSE F[Pick(s)] + f[s \ {Pick(s)}]]
  <2>2. \A s \in Sub(n) : f[s] = IF s = {} THEN 0 ELSE F[Pick(s)] + f[s \ {Pick(s)}]
    <3> HIDE DEF Sub
    <3> QED
      BY <2>1
  <2>3. ASSUME NEW s \in Sub(n + 1), s /= {} PROVE s \ {Pick(s)} \in Sub(n)
    <3>1. s \in SUBSET D /\ Cardinality(s) <= n + 1
      OBVIOUS
    <3>2. /\ Cardinality(s) \in Nat /\ s \ {Pick(s)} \in SUBSET D
          /\ Cardinality(s \ {Pick(s)}) = Cardinality(s) - 1
      BY <1>0, <2>3, <3>1
    <3>3. Cardinality(s \ {Pick(s)}) <= n
      BY <3>1, <3>2
    <3>4. QED
      BY <3>2, <3>3
  <2>4. Sub(n) \subseteq Sub(n + 1)
    <3>1. \A m \in Nat : m <= n => m <= n + 1
      OBVIOUS
    <3>2. QED
      BY <1>0, <3>1
  <2> HIDE DEF Sub
  <2>5. \A s \in Sub(n) : g[s] = f[s]
    BY <2>2, <2>4
  <2>6. \A s \in Sub(n + 1) : g[s] = IF s = {} THEN 0 ELSE F[Pick(s)] + g[s \ {Pick(s)}]
    BY <2>3, <2>5
  <2>7. Is(g, n + 1)
    <3> DEFINE body == [s \in Sub(n + 1) |-> IF s = {} THEN 0 ELSE F[Pick(s)] + g[s \ {Pick(s)}]]
    <3>1. g = [s \in Sub(n + 1) |-> g[s]]
      OBVIOUS
    <3>2. \A s \in Sub(n + 1) : g[s] = body[s]
      BY <2>6
    <3>3. body = [s \in Sub(n + 1) |-> body[s]]
      OBVIOUS
    <3> HIDE DEF g, body
    <3>4. g = body
      BY <3>1, <3>2, <3>3
    <3>5. QED
      BY <3>4 DEF body
  <2>8. \E it : Is(it, n + 1)
    <3> HIDE DEF Is, g
    <3> QED
      BY <2>7
  <2>9. QED
    <3> HIDE DEF Is
    <3> QED
      BY <2>8
<1>3. Cardinality(D) \in N
  <2>1. Cardinality(D) \in Nat
    BY FS_CardinalityType
  <2> HIDE DEF N
  <2>2. QED
    BY <1>1, <1>2, <2>1, FromZeroUp
<1>4. Sub(Cardinality(D)) = SUBSET D
  <2>1. \A s \in SUBSET D : Cardinality(s) <= Cardinality(D)
    BY FS_Subset
  <2>2. QED
    BY <2>1
<1>5. PICK it : Is(it, Cardinality(D))
  BY <1>3
<1>6. QED
  <2> HIDE DEF Sub
  <2> QED
    BY <1>4, <1>5 DEF IsIter

\* Sums over the parts of a set, taken in any order.
Sums(it, F, D) ==
    /\ it[{}] = 0
    /\ \A T \in SUBSET D : it[T] \in Nat
    /\ \A T \in SUBSET D : \A x \in T : it[T] = F[x] + it[T \ {x}]

LEMMA IterSums ==
    ASSUME NEW F, NEW D, IsFiniteSet(D), \A x \in D : F[x] \in Nat
    PROVE  \E it : Sums(it, F, D) /\ it[D] = Total(F, D)
<1> DEFINE it == CHOOSE i : IsIter(i, F, D)
<1>1. IsIter(it, F, D) /\ it[D] = Total(F, D)
  BY IterExists, TotalIsIter
<1> HIDE DEF it
<1>2. \A s \in SUBSET D : it[s] = IF s = {} THEN 0 ELSE F[Pick(s)] + it[s \ {Pick(s)}]
  BY <1>1 DEF IsIter
<1>3. it[{}] = 0
  BY <1>2
<1>4. \A T \in SUBSET D : it[T] \in Nat
  <2> DEFINE N == {n \in Nat : \A T \in SUBSET D : Cardinality(T) = n => it[T] \in Nat}
  <2>1. 0 \in N
    <3>1. \A T \in SUBSET D : Cardinality(T) = 0 => it[T] = 0
      BY <1>3, Smaller
    <3>2. QED
      BY <3>1
  <2>2. ASSUME NEW n \in Nat, n \in N PROVE n + 1 \in N
    <3>1. SUFFICES ASSUME NEW T \in SUBSET D, Cardinality(T) = n + 1 PROVE it[T] \in Nat
      OBVIOUS
    <3>2. Pick(T) \in T /\ T \ {Pick(T)} \in SUBSET D /\ Cardinality(T \ {Pick(T)}) = n
      BY <3>1, OneLess
    <3>3. it[T \ {Pick(T)}] \in Nat /\ F[Pick(T)] \in Nat
      BY <2>2, <3>2
    <3>4. it[T] = F[Pick(T)] + it[T \ {Pick(T)}]
      BY <1>2, <3>2
    <3>5. QED
      BY <3>3, <3>4
  <2>3. \A n \in Nat : n \in N
    <3> HIDE DEF N
    <3> QED
      BY <2>1, <2>2, FromZeroUp
  <2>4. QED
    BY <2>3, Smaller
<1> DEFINE OK(T) == \A x \in T : it[T] = F[x] + it[T \ {x}]
           N == {n \in Nat : \A T \in SUBSET D : Cardinality(T) = n => OK(T)}
<1>5. 0 \in N
  <2>1. \A T \in SUBSET D : Cardinality(T) = 0 => T = {}
    BY Smaller
  <2>2. \A T \in SUBSET D : Cardinality(T) = 0 => OK(T)
    BY <2>1
  <2>3. QED
    <3> HIDE DEF OK
    <3> QED
      BY <2>2
<1>6. ASSUME NEW n \in Nat, n \in N PROVE n + 1 \in N
  <2>1. SUFFICES ASSUME NEW T \in SUBSET D, Cardinality(T) = n + 1, NEW x \in T
                 PROVE  it[T] = F[x] + it[T \ {x}]
    OBVIOUS
  <2> DEFINE c == Pick(T)
  <2>2. c \in T /\ \A y \in T : T \ {y} \in SUBSET D /\ Cardinality(T \ {y}) = n
    <3>1. Pick(T) \in T
      BY <2>1, OneLess
    <3>2. \A y \in T : T \ {y} \in SUBSET D /\ Cardinality(T \ {y}) = n
      BY <2>1, OneLess
    <3>3. QED
      BY <3>1, <3>2
  <2>3. it[T] = F[c] + it[T \ {c}]
    BY <1>2, <2>2
  <2> HIDE DEF c
  <2>4. \A y \in T : OK(T \ {y})
    <3> HIDE DEF OK
    <3> QED
      BY <1>6, <2>2
  <2>5. CASE x = c
    BY <2>3, <2>5
  <2>6. CASE x /= c
    <3> DEFINE rest == it[(T \ {c}) \ {x}]
    <3>1. x \in T \ {c} /\ c \in T \ {x} /\ (T \ {c}) \ {x} = (T \ {x}) \ {c}
      BY <2>1, <2>2, <2>6
    <3>2. it[T \ {c}] = F[x] + rest
      BY <2>2, <2>4, <3>1
    <3>3. it[T \ {x}] = F[c] + rest
      BY <2>1, <2>4, <3>1
    <3>4. rest \in Nat /\ F[x] \in Nat /\ F[c] \in Nat
      BY <1>4, <2>1, <2>2
    <3> HIDE DEF rest
    <3>5. QED
      BY <2>3, <3>2, <3>3, <3>4
  <2>7. QED
    BY <2>5, <2>6
<1>7. \A n \in Nat : n \in N
  <2> HIDE DEF N
  <2> QED
    BY <1>5, <1>6, FromZeroUp
<1>8. \A T \in SUBSET D : OK(T)
  <2>1. \A T \in SUBSET D : Cardinality(T) \in Nat
    BY Smaller
  <2> HIDE DEF OK
  <2>2. QED
    BY <1>7, <2>1
<1>9. QED
  BY <1>1, <1>3, <1>4, <1>8 DEF Sums

\* They depend on the numbers only.
LEMMA SumsAgree ==
    ASSUME NEW F, NEW D, NEW i, NEW G, NEW E, NEW j, IsFiniteSet(D),
           Sums(i, F, D), Sums(j, G, E),
           NEW T \in SUBSET D, T \in SUBSET E, \A x \in T : F[x] = G[x]
    PROVE  i[T] = j[T]
<1> DEFINE N == {n \in Nat : \A U \in SUBSET T : Cardinality(U) = n => i[U] = j[U]}
<1>0. IsFiniteSet(T) /\ T \subseteq D /\ T \subseteq E
  BY Smaller
<1>1. 0 \in N
  <2>1. \A U \in SUBSET T : Cardinality(U) = 0 => U = {}
    BY <1>0, Smaller
  <2>2. i[{}] = 0 /\ j[{}] = 0
    BY DEF Sums
  <2>3. \A U \in SUBSET T : Cardinality(U) = 0 => i[U] = j[U]
    BY <2>1, <2>2
  <2>4. QED
    BY <2>3
<1>2. ASSUME NEW n \in Nat, n \in N PROVE n + 1 \in N
  <2>1. SUFFICES ASSUME NEW U \in SUBSET T, Cardinality(U) = n + 1 PROVE i[U] = j[U]
    OBVIOUS
  <2> DEFINE c == Pick(U)
  <2>2. c \in U /\ U \ {c} \in SUBSET T /\ Cardinality(U \ {c}) = n
    BY <1>0, <2>1, OneLess
  <2> HIDE DEF c
  <2>3. i[U \ {c}] = j[U \ {c}] /\ F[c] = G[c]
    BY <1>2, <2>2
  <2>4. U \in SUBSET D /\ U \in SUBSET E
    BY <1>0, <2>1
  <2>5. i[U] = F[c] + i[U \ {c}] /\ j[U] = G[c] + j[U \ {c}]
    BY <2>2, <2>4 DEF Sums
  <2>6. QED
    BY <2>3, <2>5
<1>3. \A n \in Nat : n \in N
  <2> HIDE DEF N
  <2> QED
    BY <1>1, <1>2, FromZeroUp
<1>4. Cardinality(T) \in Nat
  BY Smaller
<1>5. QED
  BY <1>3, <1>4

\* The same numbers have the same total.
LEMMA TotalAgrees ==
    ASSUME NEW F, NEW G, NEW D, IsFiniteSet(D), \A x \in D : F[x] \in Nat /\ F[x] = G[x]
    PROVE  Total(F, D) = Total(G, D) /\ Total(F, D) \in Nat
<1>1. PICK i : Sums(i, F, D) /\ i[D] = Total(F, D)
  BY IterSums
<1>2. PICK j : Sums(j, G, D) /\ j[D] = Total(G, D)
  BY IterSums
<1>3. i[D] = j[D]
  BY <1>1, <1>2, SumsAgree
<1>4. i[D] \in Nat
  BY <1>1 DEF Sums
<1>5. QED
  BY <1>1, <1>2, <1>3, <1>4

\* A number is taken out of a total.
LEMMA TotalWithout ==
    ASSUME NEW F, NEW D, IsFiniteSet(D), \A x \in D : F[x] \in Nat, NEW y \in D
    PROVE  Total(F, D) = F[y] + Total(F, D \ {y})
<1>0. IsFiniteSet(D \ {y}) /\ D \ {y} \in SUBSET D
  BY Smaller
<1>1. PICK i : Sums(i, F, D) /\ i[D] = Total(F, D)
  BY IterSums
<1>2. PICK j : Sums(j, F, D \ {y}) /\ j[D \ {y}] = Total(F, D \ {y})
  BY <1>0, IterSums
<1>3. i[D \ {y}] = j[D \ {y}]
  BY <1>0, <1>1, <1>2, SumsAgree
<1>4. i[D] = F[y] + i[D \ {y}]
  BY <1>1 DEF Sums
<1>5. QED
  BY <1>1, <1>2, <1>3, <1>4

\* One number in a total changes.
LEMMA TotalChanges ==
    ASSUME NEW F, NEW G, NEW D, IsFiniteSet(D), \A x \in D : F[x] \in Nat /\ G[x] \in Nat,
           NEW y \in D, \A x \in D \ {y} : F[x] = G[x]
    PROVE  /\ Total(F, D) \in Nat /\ Total(G, D) \in Nat
           /\ Total(G, D) - G[y] = Total(F, D) - F[y]
<1> DEFINE rest == Total(F, D \ {y})
<1>1. IsFiniteSet(D \ {y})
  BY Smaller
<1>2. rest = Total(G, D \ {y}) /\ rest \in Nat
  BY <1>1, TotalAgrees
<1>3. Total(F, D) = F[y] + rest /\ Total(G, D) = G[y] + Total(G, D \ {y})
  BY TotalWithout
<1> HIDE DEF rest
<1>4. QED
  BY <1>2, <1>3

----------------------------------------------------------------------------
(***************************************************************************)
(* A figure follows from the counters held and those of the machine, so    *)
(* the invariant says how the two differ, next to how much was done since: *)
(* never by more, and by exactly as much if nothing went back.             *)
(***************************************************************************)
Jiffies == busy + iowait + idle

\* Every counter there is grew one step at a time.
Counters ==
    /\ now \in 1..MaxNow /\ busy \in Nat /\ iowait \in Nat /\ idle \in Nat /\ Jiffies <= now
    /\ DOMAIN disk \subseteq Disks /\ \A d \in DOMAIN disk : disk[d] \in Nat
    /\ ops \in Nat /\ ops <= now /\ ReadDiskOps <= ops
    /\ DOMAIN link \subseteq Links /\ \A l \in DOMAIN link : link[l] \in Nat
    /\ net \in Nat /\ net <= now /\ ReadNetCounters <= net
    /\ DOMAIN proc \subseteq Procs /\ \A p \in DOMAIN proc : proc[p] \in Nat
    /\ boxWork \in [Boxes -> Nat]
    /\ \A c \in Boxes : boxWork[c] <= now /\ BoxJiffies(c) <= boxWork[c]
    /\ events \in 0..MaxEvents /\ faults \in 0..MaxFaults

CountersHeld ==
    /\ prev \in [cpu : [busy : Nat, iowait : Nat, total : Nat], net : Nat, disk : Nat, time : Nat]
    /\ mark \in [at : Nat, busy : Nat, waited : Nat, net : Nat]
    /\ resets \subseteq {"net", "iowait"}
    /\ prev.time = mark.at /\ mark.at <= now
    /\ prev.cpu.total <= prev.time
    /\ prev.cpu.busy = mark.busy /\ mark.busy <= busy
    /\ prev.cpu.total - prev.cpu.busy - prev.cpu.iowait <= idle
    /\ Jiffies - prev.cpu.total <= now - mark.at
    /\ mark.waited <= Waited /\ iowait - prev.cpu.iowait <= Waited - mark.waited
    /\ "iowait" \notin resets => /\ Jiffies - prev.cpu.total = now - mark.at
                                 /\ iowait - prev.cpu.iowait = Waited - mark.waited
    /\ prev.net <= net
    /\ mark.net <= net /\ ReadNetCounters - prev.net <= net - mark.net
    /\ "net" \notin resets => ReadNetCounters - prev.net = net - mark.net

\* The disk counters held are those of the last time they could be read.
DiskHeld ==
    /\ diskMark \in [ops : Nat, back : BOOLEAN]
    /\ prev.disk \in Nat /\ prev.disk <= ops
    /\ diskMark.ops <= ops /\ ReadDiskOps - prev.disk <= ops - diskMark.ops
    /\ ~diskMark.back => ReadDiskOps - prev.disk = ops - diskMark.ops

BoxesHeld ==
    /\ prevBox.total \in Nat /\ prevBox.total <= now
    /\ DOMAIN prevBox.jiffies \subseteq Boxes
    /\ boxMark \in [at : Nat, work : [Boxes -> Nat], steady : SUBSET Boxes]
    /\ boxMark.at <= prev.time
    /\ prevBox.total > 0 => Jiffies - prevBox.total <= now - boxMark.at
    /\ \A c \in Boxes : /\ boxMark.work[c] <= boxWork[c]
                        /\ boxWork[c] - boxMark.work[c] <= now - boxMark.at
    /\ \A c \in DOMAIN prevBox.jiffies :
         /\ prevBox.jiffies[c] \in Nat
         /\ BoxJiffies(c) - prevBox.jiffies[c] <= boxWork[c] - boxMark.work[c]
    /\ \A c \in boxMark.steady :
         /\ c \in DOMAIN prevBox.jiffies /\ prevBox.total > 0
         /\ Jiffies - prevBox.total = now - boxMark.at
         /\ BoxJiffies(c) - prevBox.jiffies[c] = boxWork[c] - boxMark.work[c]

MachineInv == Counters /\ CountersHeld /\ DiskHeld /\ BoxesHeld

LEMMA TotalGrows ==
    ASSUME NEW F, NEW G, NEW D, IsFiniteSet(D), NEW y,
           \A x \in D : F[x] \in Nat /\ G[x] = F[x] + IF x = y THEN 1 ELSE 0
    PROVE  /\ Total(F, D) \in Nat /\ Total(G, D) \in Nat
           /\ Total(G, D) = Total(F, D) + IF y \in D THEN 1 ELSE 0
<1>1. CASE y \in D
  <2>1. \A x \in D : F[x] \in Nat /\ G[x] \in Nat
    OBVIOUS
  <2>2. \A x \in D \ {y} : F[x] = G[x]
    OBVIOUS
  <2>3. /\ Total(F, D) \in Nat /\ Total(G, D) \in Nat
        /\ Total(G, D) - G[y] = Total(F, D) - F[y]
    BY <1>1, <2>1, <2>2, TotalChanges
  <2>4. F[y] \in Nat /\ G[y] = F[y] + 1
    BY <1>1
  <2>5. QED
    BY <1>1, <2>3, <2>4
<1>2. CASE y \notin D
  <2>1. \A x \in D : F[x] \in Nat /\ F[x] = G[x]
    BY <1>2
  <2>2. Total(F, D) = Total(G, D) /\ Total(F, D) \in Nat
    BY <2>1, TotalAgrees
  <2>3. QED
    BY <1>2, <2>2
<1>3. QED
  BY <1>1, <1>2

LEMMA TotalDrops ==
    ASSUME NEW F, NEW G, NEW D, IsFiniteSet(D), \A x \in D : F[x] \in Nat,
           NEW y \in D, \A x \in D \ {y} : F[x] = G[x]
    PROVE  /\ Total(F, D) \in Nat /\ Total(G, D \ {y}) \in Nat
           /\ Total(G, D \ {y}) <= Total(F, D)
<1>1. IsFiniteSet(D \ {y})
  BY Smaller
<1>2. Total(F, D \ {y}) = Total(G, D \ {y}) /\ Total(F, D \ {y}) \in Nat
  BY <1>1, TotalAgrees
<1>3. Total(F, D) = F[y] + Total(F, D \ {y}) /\ F[y] \in Nat
  BY TotalWithout
<1>4. QED
  BY <1>2, <1>3

LEMMA TotalJoined ==
    ASSUME NEW F, NEW G, NEW D, IsFiniteSet(D), \A x \in D : F[x] \in Nat,
           NEW y, y \notin D, G[y] = 0, \A x \in D : F[x] = G[x]
    PROVE  Total(F, D) \in Nat /\ Total(G, D \cup {y}) = Total(F, D)
<1> DEFINE E == D \cup {y}
<1>1. IsFiniteSet(E) /\ y \in E /\ E \ {y} = D
  BY FS_AddElement
<1>2. \A x \in E : G[x] \in Nat
  OBVIOUS
<1> HIDE DEF E
<1>3. Total(G, E) = G[y] + Total(G, D)
  BY <1>1, <1>2, TotalWithout
<1>4. Total(F, D) = Total(G, D) /\ Total(F, D) \in Nat
  BY TotalAgrees
<1>5. QED
  BY <1>3, <1>4 DEF E

----------------------------------------------------------------------------
(* What the machine's steps do to what is read. *)

LEMMA Read ==
    ASSUME Counters
    PROVE  /\ IsFiniteSet(DOMAIN link) /\ IsFiniteSet(DOMAIN disk) /\ IsFiniteSet(DOMAIN proc)
           /\ ReadNetCounters = Total(link, DOMAIN link) /\ ReadNetCounters \in Nat
           /\ ReadDiskOps = Total(disk, DOMAIN disk) /\ ReadDiskOps \in Nat
           /\ \A c : /\ BoxJiffies(c) = Total(proc, Living(c)) /\ BoxJiffies(c) \in Nat
                     /\ IsFiniteSet(Living(c)) /\ Living(c) \subseteq DOMAIN proc
<1>1. IsFiniteSet(DOMAIN link) /\ IsFiniteSet(DOMAIN disk) /\ IsFiniteSet(DOMAIN proc)
  BY MachineRatesAssumption, FS_Subset DEF Counters
<1>2. ReadNetCounters = Total(link, DOMAIN link) /\ ReadDiskOps = Total(disk, DOMAIN disk)
  BY DEF ReadNetCounters, ReadDiskOps, Sum, Total
<1>3. ReadNetCounters \in Nat /\ ReadDiskOps \in Nat
  <2>1. \A l \in DOMAIN link : link[l] \in Nat
    BY DEF Counters
  <2>2. \A d \in DOMAIN disk : disk[d] \in Nat
    BY DEF Counters
  <2>3. Total(link, DOMAIN link) \in Nat
    BY <1>1, <2>1, TotalAgrees
  <2>4. Total(disk, DOMAIN disk) \in Nat
    BY <1>1, <2>2, TotalAgrees
  <2>5. QED
    BY <1>2, <2>3, <2>4
<1>4. ASSUME NEW c
      PROVE  /\ BoxJiffies(c) = Total(proc, Living(c)) /\ BoxJiffies(c) \in Nat
             /\ IsFiniteSet(Living(c)) /\ Living(c) \subseteq DOMAIN proc
  <2>1. Living(c) \subseteq DOMAIN proc
    BY DEF Living
  <2>2. IsFiniteSet(Living(c))
    BY <1>1, <2>1, FS_Subset
  <2>3. BoxJiffies(c) = Total(proc, Living(c))
    BY DEF BoxJiffies, Total
  <2>4. \A p \in Living(c) : proc[p] \in Nat
    BY <2>1 DEF Counters
  <2>5. Total(proc, Living(c)) \in Nat
    BY <2>2, <2>4, TotalAgrees
  <2>6. QED
    BY <2>1, <2>2, <2>3, <2>5
<1>5. QED
  BY <1>1, <1>2, <1>3, <1>4

LEMMA ReadNext ==
    /\ ReadNetCounters' = Total(link', DOMAIN link')
    /\ ReadDiskOps' = Total(disk', DOMAIN disk')
    /\ \A c : BoxJiffies(c)' = Total(proc', Living(c)')
  BY DEF ReadNetCounters, ReadDiskOps, Sum, Total, BoxJiffies, MapThenSumSet, MapThenFoldSet

\* Nothing changes in what is read of the links, the devices or the processes.
LEMMA SameRead ==
    /\ link' = link => ReadNetCounters' = ReadNetCounters
    /\ disk' = disk => ReadDiskOps' = ReadDiskOps
    /\ proc' = proc => \A c : BoxJiffies(c)' = BoxJiffies(c) /\ Living(c)' = Living(c)
  BY DEF ReadNetCounters, ReadDiskOps, Sum, BoxJiffies, Living, MapThenSumSet, MapThenFoldSet

LEMMA ElapseReads ==
    ASSUME Counters, NEW on, NEW by, Elapse(on, by)
    PROVE  /\ ReadNetCounters' = ReadNetCounters + IF by \in DOMAIN link THEN 1 ELSE 0
           /\ ReadDiskOps' = ReadDiskOps + IF by \in DOMAIN disk THEN 1 ELSE 0
           /\ \A c : BoxJiffies(c)' = BoxJiffies(c) + IF on \in Living(c) THEN 1 ELSE 0
           /\ DOMAIN link' = DOMAIN link /\ \A l \in DOMAIN link : link'[l] \in Nat
           /\ DOMAIN disk' = DOMAIN disk /\ \A d \in DOMAIN disk : disk'[d] \in Nat
           /\ DOMAIN proc' = DOMAIN proc /\ \A p \in DOMAIN proc : proc'[p] \in Nat
<1>1. /\ DOMAIN link' = DOMAIN link
      /\ \A l \in DOMAIN link : link[l] \in Nat /\ link'[l] = link[l] + IF l = by THEN 1 ELSE 0
      /\ DOMAIN proc' = DOMAIN proc
      /\ \A p \in DOMAIN proc : proc[p] \in Nat /\ proc'[p] = proc[p] + IF p = on THEN 1 ELSE 0
  BY DEF Elapse, Counters
<1>d. /\ DOMAIN disk' = DOMAIN disk
      /\ \A d \in DOMAIN disk : disk[d] \in Nat /\ disk'[d] = disk[d] + IF d = by THEN 1 ELSE 0
  BY DEF Elapse, Counters
<1>2. ReadNetCounters' = ReadNetCounters + IF by \in DOMAIN link THEN 1 ELSE 0
  <2>1. Total(link', DOMAIN link) = Total(link, DOMAIN link) + IF by \in DOMAIN link THEN 1 ELSE 0
    <3>1. IsFiniteSet(DOMAIN link)
      BY Read
    <3>2. \A l \in DOMAIN link : link[l] \in Nat /\ link'[l] = link[l] + IF l = by THEN 1 ELSE 0
      BY <1>1
    <3>3. QED
      BY <3>1, <3>2, TotalGrows
  <2>2. QED
    BY <1>1, <2>1, Read, ReadNext
<1>e. ReadDiskOps' = ReadDiskOps + IF by \in DOMAIN disk THEN 1 ELSE 0
  <2>1. Total(disk', DOMAIN disk) = Total(disk, DOMAIN disk) + IF by \in DOMAIN disk THEN 1 ELSE 0
    BY <1>d, Read, TotalGrows
  <2>2. QED
    BY <1>d, <2>1, Read, ReadNext
<1>3. ASSUME NEW c PROVE BoxJiffies(c)' = BoxJiffies(c) + IF on \in Living(c) THEN 1 ELSE 0
  <2>1. Living(c)' = Living(c)
    BY <1>1 DEF Living
  <2>2. \A p \in Living(c) : proc[p] \in Nat /\ proc'[p] = proc[p] + IF p = on THEN 1 ELSE 0
    BY <1>1, Read
  <2>3. Total(proc', Living(c)) = Total(proc, Living(c)) + IF on \in Living(c) THEN 1 ELSE 0
    BY <2>2, Read, TotalGrows
  <2>4. BoxJiffies(c)' = Total(proc', Living(c)')
    BY ReadNext
  <2>5. QED
    BY <2>1, <2>3, <2>4, Read
<1>4. \A l \in DOMAIN link : link'[l] \in Nat
  BY <1>1
<1>5. \A p \in DOMAIN proc : proc'[p] \in Nat
  BY <1>1
<1>6. \A d \in DOMAIN disk : disk'[d] \in Nat
  BY <1>d
<1>7. QED
  BY <1>1, <1>2, <1>3, <1>4, <1>5, <1>6, <1>d, <1>e

LEMMA LinkReads ==
    ASSUME Counters, NEW l, LinkGoes(l) \/ LinkComes(l)
    PROVE  /\ ReadNetCounters' \in Nat /\ ReadNetCounters' <= ReadNetCounters
           /\ LinkComes(l) => ReadNetCounters' = ReadNetCounters
           /\ DOMAIN link' \subseteq DOMAIN link \cup {l}
           /\ \A k \in DOMAIN link' : link'[k] \in Nat
<1>0. ReadNetCounters \in Nat /\ ReadNetCounters = Total(link, DOMAIN link)
      /\ IsFiniteSet(DOMAIN link) /\ \A k \in DOMAIN link : link[k] \in Nat
  BY Read DEF Counters
<1>1. CASE LinkGoes(l)
  <2>1. /\ l \in DOMAIN link /\ DOMAIN link' = DOMAIN link \ {l}
        /\ \A k \in DOMAIN link \ {l} : link[k] = link'[k]
    BY <1>1 DEF LinkGoes
  <2>2. Total(link', DOMAIN link \ {l}) \in Nat
        /\ Total(link', DOMAIN link \ {l}) <= Total(link, DOMAIN link)
    BY <1>0, <2>1, TotalDrops
  <2>3. ReadNetCounters' \in Nat /\ ReadNetCounters' <= ReadNetCounters
    BY <1>0, <2>1, <2>2, ReadNext
  <2>4. ~LinkComes(l)
    BY <2>1 DEF LinkComes
  <2>5. QED
    BY <1>0, <2>1, <2>3, <2>4
<1>2. CASE LinkComes(l)
  <2>1. /\ l \notin DOMAIN link /\ DOMAIN link' = DOMAIN link \cup {l} /\ link'[l] = 0
        /\ \A k \in DOMAIN link : link[k] = link'[k]
    BY <1>2 DEF LinkComes
  <2>2. Total(link', DOMAIN link \cup {l}) = Total(link, DOMAIN link)
    BY <1>0, <2>1, TotalJoined
  <2>3. ReadNetCounters' = ReadNetCounters
    BY <1>0, <2>1, <2>2, ReadNext
  <2>4. \A k \in DOMAIN link' : link'[k] \in Nat
    BY <1>0, <2>1
  <2>5. QED
    BY <1>0, <2>1, <2>3, <2>4
<1>3. QED
  BY <1>1, <1>2

LEMMA DiskReads ==
    ASSUME Counters, NEW d, DiskGoes(d) \/ DiskComes(d)
    PROVE  /\ ReadDiskOps' \in Nat /\ ReadDiskOps' <= ReadDiskOps
           /\ DiskComes(d) => ReadDiskOps' = ReadDiskOps
           /\ DOMAIN disk' \subseteq DOMAIN disk \cup {d}
           /\ \A k \in DOMAIN disk' : disk'[k] \in Nat
<1>0. ReadDiskOps \in Nat /\ ReadDiskOps = Total(disk, DOMAIN disk)
      /\ IsFiniteSet(DOMAIN disk) /\ \A k \in DOMAIN disk : disk[k] \in Nat
  BY Read DEF Counters
<1>1. CASE DiskGoes(d)
  <2>1. /\ d \in DOMAIN disk /\ DOMAIN disk' = DOMAIN disk \ {d}
        /\ \A k \in DOMAIN disk \ {d} : disk[k] = disk'[k]
    BY <1>1 DEF DiskGoes
  <2>2. Total(disk', DOMAIN disk \ {d}) \in Nat
        /\ Total(disk', DOMAIN disk \ {d}) <= Total(disk, DOMAIN disk)
    BY <1>0, <2>1, TotalDrops
  <2>3. ReadDiskOps' \in Nat /\ ReadDiskOps' <= ReadDiskOps
    BY <1>0, <2>1, <2>2, ReadNext
  <2>4. ~DiskComes(d)
    BY <2>1 DEF DiskComes
  <2>5. QED
    BY <1>0, <2>1, <2>3, <2>4
<1>2. CASE DiskComes(d)
  <2>1. /\ d \notin DOMAIN disk /\ DOMAIN disk' = DOMAIN disk \cup {d} /\ disk'[d] = 0
        /\ \A k \in DOMAIN disk : disk[k] = disk'[k]
    BY <1>2 DEF DiskComes
  <2>2. Total(disk', DOMAIN disk \cup {d}) = Total(disk, DOMAIN disk)
    BY <1>0, <2>1, TotalJoined
  <2>3. ReadDiskOps' = ReadDiskOps
    BY <1>0, <2>1, <2>2, ReadNext
  <2>4. \A k \in DOMAIN disk' : disk'[k] \in Nat
    BY <1>0, <2>1
  <2>5. QED
    BY <1>0, <2>1, <2>3, <2>4
<1>3. QED
  BY <1>1, <1>2

LEMMA ProcReads ==
    ASSUME Counters, NEW p, ProcExits(p) \/ ProcStarts(p)
    PROVE  /\ \A c : /\ BoxJiffies(c)' \in Nat /\ BoxJiffies(c)' <= BoxJiffies(c)
                     /\ ProcStarts(p) \/ Home[p] /= c => BoxJiffies(c)' = BoxJiffies(c)
           /\ DOMAIN proc' \subseteq DOMAIN proc \cup {p}
           /\ \A q \in DOMAIN proc' : proc'[q] \in Nat
<1>0. \A q \in DOMAIN proc : proc[q] \in Nat
  BY DEF Counters
<1>a. \A c : /\ BoxJiffies(c) = Total(proc, Living(c)) /\ BoxJiffies(c) \in Nat
             /\ IsFiniteSet(Living(c)) /\ \A q \in Living(c) : proc[q] \in Nat
             /\ BoxJiffies(c)' = Total(proc', Living(c)')
  BY <1>0, Read, ReadNext
<1>1. CASE ProcExits(p)
  <2>1. /\ p \in DOMAIN proc /\ DOMAIN proc' = DOMAIN proc \ {p}
        /\ \A q \in DOMAIN proc \ {p} : proc[q] = proc'[q]
    BY <1>1 DEF ProcExits
  <2>2. ASSUME NEW c
        PROVE  /\ BoxJiffies(c)' \in Nat /\ BoxJiffies(c)' <= BoxJiffies(c)
               /\ Home[p] /= c => BoxJiffies(c)' = BoxJiffies(c)
    <3>1. CASE Home[p] = c
      <4>1. p \in Living(c) /\ Living(c)' = Living(c) \ {p}
        BY <2>1, <3>1 DEF Living
      <4>2. \A q \in Living(c) \ {p} : proc[q] = proc'[q]
        BY <2>1 DEF Living
      <4>3. Total(proc', Living(c) \ {p}) \in Nat
            /\ Total(proc', Living(c) \ {p}) <= Total(proc, Living(c))
        BY <1>a, <4>1, <4>2, TotalDrops
      <4>4. QED
        BY <1>a, <3>1, <4>1, <4>3
    <3>2. CASE Home[p] /= c
      <4>1. Living(c)' = Living(c) /\ \A q \in Living(c) : proc[q] = proc'[q]
        BY <2>1, <3>2 DEF Living
      <4>2. Total(proc, Living(c)) = Total(proc', Living(c))
        BY <1>a, <4>1, TotalAgrees
      <4>3. BoxJiffies(c)' = BoxJiffies(c) /\ BoxJiffies(c) \in Nat
        BY <1>a, <4>1, <4>2
      <4>4. QED
        BY <4>3
    <3>3. QED
      BY <3>1, <3>2
  <2>3. ~ProcStarts(p)
    BY <2>1 DEF ProcStarts
  <2>4. \A q \in DOMAIN proc' : proc'[q] \in Nat
    BY <1>0, <2>1
  <2>5. QED
    BY <2>1, <2>2, <2>3, <2>4
<1>2. CASE ProcStarts(p)
  <2>1. /\ p \notin DOMAIN proc /\ DOMAIN proc' = DOMAIN proc \cup {p} /\ proc'[p] = 0
        /\ \A q \in DOMAIN proc : proc[q] = proc'[q]
    BY <1>2 DEF ProcStarts
  <2>2. ASSUME NEW c PROVE BoxJiffies(c)' = BoxJiffies(c)
    <3>1. p \notin Living(c) /\ \A q \in Living(c) : proc[q] = proc'[q]
      BY <2>1 DEF Living
    <3>2. CASE Home[p] = c
      <4>1. Living(c)' = Living(c) \cup {p}
        BY <2>1, <3>2 DEF Living
      <4>2. Total(proc', Living(c) \cup {p}) = Total(proc, Living(c))
        BY <1>a, <2>1, <3>1, TotalJoined
      <4>3. QED
        BY <1>a, <4>1, <4>2
    <3>3. CASE Home[p] /= c
      <4>1. Living(c)' = Living(c)
        BY <2>1, <3>3 DEF Living
      <4>2. Total(proc, Living(c)) = Total(proc', Living(c))
        BY <1>a, <3>1, TotalAgrees
      <4>3. QED
        BY <1>a, <4>1, <4>2
    <3>4. QED
      BY <3>2, <3>3
  <2>3. \A q \in DOMAIN proc' : proc'[q] \in Nat
    BY <1>0, <2>1
  <2>4. \A c : BoxJiffies(c)' \in Nat /\ BoxJiffies(c)' <= BoxJiffies(c)
    BY <1>a, <2>2
  <2>5. QED
    BY <2>1, <2>2, <2>3, <2>4
<1>3. QED
  BY <1>1, <1>2

----------------------------------------------------------------------------
(* The machine moves on. *)

\* The numbers held.
LEMMA HeldNumbers ==
    ASSUME MachineInv
    PROVE  /\ now \in Nat /\ busy \in Nat /\ iowait \in Nat /\ idle \in Nat
           /\ net \in Nat /\ ReadNetCounters \in Nat /\ ops \in Nat /\ ReadDiskOps \in Nat
           /\ prev.cpu.total \in Nat /\ prev.cpu.busy \in Nat /\ prev.cpu.iowait \in Nat
           /\ prev.net \in Nat /\ prev.disk \in Nat /\ prev.time \in Nat
           /\ mark.at \in Nat /\ mark.busy \in Nat /\ mark.waited \in Nat /\ mark.net \in Nat
           /\ diskMark.ops \in Nat /\ Waited \in Int
           /\ prevBox.total \in Nat /\ boxMark.at \in Nat
           /\ boxMark.work \in [Boxes -> Nat] /\ boxMark.steady \in SUBSET Boxes
           /\ \A c \in Boxes : boxWork[c] \in Nat /\ boxMark.work[c] \in Nat
           /\ \A c : BoxJiffies(c) \in Nat
           /\ \A c \in DOMAIN prevBox.jiffies : prevBox.jiffies[c] \in Nat /\ c \in Boxes
<1>1. ReadNetCounters \in Nat /\ ReadDiskOps \in Nat /\ \A c : BoxJiffies(c) \in Nat
  BY Read DEF MachineInv
<1>2. /\ now \in Nat /\ busy \in Nat /\ iowait \in Nat /\ idle \in Nat /\ ops \in Nat
      /\ net \in Nat /\ boxWork \in [Boxes -> Nat] /\ Waited \in Int
  BY DEF MachineInv, Counters, Waited
<1>3. /\ prev.cpu \in [busy : Nat, iowait : Nat, total : Nat]
      /\ prev.net \in Nat /\ prev.disk \in Nat /\ prev.time \in Nat
      /\ mark.at \in Nat /\ mark.busy \in Nat /\ mark.waited \in Nat /\ mark.net \in Nat
      /\ diskMark.ops \in Nat
  BY DEF MachineInv, CountersHeld, DiskHeld
<1>4. /\ prevBox.total \in Nat /\ boxMark.at \in Nat
      /\ boxMark.work \in [Boxes -> Nat] /\ boxMark.steady \in SUBSET Boxes
      /\ \A c \in DOMAIN prevBox.jiffies : prevBox.jiffies[c] \in Nat /\ c \in Boxes
  BY DEF MachineInv, BoxesHeld
<1>5. QED
  BY <1>1, <1>2, <1>3, <1>4

\* One jiffy is somebody's.
LEMMA OneJiffy ==
    ASSUME Counters, NEW on \in DOMAIN proc \cup {"idle", "iowait"},
           NEW by, Elapse(on, by)
    PROVE  /\ now' = now + 1 /\ now < MaxNow
           /\ \/ busy' = busy + 1 /\ iowait' = iowait /\ idle' = idle
              \/ busy' = busy /\ iowait' = iowait + 1 /\ idle' = idle
              \/ busy' = busy /\ iowait' = iowait /\ idle' = idle + 1
           /\ \/ net' = net + 1 /\ ReadNetCounters' = ReadNetCounters + 1
              \/ net' = net /\ ReadNetCounters' = ReadNetCounters
           /\ \/ ops' = ops + 1 /\ ReadDiskOps' = ReadDiskOps + 1
              \/ ops' = ops /\ ReadDiskOps' = ReadDiskOps
           /\ boxWork' \in [Boxes -> Nat]
           /\ \A c \in Boxes :
                \/ boxWork'[c] = boxWork[c] + 1 /\ BoxJiffies(c)' = BoxJiffies(c) + 1
                \/ boxWork'[c] = boxWork[c] /\ BoxJiffies(c)' = BoxJiffies(c)
           /\ UNCHANGED <<prev, prevBox, report, mark, boxMark, diskMark, resets, events, faults>>
<1>0. /\ now \in Nat /\ busy \in Nat /\ iowait \in Nat /\ idle \in Nat /\ ops \in Nat
      /\ net \in Nat /\ ReadNetCounters \in Nat /\ ReadDiskOps \in Nat /\ DOMAIN proc \subseteq Procs
      /\ boxWork \in [Boxes -> Nat] /\ \A c : BoxJiffies(c) \in Nat
  BY Read DEF Counters
<1>1. /\ ReadNetCounters' = ReadNetCounters + IF by \in DOMAIN link THEN 1 ELSE 0
      /\ ReadDiskOps' = ReadDiskOps + IF by \in DOMAIN disk THEN 1 ELSE 0
      /\ \A c : BoxJiffies(c)' = BoxJiffies(c) + IF on \in Living(c) THEN 1 ELSE 0
  BY ElapseReads
<1>2. /\ now' = now + 1 /\ now < MaxNow
      /\ busy' = busy + IF on \in DOMAIN proc THEN 1 ELSE 0
      /\ iowait' = iowait + IF on = "iowait" THEN 1 ELSE 0
      /\ idle' = idle + IF on = "idle" THEN 1 ELSE 0
      /\ net' = net + IF by \in DOMAIN link THEN 1 ELSE 0
      /\ ops' = ops + IF by \in DOMAIN disk THEN 1 ELSE 0
      /\ boxWork' = [c \in Boxes |->
                       boxWork[c] + IF on \in DOMAIN proc /\ Home[on] = c THEN 1 ELSE 0]
      /\ UNCHANGED <<prev, prevBox, report, mark, boxMark, diskMark, resets, events, faults>>
  BY DEF Elapse, kept, markVars
<1>3. \/ busy' = busy + 1 /\ iowait' = iowait /\ idle' = idle
      \/ busy' = busy /\ iowait' = iowait + 1 /\ idle' = idle
      \/ busy' = busy /\ iowait' = iowait /\ idle' = idle + 1
  <2>1. "idle" \notin DOMAIN proc /\ "iowait" \notin DOMAIN proc
    BY <1>0, MachineRatesAssumption
  <2>2. CASE on \in DOMAIN proc
    <3>1. on /= "idle" /\ on /= "iowait"
      BY <2>1, <2>2
    <3>2. QED
      BY <1>0, <1>2, <2>2, <3>1
  <2>3. CASE on = "idle"
    BY <1>0, <1>2, <2>1, <2>3
  <2>4. CASE on = "iowait"
    BY <1>0, <1>2, <2>1, <2>4
  <2>5. QED
    BY <2>2, <2>3, <2>4
<1>4. \/ net' = net + 1 /\ ReadNetCounters' = ReadNetCounters + 1
      \/ net' = net /\ ReadNetCounters' = ReadNetCounters
  BY <1>0, <1>1, <1>2
<1>5. ASSUME NEW c \in Boxes
      PROVE  \/ boxWork'[c] = boxWork[c] + 1 /\ BoxJiffies(c)' = BoxJiffies(c) + 1
             \/ boxWork'[c] = boxWork[c] /\ BoxJiffies(c)' = BoxJiffies(c)
  <2>1. boxWork[c] \in Nat /\ BoxJiffies(c) \in Nat
    BY <1>0
  <2>2. boxWork'[c] = boxWork[c] + IF on \in DOMAIN proc /\ Home[on] = c THEN 1 ELSE 0
    BY <1>2
  <2>3. on \in Living(c) <=> on \in DOMAIN proc /\ Home[on] = c
    BY DEF Living
  <2>4. QED
    BY <1>1, <2>1, <2>2, <2>3
<1>6. boxWork' \in [Boxes -> Nat]
  <2>1. \A c \in Boxes : boxWork[c] + (IF on \in DOMAIN proc /\ Home[on] = c THEN 1 ELSE 0) \in Nat
    BY <1>0
  <2>2. QED
    BY <1>2, <2>1
<1>7. \/ ops' = ops + 1 /\ ReadDiskOps' = ReadDiskOps + 1
      \/ ops' = ops /\ ReadDiskOps' = ReadDiskOps
  BY <1>0, <1>1, <1>2
<1>8. QED
  BY <1>2, <1>3, <1>4, <1>5, <1>6, <1>7

LEMMA ElapseKeeps ==
    ASSUME MachineInv, NEW on \in DOMAIN proc \cup {"idle", "iowait"},
           NEW by, Elapse(on, by)
    PROVE  MachineInv'
<1>0. Counters /\ CountersHeld /\ DiskHeld /\ BoxesHeld
  BY DEF MachineInv
<1>1. /\ now' = now + 1 /\ now < MaxNow
      /\ \/ busy' = busy + 1 /\ iowait' = iowait /\ idle' = idle
         \/ busy' = busy /\ iowait' = iowait + 1 /\ idle' = idle
         \/ busy' = busy /\ iowait' = iowait /\ idle' = idle + 1
      /\ \/ net' = net + 1 /\ ReadNetCounters' = ReadNetCounters + 1
         \/ net' = net /\ ReadNetCounters' = ReadNetCounters
      /\ \/ ops' = ops + 1 /\ ReadDiskOps' = ReadDiskOps + 1
         \/ ops' = ops /\ ReadDiskOps' = ReadDiskOps
      /\ boxWork' \in [Boxes -> Nat]
      /\ \A c \in Boxes :
           \/ boxWork'[c] = boxWork[c] + 1 /\ BoxJiffies(c)' = BoxJiffies(c) + 1
           \/ boxWork'[c] = boxWork[c] /\ BoxJiffies(c)' = BoxJiffies(c)
      /\ UNCHANGED <<prev, prevBox, report, mark, boxMark, diskMark, resets, events, faults>>
  BY <1>0, OneJiffy
<1>2. /\ now \in Nat /\ busy \in Nat /\ iowait \in Nat /\ idle \in Nat /\ ops \in Nat
      /\ net \in Nat /\ ReadNetCounters \in Nat /\ ReadDiskOps \in Nat
      /\ prev.cpu.total \in Nat /\ prev.cpu.busy \in Nat /\ prev.cpu.iowait \in Nat
      /\ prev.net \in Nat /\ prev.disk \in Nat /\ prev.time \in Nat
      /\ mark.at \in Nat /\ mark.busy \in Nat /\ mark.waited \in Nat /\ mark.net \in Nat
      /\ diskMark.ops \in Nat /\ Waited \in Int /\ prevBox.total \in Nat /\ boxMark.at \in Nat
      /\ \A c \in Boxes : boxWork[c] \in Nat /\ boxMark.work[c] \in Nat
      /\ \A c : BoxJiffies(c) \in Nat
      /\ \A c \in DOMAIN prevBox.jiffies : prevBox.jiffies[c] \in Nat /\ c \in Boxes
      /\ MaxNow \in Nat
  BY HeldNumbers, MachineRatesAssumption
<1>3. /\ Jiffies \in Nat /\ Jiffies' = Jiffies + 1
      /\ \/ iowait' = iowait + 1 /\ Waited' = Waited + 1
         \/ iowait' = iowait /\ Waited' = Waited
  BY <1>1, <1>2 DEF Jiffies, Waited
<1>4. Counters'
  <2>1. now' \in 1..MaxNow /\ Jiffies' <= now'
        /\ ops' \in Nat /\ ops' <= now' /\ ReadDiskOps' <= ops'
        /\ net' \in Nat /\ net' <= now' /\ ReadNetCounters' <= net'
        /\ busy' \in Nat /\ iowait' \in Nat /\ idle' \in Nat
    BY <1>0, <1>1, <1>2, <1>3 DEF Counters
  <2>2. ASSUME NEW c \in Boxes PROVE boxWork'[c] <= now' /\ BoxJiffies(c)' <= boxWork'[c]
    <3>1. boxWork[c] <= now /\ BoxJiffies(c) <= boxWork[c]
      BY <1>0 DEF Counters
    <3>2. QED
      BY <1>1, <1>2, <3>1
  <2>3. /\ DOMAIN link' \subseteq Links /\ \A l \in DOMAIN link' : link'[l] \in Nat
        /\ DOMAIN disk' \subseteq Disks /\ \A d \in DOMAIN disk' : disk'[d] \in Nat
        /\ DOMAIN proc' \subseteq Procs /\ \A p \in DOMAIN proc' : proc'[p] \in Nat
    BY <1>0, ElapseReads DEF Counters
  <2>4. events' \in 0..MaxEvents /\ faults' \in 0..MaxFaults
    BY <1>0, <1>1 DEF Counters
  <2>5. QED
    BY <1>1, <2>1, <2>2, <2>3, <2>4 DEF Counters
<1>5. CountersHeld'
  <2>1. /\ mark.at <= now' /\ mark.busy <= busy'
        /\ prev.cpu.total - prev.cpu.busy - prev.cpu.iowait <= idle'
        /\ mark.net <= net' /\ prev.net <= net'
    BY <1>0, <1>1, <1>2 DEF CountersHeld
  <2>2. ReadNetCounters' - prev.net <= net' - mark.net
    BY <1>0, <1>1, <1>2 DEF CountersHeld
  <2>3. "net" \notin resets => ReadNetCounters' - prev.net = net' - mark.net
    BY <1>0, <1>1, <1>2 DEF CountersHeld
  <2>4. /\ Jiffies' - prev.cpu.total <= now' - mark.at
        /\ "iowait" \notin resets => Jiffies' - prev.cpu.total = now' - mark.at
    BY <1>0, <1>1, <1>2, <1>3 DEF CountersHeld
  <2>5. /\ mark.waited <= Waited' /\ iowait' - prev.cpu.iowait <= Waited' - mark.waited
        /\ "iowait" \notin resets => iowait' - prev.cpu.iowait = Waited' - mark.waited
    BY <1>0, <1>2, <1>3 DEF CountersHeld
  <2>6. QED
    BY <1>0, <1>1, <2>1, <2>2, <2>3, <2>4, <2>5 DEF CountersHeld
<1>d. DiskHeld'
  BY <1>0, <1>1, <1>2 DEF DiskHeld
<1>6. BoxesHeld'
  <2>1. prevBox.total <= now' /\ (prevBox.total > 0 => Jiffies' - prevBox.total <= now' - boxMark.at)
    BY <1>0, <1>1, <1>2, <1>3 DEF BoxesHeld
  <2>2. ASSUME NEW c \in Boxes
        PROVE  /\ boxMark.work[c] <= boxWork'[c]
               /\ boxWork'[c] - boxMark.work[c] <= now' - boxMark.at
    <3>1. boxMark.work[c] <= boxWork[c] /\ boxWork[c] - boxMark.work[c] <= now - boxMark.at
      BY <1>0 DEF BoxesHeld
    <3>2. QED
      BY <1>1, <1>2, <3>1
  <2>3. ASSUME NEW c \in DOMAIN prevBox.jiffies
        PROVE  BoxJiffies(c)' - prevBox.jiffies[c] <= boxWork'[c] - boxMark.work[c]
    <3>1. BoxJiffies(c) - prevBox.jiffies[c] <= boxWork[c] - boxMark.work[c] /\ c \in Boxes
      BY <1>0, <1>2 DEF BoxesHeld
    <3>2. QED
      BY <1>1, <1>2, <3>1
  <2>4. ASSUME NEW c \in boxMark.steady
        PROVE  /\ Jiffies' - prevBox.total = now' - boxMark.at
               /\ BoxJiffies(c)' - prevBox.jiffies[c] = boxWork'[c] - boxMark.work[c]
    <3>1. /\ BoxJiffies(c) - prevBox.jiffies[c] = boxWork[c] - boxMark.work[c] /\ c \in Boxes
          /\ c \in DOMAIN prevBox.jiffies /\ Jiffies - prevBox.total = now - boxMark.at
      BY <1>0, <1>2 DEF BoxesHeld
    <3>2. Jiffies' - prevBox.total = now' - boxMark.at
      BY <1>1, <1>2, <1>3, <3>1
    <3>3. QED
      BY <1>1, <1>2, <3>1, <3>2
  <2>5. QED
    BY <1>0, <1>1, <2>1, <2>2, <2>3, <2>4 DEF BoxesHeld
<1>7. QED
  BY <1>4, <1>5, <1>6, <1>d DEF MachineInv

----------------------------------------------------------------------------
(* Interfaces, devices and processes come and go. *)

LEMMA EventCounts ==
    ASSUME Counters, Event PROVE events' \in 0..MaxEvents
  BY MachineRatesAssumption DEF Counters, Event

LEMMA FaultCounts ==
    ASSUME Counters, Fault PROVE faults' \in 0..MaxFaults
  BY MachineRatesAssumption DEF Counters, Fault

LEMMA LinkKeeps ==
    ASSUME MachineInv, NEW l \in Links, LinkGoes(l) \/ LinkComes(l)
    PROVE  MachineInv'
<1>0. Counters /\ CountersHeld /\ DiskHeld /\ BoxesHeld
  BY DEF MachineInv
<1>1. /\ UNCHANGED <<prev, prevBox, now, busy, iowait, idle, disk, proc, net, ops, boxWork, mark,
                     boxMark, diskMark, faults>>
      /\ Event
      /\ resets' = IF LinkComes(l) THEN resets ELSE resets \cup {"net"}
  BY DEF LinkGoes, LinkComes, kept, truthVars, markVars
<1>2. /\ ReadNetCounters' \in Nat /\ ReadNetCounters' <= ReadNetCounters
      /\ LinkComes(l) => ReadNetCounters' = ReadNetCounters
      /\ DOMAIN link' \subseteq DOMAIN link \cup {l}
      /\ \A k \in DOMAIN link' : link'[k] \in Nat
  BY <1>0, LinkReads
<1>3. ReadDiskOps' = ReadDiskOps /\ \A c : BoxJiffies(c)' = BoxJiffies(c)
  BY <1>1, SameRead
<1>4. Jiffies' = Jiffies /\ Waited' = Waited
  BY <1>1 DEF Jiffies, Waited
<1>5. /\ net \in Nat /\ ReadNetCounters \in Nat /\ prev.net \in Nat /\ mark.net \in Nat
  BY HeldNumbers
<1>6. Counters'
  <2>1. ReadNetCounters' <= net
    BY <1>0, <1>2, <1>5 DEF Counters
  <2>2. DOMAIN link' \subseteq Links
    BY <1>0, <1>2 DEF Counters
  <2>3. events' \in 0..MaxEvents
    BY <1>0, <1>1, EventCounts
  <2>4. QED
    BY <1>0, <1>1, <1>2, <1>3, <1>4, <2>1, <2>2, <2>3 DEF Counters
<1>7. CountersHeld'
  <2>1. ReadNetCounters' - prev.net <= net - mark.net
    BY <1>0, <1>2, <1>5 DEF CountersHeld
  <2>2. "net" \notin resets' => ReadNetCounters' - prev.net = net - mark.net
    <3>1. CASE LinkComes(l)
      BY <1>0, <1>1, <1>2, <3>1 DEF CountersHeld
    <3>2. CASE ~LinkComes(l)
      BY <1>1, <3>2
    <3>3. QED
      BY <3>1, <3>2
  <2>3. resets' \subseteq {"net", "iowait"} /\ ("iowait" \notin resets' => "iowait" \notin resets)
    BY <1>0, <1>1 DEF CountersHeld
  <2>4. QED
    BY <1>0, <1>1, <1>4, <2>1, <2>2, <2>3 DEF CountersHeld
<1>8. BoxesHeld'
  BY <1>0, <1>1, <1>3, <1>4 DEF BoxesHeld
<1>9. DiskHeld'
  BY <1>0, <1>1, <1>3 DEF DiskHeld
<1>10. QED
  BY <1>6, <1>7, <1>8, <1>9 DEF MachineInv

LEMMA DiskKeeps ==
    ASSUME MachineInv, NEW d \in Disks, DiskGoes(d) \/ DiskComes(d)
    PROVE  MachineInv'
<1>0. Counters /\ CountersHeld /\ DiskHeld /\ BoxesHeld
  BY DEF MachineInv
<1>1. /\ UNCHANGED <<prev, prevBox, now, busy, iowait, idle, link, proc, net, ops, boxWork, mark,
                     boxMark, resets, faults>>
      /\ Event
      /\ diskMark' = IF DiskComes(d) THEN diskMark ELSE [diskMark EXCEPT !.back = TRUE]
  BY DEF DiskGoes, DiskComes, kept, truthVars, markVars
<1>2. /\ ReadDiskOps' \in Nat /\ ReadDiskOps' <= ReadDiskOps
      /\ DiskComes(d) => ReadDiskOps' = ReadDiskOps
      /\ DOMAIN disk' \subseteq DOMAIN disk \cup {d}
      /\ \A k \in DOMAIN disk' : disk'[k] \in Nat
  BY <1>0, DiskReads
<1>3. ReadNetCounters' = ReadNetCounters /\ \A c : BoxJiffies(c)' = BoxJiffies(c)
  BY <1>1, SameRead
<1>4. Jiffies' = Jiffies /\ Waited' = Waited
  BY <1>1 DEF Jiffies, Waited
<1>5. ops \in Nat /\ ReadDiskOps \in Nat /\ prev.disk \in Nat /\ diskMark.ops \in Nat
  BY HeldNumbers
<1>6. Counters'
  <2>1. ReadDiskOps' <= ops
    BY <1>0, <1>2, <1>5 DEF Counters
  <2>2. DOMAIN disk' \subseteq Disks
    BY <1>0, <1>2 DEF Counters
  <2>3. events' \in 0..MaxEvents
    BY <1>0, <1>1, EventCounts
  <2>4. QED
    BY <1>0, <1>1, <1>2, <1>3, <1>4, <2>1, <2>2, <2>3 DEF Counters
<1>7. CountersHeld'
  BY <1>0, <1>1, <1>3, <1>4 DEF CountersHeld
<1>8. DiskHeld'
  <2>1. ReadDiskOps' - prev.disk <= ops - diskMark.ops
    BY <1>0, <1>2, <1>5 DEF DiskHeld
  <2>2. CASE DiskComes(d)
    BY <1>0, <1>1, <1>2, <2>2 DEF DiskHeld
  <2>3. CASE ~DiskComes(d)
    <3>1. /\ diskMark' \in [ops : Nat, back : BOOLEAN]
          /\ diskMark'.ops = diskMark.ops /\ diskMark'.back
      BY <1>0, <1>1, <2>3 DEF DiskHeld
    <3>2. QED
      BY <1>0, <1>1, <2>1, <3>1 DEF DiskHeld
  <2>4. QED
    BY <2>2, <2>3
<1>9. BoxesHeld'
  BY <1>0, <1>1, <1>3, <1>4 DEF BoxesHeld
<1>10. QED
  BY <1>6, <1>7, <1>8, <1>9 DEF MachineInv

LEMMA ProcKeeps ==
    ASSUME MachineInv, NEW p \in Procs, ProcExits(p) \/ ProcStarts(p)
    PROVE  MachineInv'
<1>0. Counters /\ CountersHeld /\ DiskHeld /\ BoxesHeld
  BY DEF MachineInv
<1>1. /\ UNCHANGED <<prev, prevBox, now, busy, iowait, idle, disk, link, net, ops, boxWork, mark,
                     diskMark, resets, faults>>
      /\ Event
  BY DEF ProcExits, ProcStarts, kept, truthVars, markVars
<1>2. /\ \A c : /\ BoxJiffies(c)' \in Nat /\ BoxJiffies(c)' <= BoxJiffies(c)
                /\ ProcStarts(p) \/ Home[p] /= c => BoxJiffies(c)' = BoxJiffies(c)
      /\ DOMAIN proc' \subseteq DOMAIN proc \cup {p}
      /\ \A q \in DOMAIN proc' : proc'[q] \in Nat
  BY <1>0, ProcReads
<1>3. ReadNetCounters' = ReadNetCounters /\ ReadDiskOps' = ReadDiskOps
  BY <1>1, SameRead
<1>4. Jiffies' = Jiffies /\ Waited' = Waited
  BY <1>1 DEF Jiffies, Waited
<1>5. /\ boxMark'.at = boxMark.at /\ boxMark'.work = boxMark.work
      /\ boxMark'.steady \subseteq boxMark.steady
      /\ boxMark' \in [at : Nat, work : [Boxes -> Nat], steady : SUBSET Boxes]
      /\ ProcStarts(p) \/ Home[p] \notin boxMark'.steady
  <2>1. boxMark \in [at : Nat, work : [Boxes -> Nat], steady : SUBSET Boxes]
    BY <1>0 DEF BoxesHeld
  <2>2. CASE ProcExits(p)
    BY <2>1, <2>2 DEF ProcExits
  <2>3. CASE ProcStarts(p)
    BY <2>1, <2>3 DEF ProcStarts, markVars
  <2>4. QED
    BY <2>2, <2>3
<1>6. Counters'
  <2>1. \A c \in Boxes : BoxJiffies(c)' <= boxWork[c]
    <3>1. \A c \in Boxes : BoxJiffies(c) <= boxWork[c] /\ BoxJiffies(c) \in Nat /\ boxWork[c] \in Nat
      BY <1>0, HeldNumbers DEF Counters
    <3>2. QED
      BY <1>2, <3>1
  <2>2. DOMAIN proc' \subseteq Procs
    BY <1>0, <1>2 DEF Counters
  <2>3. events' \in 0..MaxEvents
    BY <1>0, <1>1, EventCounts
  <2>4. QED
    BY <1>0, <1>1, <1>2, <1>3, <1>4, <2>1, <2>2, <2>3 DEF Counters
<1>7. CountersHeld'
  BY <1>0, <1>1, <1>3, <1>4 DEF CountersHeld
<1>8. BoxesHeld'
  <2>1. ASSUME NEW c \in DOMAIN prevBox.jiffies
        PROVE  BoxJiffies(c)' - prevBox.jiffies[c] <= boxWork[c] - boxMark.work[c]
    <3>1. /\ BoxJiffies(c) - prevBox.jiffies[c] <= boxWork[c] - boxMark.work[c]
          /\ c \in Boxes /\ prevBox.jiffies[c] \in Nat
      BY <1>0 DEF BoxesHeld
    <3>2. BoxJiffies(c) \in Nat /\ boxWork[c] \in Nat /\ boxMark.work[c] \in Nat
      BY <3>1, HeldNumbers
    <3>3. QED
      BY <1>2, <3>1, <3>2
  <2>2. ASSUME NEW c \in boxMark'.steady
        PROVE  /\ c \in boxMark.steady /\ BoxJiffies(c)' = BoxJiffies(c)
    BY <1>2, <1>5
  <2>3. QED
    BY <1>0, <1>1, <1>4, <1>5, <2>1, <2>2 DEF BoxesHeld
<1>9. DiskHeld'
  BY <1>0, <1>1, <1>3 DEF DiskHeld
<1>10. QED
  BY <1>6, <1>7, <1>8, <1>9 DEF MachineInv

LEMMA IowaitKeeps ==
    ASSUME MachineInv, IowaitBack
    PROVE  MachineInv'
<1>0. Counters /\ CountersHeld /\ DiskHeld /\ BoxesHeld
  BY DEF MachineInv
<1>1. /\ UNCHANGED <<prev, prevBox, now, busy, idle, link, disk, proc, net, ops, boxWork, mark,
                     diskMark, faults>>
      /\ Event /\ iowait > 0 /\ iowait' = iowait - 1 /\ resets' = resets \cup {"iowait"}
      /\ boxMark' = [boxMark EXCEPT !.steady = {}]
  BY DEF IowaitBack, kept, truthVars
<1>2. ReadNetCounters' = ReadNetCounters /\ ReadDiskOps' = ReadDiskOps /\ \A c : BoxJiffies(c)' = BoxJiffies(c)
  BY <1>1, SameRead
<1>3. /\ now \in Nat /\ busy \in Nat /\ iowait \in Nat /\ idle \in Nat
      /\ prevBox.total \in Nat /\ boxMark.at \in Nat /\ prev.cpu.total \in Nat
      /\ prev.cpu.iowait \in Nat /\ mark.at \in Nat /\ mark.waited \in Nat /\ Waited \in Int
  BY HeldNumbers
<1>4. Jiffies' = Jiffies - 1 /\ iowait' \in Nat /\ Jiffies \in Nat /\ Waited' = Waited
  BY <1>1, <1>3 DEF Jiffies, Waited
<1>5. /\ boxMark'.at = boxMark.at /\ boxMark'.work = boxMark.work /\ boxMark'.steady = {}
      /\ boxMark' \in [at : Nat, work : [Boxes -> Nat], steady : SUBSET Boxes]
  <2>1. boxMark \in [at : Nat, work : [Boxes -> Nat], steady : SUBSET Boxes]
    BY <1>0 DEF BoxesHeld
  <2>2. QED
    BY <1>1, <2>1
<1>6. Counters'
  <2>1. Jiffies' <= now
    BY <1>0, <1>3, <1>4 DEF Counters
  <2>2. events' \in 0..MaxEvents
    BY <1>0, <1>1, EventCounts
  <2>3. QED
    BY <1>0, <1>1, <1>2, <1>4, <2>1, <2>2 DEF Counters
<1>7. CountersHeld'
  <2>1. resets' \subseteq {"net", "iowait"} /\ "iowait" \in resets'
        /\ ("net" \notin resets' => "net" \notin resets)
    BY <1>0, <1>1 DEF CountersHeld
  <2>2. /\ Jiffies' - prev.cpu.total <= now - mark.at
        /\ iowait' - prev.cpu.iowait <= Waited - mark.waited
    BY <1>0, <1>1, <1>3, <1>4 DEF CountersHeld
  <2>3. QED
    BY <1>0, <1>1, <1>2, <1>4, <2>1, <2>2 DEF CountersHeld
<1>8. BoxesHeld'
  <2>1. prevBox.total > 0 => Jiffies' - prevBox.total <= now - boxMark.at
    BY <1>0, <1>3, <1>4 DEF BoxesHeld
  <2>2. QED
    BY <1>0, <1>1, <1>2, <1>5, <2>1 DEF BoxesHeld
<1>9. DiskHeld'
  BY <1>0, <1>1, <1>2 DEF DiskHeld
<1>10. QED
  BY <1>6, <1>7, <1>8, <1>9 DEF MachineInv

----------------------------------------------------------------------------
(* The agent reads. *)

\* What it keeps of a reading, and of the start.
Primed ==
    /\ prev' = [cpu |-> ReadCPUTimes, net |-> ReadNetCounters, disk |-> prev'.disk, time |-> now]
    /\ prev'.disk \in Nat
    /\ mark' = Truth /\ resets' = {}
    /\ UNCHANGED <<now, busy, iowait, idle, link, disk, proc, net, ops, boxWork, events>>

LEMMA PrimedHolds ==
    ASSUME MachineInv, Primed, faults' \in 0..MaxFaults
    PROVE  /\ Counters' /\ CountersHeld' /\ Jiffies' = Jiffies /\ ReadDiskOps' = ReadDiskOps
           /\ \A c : BoxJiffies(c)' = BoxJiffies(c)
<1>0. Counters
  BY DEF MachineInv
<1>1. /\ UNCHANGED <<now, busy, iowait, idle, link, disk, proc, net, ops, boxWork, events>>
      /\ prev' = [cpu |-> ReadCPUTimes, net |-> ReadNetCounters, disk |-> prev'.disk, time |-> now]
      /\ prev'.disk \in Nat
      /\ mark' = [at |-> now, busy |-> busy, waited |-> Waited, net |-> net]
      /\ resets' = {}
  BY DEF Primed, Truth
<1>2. /\ ReadNetCounters' = ReadNetCounters /\ ReadDiskOps' = ReadDiskOps
      /\ \A c : BoxJiffies(c)' = BoxJiffies(c)
  BY <1>1, SameRead
<1>3. /\ now \in Nat /\ busy \in Nat /\ iowait \in Nat /\ idle \in Nat
      /\ net \in Nat /\ ReadNetCounters \in Nat
  BY HeldNumbers
<1>4. Jiffies' = Jiffies /\ Jiffies \in Nat /\ Waited' = Waited /\ Waited \in Nat
  BY <1>0, <1>1, <1>3 DEF Jiffies, Waited, Counters
<1>5. ReadCPUTimes = [busy |-> busy, iowait |-> iowait, total |-> Jiffies]
  BY DEF ReadCPUTimes, Jiffies
<1>6. Counters'
  BY <1>0, <1>1, <1>2, <1>4 DEF Counters
<1>7. CountersHeld'
  <2>1. /\ prev' \in [cpu : [busy : Nat, iowait : Nat, total : Nat], net : Nat, disk : Nat, time : Nat]
        /\ mark' \in [at : Nat, busy : Nat, waited : Nat, net : Nat]
    <3>1. ReadCPUTimes \in [busy : Nat, iowait : Nat, total : Nat]
      BY <1>3, <1>4, <1>5
    <3> DEFINE d == prev'.disk
    <3>2. prev' = [cpu |-> ReadCPUTimes, net |-> ReadNetCounters, disk |-> d, time |-> now] /\ d \in Nat
      BY <1>1
    <3> HIDE DEF d
    <3>3. QED
      BY <1>1, <1>3, <1>4, <3>1, <3>2
  <2>2. /\ prev'.time = now /\ prev'.net = ReadNetCounters
        /\ prev'.cpu.total = Jiffies /\ prev'.cpu.busy = busy /\ prev'.cpu.iowait = iowait
        /\ mark'.at = now /\ mark'.busy = busy /\ mark'.waited = Waited /\ mark'.net = net
    BY <1>1, <1>5
  <2>3. /\ Jiffies <= now /\ (Jiffies - busy) - iowait <= idle /\ Jiffies - Jiffies = now - now
        /\ ReadNetCounters - ReadNetCounters = net - net /\ ReadNetCounters <= net
        /\ iowait - iowait = Waited - Waited
    BY <1>0, <1>3, <1>4 DEF Counters, Jiffies
  <2>4. resets' \subseteq {"net", "iowait"}
    BY <1>1
  <2>5. /\ now <= now /\ busy <= busy /\ Waited <= Waited /\ net <= net
        /\ ReadNetCounters - ReadNetCounters <= net - net /\ Jiffies - Jiffies <= now - now
        /\ iowait - iowait <= Waited - Waited
    BY <1>3, <1>4
  <2>6. QED
    BY <1>1, <1>2, <1>4, <2>1, <2>2, <2>3, <2>4, <2>5 DEF CountersHeld
<1>8. QED
  BY <1>2, <1>4, <1>6, <1>7

LEMMA SampleKeeps ==
    ASSUME MachineInv, NEW seesDisk \in BOOLEAN, NEW walks \in BOOLEAN, NEW total,
           total = 0 \/ total = Jiffies, SampleReads(seesDisk, walks, total),
           faults' \in 0..MaxFaults
    PROVE  MachineInv'
<1>0. Counters /\ CountersHeld /\ DiskHeld /\ BoxesHeld
  BY DEF MachineInv
<1>a. /\ prev' = [cpu |-> ReadCPUTimes, net |-> ReadNetCounters,
                  disk |-> KeepDisk(seesDisk), time |-> now]
      /\ mark' = Truth /\ resets' = {}
      /\ diskMark' = IF seesDisk THEN [ops |-> ops, back |-> FALSE] ELSE diskMark
      /\ UNCHANGED <<now, busy, iowait, idle, link, disk, proc, net, ops, boxWork, events>>
  BY DEF SampleReads, machineVars, truthVars
<1>b. prev'.disk = KeepDisk(seesDisk) /\ prev.disk \in Nat /\ ReadDiskOps \in Nat /\ ops \in Nat
  BY <1>a, HeldNumbers
<1>1. Primed
  <2>1. KeepDisk(seesDisk) \in Nat
    BY <1>b DEF KeepDisk
  <2>2. QED
    BY <1>a, <1>b, <2>1 DEF Primed
<1>2. /\ Counters' /\ CountersHeld' /\ Jiffies' = Jiffies /\ ReadDiskOps' = ReadDiskOps
      /\ \A c : BoxJiffies(c)' = BoxJiffies(c)
  BY <1>1, PrimedHolds
<1>d. DiskHeld'
  <2>1. CASE seesDisk
    <3>1. /\ prev'.disk = ReadDiskOps /\ diskMark' = [ops |-> ops, back |-> FALSE] /\ ops' = ops
      BY <1>a, <1>b, <2>1 DEF KeepDisk
    <3>2. ReadDiskOps <= ops
      BY <1>0 DEF Counters
    <3>3. QED
      BY <1>2, <1>b, <3>1, <3>2 DEF DiskHeld
  <2>2. CASE ~seesDisk
    BY <1>0, <1>2, <1>a, <1>b, <2>2 DEF DiskHeld, KeepDisk
  <2>3. QED
    BY <2>1, <2>2
<1>3. /\ now \in Nat /\ busy \in Nat /\ iowait \in Nat /\ idle \in Nat
      /\ prev.time \in Nat /\ boxMark.at \in Nat
      /\ boxWork \in [Boxes -> Nat] /\ \A c : BoxJiffies(c) \in Nat
  BY <1>0, HeldNumbers DEF Counters
<1>4. /\ Jiffies \in Nat /\ Jiffies <= now
  BY <1>0, <1>3 DEF Jiffies, Counters
<1>5. prev'.time = now /\ now' = now /\ boxWork' = boxWork
  BY <1>1 DEF Primed
<1>6. BoxesHeld'
  <2>1. CASE walks
    <3>1. /\ prevBox' = [total |-> total, jiffies |-> [c \in Present |-> BoxJiffies(c)]]
          /\ boxMark' = [at |-> now, work |-> boxWork, steady |-> IF total > 0 THEN Present ELSE {}]
      BY <2>1 DEF SampleReads, KeepBoxes, BoxTruth
    <3>2. Present \subseteq Boxes
      BY DEF Present
    <3>3. /\ prevBox'.total = total /\ DOMAIN prevBox'.jiffies = Present
          /\ \A c \in Present : prevBox'.jiffies[c] = BoxJiffies(c)
      BY <3>1
    <3>4. /\ boxMark'.at = now /\ boxMark'.work = boxWork
          /\ boxMark'.steady \subseteq Present /\ (boxMark'.steady /= {} => total > 0)
      BY <3>1
    <3>5. boxMark' \in [at : Nat, work : [Boxes -> Nat], steady : SUBSET Boxes]
      BY <1>3, <3>1, <3>2
    <3>6. /\ total \in Nat /\ total <= now /\ (total > 0 => Jiffies - total = now - now)
          /\ (total > 0 => Jiffies - total <= now - now)
      BY <1>3, <1>4
    <3>7. /\ \A c \in Boxes : boxWork[c] <= boxWork[c] /\ boxWork[c] - boxWork[c] <= now - now
          /\ \A c \in Present : BoxJiffies(c) - BoxJiffies(c) = boxWork[c] - boxWork[c]
          /\ \A c \in Present : BoxJiffies(c) - BoxJiffies(c) <= boxWork[c] - boxWork[c]
          /\ now <= now
      BY <1>3, <3>2
    <3>8. QED
      BY <1>2, <1>3, <1>5, <3>2, <3>3, <3>4, <3>5, <3>6, <3>7 DEF BoxesHeld
  <2>2. CASE ~walks
    <3>1. UNCHANGED <<prevBox, boxMark>>
      BY <2>2 DEF SampleReads
    <3>2. boxMark.at <= now
      BY <1>0, <1>3 DEF BoxesHeld, CountersHeld
    <3>3. QED
      BY <1>0, <1>2, <1>5, <3>1, <3>2 DEF BoxesHeld
  <2>3. QED
    BY <2>1, <2>2
<1>7. QED
  BY <1>2, <1>6, <1>d DEF MachineInv

LEMMA RestartKeeps ==
    ASSUME MachineInv, NEW seesDisk \in BOOLEAN, Restart(seesDisk)
    PROVE  MachineInv'
<1>0. Counters /\ CountersHeld /\ DiskHeld /\ BoxesHeld
  BY DEF MachineInv
<1>1. faults' \in 0..MaxFaults
  BY <1>0, FaultCounts DEF Restart
<1>2. /\ prev' = [cpu |-> ReadCPUTimes, net |-> ReadNetCounters,
                  disk |-> IF seesDisk THEN ReadDiskOps ELSE 0, time |-> now]
      /\ prevBox' = [total |-> 0, jiffies |-> <<>>]
      /\ boxMark' = [at |-> now, work |-> boxWork, steady |-> {}]
      /\ diskMark' = [ops |-> IF seesDisk THEN ops ELSE ops - ReadDiskOps, back |-> FALSE]
      /\ mark' = Truth /\ resets' = {}
      /\ UNCHANGED <<now, busy, iowait, idle, link, disk, proc, net, ops, boxWork, events>>
  BY DEF Restart, New, machineVars, truthVars
<1>3. /\ now \in Nat /\ ops \in Nat /\ ReadDiskOps \in Nat /\ ReadDiskOps <= ops
      /\ boxWork \in [Boxes -> Nat]
  BY <1>0, HeldNumbers DEF Counters
<1>a. prev'.disk = IF seesDisk THEN ReadDiskOps ELSE 0
  BY <1>2
<1>4. Primed
  BY <1>2, <1>3, <1>a DEF Primed
<1>5. Counters' /\ CountersHeld' /\ ReadDiskOps' = ReadDiskOps
  BY <1>1, <1>4, PrimedHolds
<1>d. DiskHeld'
  <2>1. /\ ops - ReadDiskOps \in Nat /\ ops - ReadDiskOps <= ops
        /\ ReadDiskOps - 0 = ops - (ops - ReadDiskOps)
    BY <1>3
  <2>2. CASE seesDisk
    BY <1>2, <1>3, <1>5, <1>a, <2>2 DEF DiskHeld
  <2>3. CASE ~seesDisk
    BY <1>2, <1>3, <1>5, <1>a, <2>1, <2>3 DEF DiskHeld
  <2>4. QED
    BY <2>2, <2>3
<1>6. BoxesHeld'
  <2>1. prevBox'.total = 0 /\ DOMAIN prevBox'.jiffies = {}
    BY <1>2
  <2>2. boxMark' \in [at : Nat, work : [Boxes -> Nat], steady : SUBSET Boxes]
        /\ boxMark'.at = now /\ boxMark'.work = boxWork /\ boxMark'.steady = {}
    BY <1>2, <1>3
  <2>3. /\ \A c \in Boxes : boxWork[c] <= boxWork[c] /\ boxWork[c] - boxWork[c] <= now - now
        /\ now <= now /\ 0 <= now /\ ~(0 > 0)
    BY <1>3
  <2>4. prev'.time = now /\ now' = now /\ boxWork' = boxWork
    BY <1>2
  <2>5. QED
    BY <1>3, <2>1, <2>2, <2>3, <2>4 DEF BoxesHeld
<1>7. QED
  BY <1>5, <1>6, <1>d DEF MachineInv

----------------------------------------------------------------------------
(* What a reading says. *)

LEMMA SmallerOfTwo ==
    ASSUME NEW a \in Int, NEW b \in Int
    PROVE  Min({a, b}) \in Int /\ Min({a, b}) <= a /\ Min({a, b}) <= b /\ Min({a, b}) \in {a, b}
<1>1. \E x \in {a, b} : \A y \in {a, b} : x <= y
  <2>1. CASE a <= b
    BY <2>1
  <2>2. CASE b <= a
    BY <2>2
  <2>3. QED
    BY <2>1, <2>2
<1>2. Min({a, b}) \in {a, b} /\ \A y \in {a, b} : Min({a, b}) <= y
  BY <1>1 DEF Min
<1>3. QED
  BY <1>2

\* Counters that moved forwards are subtracted without wrapping around.
LEMMA MinusIs ==
    ASSUME NEW a \in Nat, NEW b \in Nat, b <= a, a <= MaxNow
    PROVE  Minus(a, b) = a - b /\ a - b \in Nat
<1>1. WordSize \in Nat /\ a - b \in Nat /\ a - b < WordSize
  BY MachineRatesAssumption
<1>2. \A w \in Nat : \A d \in Nat : d < w => d % w = d
  OBVIOUS
<1>3. QED
  BY <1>1, <1>2 DEF Minus

\* A share of two counters that both moved forwards.
LEMMA ShareIs ==
    ASSUME NEW a \in Nat, NEW b \in Nat, b <= a, a <= MaxNow,
           NEW c \in Nat, NEW d \in Nat, d <= c, c <= MaxNow
    PROVE  LET s == Share(Minus(a, b), Minus(c, d)) IN
           /\ s.whole = c - d /\ s.part <= s.whole /\ s.part <= a - b
           /\ a - b <= c - d => s = [part |-> a - b, whole |-> c - d]
<1> DEFINE p == a - b
           w == c - d
<1>1. Minus(a, b) = p /\ Minus(c, d) = w /\ p \in Nat /\ w \in Nat
  BY MinusIs
<1> HIDE DEF p, w
<1>2. /\ Min({p, w}) \in Int /\ Min({p, w}) <= p /\ Min({p, w}) <= w /\ Min({p, w}) \in {p, w}
  <2>1. p \in Int /\ w \in Int
    BY <1>1
  <2>2. QED
    BY <2>1, SmallerOfTwo
<1>3. p <= w => Min({p, w}) = p
  BY <1>1, <1>2
<1>4. Share(p, w) = [part |-> Min({p, w}), whole |-> w]
  BY DEF Share
<1>5. /\ Share(p, w).whole = w /\ Share(p, w).part = Min({p, w})
      /\ p <= w => Share(p, w) = [part |-> p, whole |-> w]
  BY <1>3, <1>4
<1>6. QED
  BY <1>1, <1>2, <1>5 DEF p, w

\* How the machine's counters stand to those held.
LEMMA Moved ==
    ASSUME MachineInv, now > prev.time
    PROVE  /\ Jiffies \in Nat /\ Jiffies <= MaxNow /\ busy <= MaxNow /\ iowait <= MaxNow
           /\ ReadDiskOps <= MaxNow /\ ReadNetCounters <= MaxNow
           /\ mark.busy <= busy /\ mark.waited <= Waited
           /\ Jiffies - prev.cpu.total <= now - mark.at /\ 1 <= now - mark.at
           /\ iowait - prev.cpu.iowait <= Waited - mark.waited
           /\ "iowait" \notin resets =>
                /\ prev.cpu.total < Jiffies /\ prev.cpu.iowait <= iowait
                /\ Jiffies - prev.cpu.total = now - mark.at
                /\ iowait - prev.cpu.iowait = Waited - mark.waited
                /\ busy - mark.busy <= Jiffies - prev.cpu.total
                /\ iowait - prev.cpu.iowait <= Jiffies - prev.cpu.total
<1>0. Counters /\ CountersHeld
  BY DEF MachineInv
<1>1. /\ now \in Nat /\ busy \in Nat /\ iowait \in Nat /\ idle \in Nat /\ ops \in Nat
      /\ net \in Nat /\ ReadNetCounters \in Nat /\ ReadDiskOps \in Nat
      /\ prev.cpu.total \in Nat /\ prev.cpu.busy \in Nat /\ prev.cpu.iowait \in Nat
      /\ prev.time \in Nat /\ mark.at \in Nat /\ mark.busy \in Nat /\ mark.waited \in Nat
      /\ Waited \in Int /\ MaxNow \in Nat
  BY HeldNumbers, MachineRatesAssumption
<1>2. /\ now <= MaxNow /\ Jiffies <= now /\ net <= now /\ ReadNetCounters <= net
      /\ ops <= now /\ ReadDiskOps <= ops
  BY <1>0, <1>1 DEF Counters
<1>3. /\ Jiffies \in Nat /\ busy <= Jiffies /\ iowait <= Jiffies
  BY <1>1 DEF Jiffies
<1>4. /\ prev.time = mark.at /\ prev.cpu.busy = mark.busy /\ mark.busy <= busy
      /\ prev.cpu.total - prev.cpu.busy - prev.cpu.iowait <= idle
      /\ Jiffies - prev.cpu.total <= now - mark.at
      /\ mark.waited <= Waited /\ iowait - prev.cpu.iowait <= Waited - mark.waited
      /\ "iowait" \notin resets => /\ Jiffies - prev.cpu.total = now - mark.at
                                   /\ iowait - prev.cpu.iowait = Waited - mark.waited
  BY <1>0 DEF CountersHeld
<1>5. ASSUME "iowait" \notin resets
      PROVE  /\ prev.cpu.total < Jiffies /\ prev.cpu.iowait <= iowait
             /\ busy - mark.busy <= Jiffies - prev.cpu.total
             /\ iowait - prev.cpu.iowait <= Jiffies - prev.cpu.total
  <2>1. prev.cpu.total < Jiffies /\ prev.cpu.iowait <= iowait
    BY <1>1, <1>3, <1>4, <1>5
  <2>2. busy - mark.busy <= Jiffies - prev.cpu.total
    BY <1>1, <1>4, <2>1 DEF Jiffies
  <2>3. iowait - prev.cpu.iowait <= Jiffies - prev.cpu.total
    BY <1>1, <1>4, <2>1 DEF Jiffies
  <2>4. QED
    BY <2>1, <2>2, <2>3
<1>6. 1 <= now - mark.at
  BY <1>1, <1>4
<1>7. QED
  BY <1>1, <1>2, <1>3, <1>4, <1>5, <1>6

PartOf(was, is, from, to) ==
    IF to <= from \/ is < was THEN NoShare ELSE Share(Minus(is, was), Minus(to, from))

PartGood(s, was, is, from, to, done, time) ==
    /\ s.part <= done /\ s.part <= s.whole /\ s.whole <= time
    /\ was <= is /\ from < to /\ is - was <= to - from =>
         s = [part |-> is - was, whole |-> to - from]

\* A part of the processor's time, made of a total and of a part of it as they were
\* and as they are, next to how long it was and how much of that it took.
LEMMA PartIs ==
    ASSUME NEW was \in Nat, NEW is \in Nat, is <= MaxNow,
           NEW from \in Nat, NEW to \in Nat, to <= MaxNow,
           NEW done \in Int, 0 <= done, is - was <= done,
           NEW time \in Int, 1 <= time, to - from <= time
    PROVE  PartGood(PartOf(was, is, from, to), was, is, from, to, done, time)
<1>1. CASE to <= from \/ is < was
  BY <1>1 DEF PartGood, PartOf, NoShare
<1>2. CASE ~(to <= from \/ is < was)
  <2> DEFINE s == Share(Minus(is, was), Minus(to, from))
  <2>1. was <= is /\ from <= to
    BY <1>2
  <2>2. /\ s.whole = to - from /\ s.part <= s.whole /\ s.part <= is - was
        /\ is - was <= to - from => s = [part |-> is - was, whole |-> to - from]
    BY <2>1, ShareIs
  <2>3. s.part \in Int
    <3>1. Minus(is, was) \in Int /\ Minus(to, from) \in Int
      BY <2>1, MinusIs
    <3>2. QED
      BY <3>1, SmallerOfTwo DEF Share
  <2> HIDE DEF s
  <2>4. s.part <= done /\ s.whole <= time
    BY <2>2, <2>3
  <2>5. QED
    BY <1>2, <2>2, <2>4 DEF s, PartGood, PartOf
<1>3. QED
  BY <1>1, <1>2

LEMMA CpuIs ==
    ASSUME MachineInv, now > prev.time
    PROVE  LET cpu == CpuPercent(prev.cpu, ReadCPUTimes)
               wait == IowaitPercent(prev.cpu, ReadCPUTimes)
           IN
           /\ cpu.part <= busy - mark.busy /\ wait.part <= Waited - mark.waited
           /\ cpu.part <= cpu.whole /\ cpu.whole <= now - mark.at
           /\ wait.part <= wait.whole /\ wait.whole <= now - mark.at
           /\ "iowait" \notin resets =>
                /\ cpu = [part |-> busy - mark.busy, whole |-> now - mark.at]
                /\ wait = [part |-> Waited - mark.waited, whole |-> now - mark.at]
<1>1. /\ busy \in Nat /\ iowait \in Nat /\ prev.cpu.total \in Nat /\ prev.cpu.busy \in Nat
      /\ prev.cpu.iowait \in Nat /\ mark.busy \in Nat /\ mark.waited \in Nat
      /\ Waited \in Int /\ now \in Nat /\ mark.at \in Nat
  BY HeldNumbers
<1>2. prev.cpu.busy = mark.busy
  BY DEF MachineInv, CountersHeld
<1>3. /\ ReadCPUTimes.busy = busy /\ ReadCPUTimes.iowait = iowait
      /\ ReadCPUTimes.total = Jiffies
  BY DEF ReadCPUTimes, Jiffies
<1>4. /\ Jiffies \in Nat /\ Jiffies <= MaxNow /\ busy <= MaxNow /\ iowait <= MaxNow
      /\ mark.busy <= busy /\ mark.waited <= Waited
      /\ Jiffies - prev.cpu.total <= now - mark.at /\ 1 <= now - mark.at
      /\ iowait - prev.cpu.iowait <= Waited - mark.waited
      /\ "iowait" \notin resets =>
                /\ prev.cpu.total < Jiffies /\ prev.cpu.iowait <= iowait
                /\ Jiffies - prev.cpu.total = now - mark.at
                /\ iowait - prev.cpu.iowait = Waited - mark.waited
                /\ busy - mark.busy <= Jiffies - prev.cpu.total
                /\ iowait - prev.cpu.iowait <= Jiffies - prev.cpu.total
  BY Moved
<1> DEFINE time == now - mark.at
           worked == busy - mark.busy
           waited == Waited - mark.waited
           cpu == CpuPercent(prev.cpu, ReadCPUTimes)
           wait == IowaitPercent(prev.cpu, ReadCPUTimes)
<1>5. /\ cpu = PartOf(mark.busy, busy, prev.cpu.total, Jiffies)
      /\ wait = PartOf(prev.cpu.iowait, iowait, prev.cpu.total, Jiffies)
  BY <1>2, <1>3 DEF CpuPercent, IowaitPercent, PartOf
<1>6. /\ time \in Int /\ worked \in Int /\ waited \in Int /\ 1 <= time
      /\ 0 <= worked /\ 0 <= waited /\ busy - mark.busy <= worked
      /\ iowait - prev.cpu.iowait <= waited /\ Jiffies - prev.cpu.total <= time
  BY <1>1, <1>4
<1> HIDE DEF time, worked, waited
<1> HIDE DEF cpu, wait
<1>7. PartGood(cpu, mark.busy, busy, prev.cpu.total, Jiffies, worked, time)
  BY <1>1, <1>4, <1>5, <1>6, PartIs
<1>8. PartGood(wait, prev.cpu.iowait, iowait, prev.cpu.total, Jiffies, waited, time)
  BY <1>1, <1>4, <1>5, <1>6, PartIs
<1>9. QED
  BY <1>4, <1>7, <1>8 DEF PartGood, time, worked, waited, cpu, wait

\* A rate, next to how much was done.
LEMMA RateIs ==
    ASSUME NEW from \in Nat, NEW to \in Nat, to <= MaxNow, NEW elapsed \in Int, elapsed > 0,
           NEW done \in Int, 0 <= done, to - from <= done
    PROVE  LET n == RatePerSecond(from, to, elapsed) IN
           n <= done /\ (to - from = done => n = done)
<1>1. CASE to < from
  <2>1. RatePerSecond(from, to, elapsed) = 0
    BY <1>1 DEF RatePerSecond
  <2>2. QED
    BY <1>1, <2>1
<1>2. CASE ~(to < from)
  <2>1. RatePerSecond(from, to, elapsed) = Minus(to, from)
    BY <1>2 DEF RatePerSecond
  <2>2. from <= to
    BY <1>2
  <2>3. Minus(to, from) = to - from
    BY <2>2, MinusIs
  <2>4. QED
    BY <2>1, <2>3
<1>3. QED
  BY <1>1, <1>2

LEMMA NetAndDiskAre ==
    ASSUME MachineInv, now > prev.time
    PROVE  LET n == RatePerSecond(prev.net, ReadNetCounters, now - prev.time)
               d == RatePerSecond(prev.disk, ReadDiskOps, now - prev.time)
           IN
           /\ n <= net - mark.net
           /\ "net" \notin resets => n = net - mark.net
           /\ d <= ops - diskMark.ops
           /\ ~diskMark.back => d = ops - diskMark.ops
<1>1. /\ now \in Nat /\ ops \in Nat /\ net \in Nat /\ ReadNetCounters \in Nat
      /\ ReadDiskOps \in Nat /\ prev.net \in Nat /\ prev.disk \in Nat /\ prev.time \in Nat
      /\ mark.net \in Nat /\ diskMark.ops \in Nat
  BY HeldNumbers
<1>2. ReadDiskOps <= MaxNow /\ ReadNetCounters <= MaxNow
  BY Moved
<1>3. now - prev.time \in Int /\ now - prev.time > 0
  BY <1>1
<1>4. /\ mark.net <= net /\ ReadNetCounters - prev.net <= net - mark.net
      /\ "net" \notin resets => ReadNetCounters - prev.net = net - mark.net
  BY DEF MachineInv, CountersHeld
<1>5. /\ diskMark.ops <= ops /\ ReadDiskOps - prev.disk <= ops - diskMark.ops
      /\ ~diskMark.back => ReadDiskOps - prev.disk = ops - diskMark.ops
  BY DEF MachineInv, DiskHeld
<1> DEFINE n == RatePerSecond(prev.net, ReadNetCounters, now - prev.time)
           d == RatePerSecond(prev.disk, ReadDiskOps, now - prev.time)
<1>6. n <= net - mark.net /\ (ReadNetCounters - prev.net = net - mark.net => n = net - mark.net)
  <2>1. net - mark.net \in Int /\ 0 <= net - mark.net
    BY <1>1, <1>4
  <2>2. QED
    BY <1>1, <1>2, <1>3, <1>4, <2>1, RateIs
<1>7. /\ d <= ops - diskMark.ops
      /\ (ReadDiskOps - prev.disk = ops - diskMark.ops => d = ops - diskMark.ops)
  <2>1. ops - diskMark.ops \in Int /\ 0 <= ops - diskMark.ops
    BY <1>1, <1>5
  <2>2. QED
    BY <1>1, <1>2, <1>3, <1>5, <2>1, RateIs
<1> HIDE DEF n, d
<1>8. QED
  BY <1>4, <1>5, <1>6, <1>7 DEF n, d

LEMMA SampleSaysRates ==
    ASSUME MachineInv, NEW seesDisk \in BOOLEAN, NEW walks \in BOOLEAN, NEW total,
           SampleReads(seesDisk, walks, total)
    PROVE  RatesAreExact'
<1> DEFINE elapsed == now - prev.time
           cpu == CpuPercent(prev.cpu, ReadCPUTimes)
           wait == IowaitPercent(prev.cpu, ReadCPUTimes)
           n == RatePerSecond(prev.net, ReadNetCounters, elapsed)
           d == IF seesDisk THEN RatePerSecond(prev.disk, ReadDiskOps, elapsed) ELSE 0
           boxes == IF walks THEN BoxStats(total) ELSE <<>>
           truth == [time |-> now - mark.at, busy |-> busy - mark.busy,
                     waited |-> Waited - mark.waited, net |-> net - mark.net,
                     disk |-> ops - diskMark.ops, sawDisk |-> seesDisk,
                     diskBack |-> diskMark.back, resets |-> resets]
           r == [cpu |-> cpu, iowait |-> wait, net |-> n, disk |-> d, elapsed |-> elapsed,
                 boxes |-> boxes, truth |-> truth]
<1>1. now > prev.time /\ report' = <<r>>
  BY DEF SampleReads
<1>2. /\ cpu.part <= busy - mark.busy /\ wait.part <= Waited - mark.waited
      /\ cpu.part <= cpu.whole /\ cpu.whole <= now - mark.at
      /\ wait.part <= wait.whole /\ wait.whole <= now - mark.at
      /\ "iowait" \notin resets =>
           /\ cpu = [part |-> busy - mark.busy, whole |-> now - mark.at]
           /\ wait = [part |-> Waited - mark.waited, whole |-> now - mark.at]
  BY <1>1, CpuIs
<1>3. /\ n <= net - mark.net
      /\ "net" \notin resets => n = net - mark.net
      /\ RatePerSecond(prev.disk, ReadDiskOps, elapsed) <= ops - diskMark.ops
      /\ ~diskMark.back => RatePerSecond(prev.disk, ReadDiskOps, elapsed) = ops - diskMark.ops
  BY <1>1, NetAndDiskAre
<1>4. seesDisk => /\ d <= ops - diskMark.ops
                  /\ ~diskMark.back => d = ops - diskMark.ops
  BY <1>3
<1>5. elapsed = now - mark.at
  BY DEF MachineInv, CountersHeld
<1> HIDE DEF elapsed, cpu, wait, n, d, boxes
<1>6. R' = r
  BY <1>1 DEF R
<1>7. QED
  BY <1>2, <1>3, <1>4, <1>5, <1>6 DEF RatesAreExact

\* How the containers' counters stand to those held.
LEMMA BoxIs ==
    ASSUME MachineInv, now > prev.time, NEW c, NEW total, total = 0 \/ total = Jiffies
    PROVE  LET cpu == BoxShare(c, total) IN
           /\ cpu /= <<>> => /\ cpu[1].part <= boxWork[c] - boxMark.work[c]
                             /\ cpu[1].whole <= now - boxMark.at
           /\ c \in boxMark.steady /\ total > 0 =>
                cpu = <<[part |-> boxWork[c] - boxMark.work[c], whole |-> now - boxMark.at]>>
<1>0. Counters /\ BoxesHeld
  BY DEF MachineInv
<1>1. /\ now \in Nat /\ prev.time \in Nat /\ prevBox.total \in Nat /\ boxMark.at \in Nat
      /\ BoxJiffies(c) \in Nat /\ boxMark.steady \in SUBSET Boxes /\ MaxNow \in Nat
  BY HeldNumbers, MachineRatesAssumption
<1>2. Jiffies \in Nat /\ Jiffies <= MaxNow
  BY Moved
<1>3. total \in Nat /\ total <= MaxNow /\ (total > 0 => total = Jiffies)
  BY <1>1, <1>2
<1> DEFINE had == prevBox.jiffies[c]
           work == boxWork[c] - boxMark.work[c]
           guard == /\ c \in DOMAIN prevBox.jiffies /\ prevBox.total > 0
                    /\ total > prevBox.total /\ BoxJiffies(c) >= had
           cpu == BoxShare(c, total)
           share == Share(Minus(BoxJiffies(c), had), Minus(total, prevBox.total))
<1>4. cpu = IF guard THEN <<share>> ELSE <<>>
  BY DEF BoxShare
<1>5. ASSUME c \in DOMAIN prevBox.jiffies
      PROVE  /\ had \in Nat /\ c \in Boxes /\ BoxJiffies(c) <= MaxNow
             /\ BoxJiffies(c) - had <= work
             /\ boxWork[c] \in Nat /\ boxMark.work[c] \in Nat
             /\ boxMark.work[c] <= boxWork[c] /\ work <= now - boxMark.at
  <2>1. had \in Nat /\ c \in Boxes /\ BoxJiffies(c) - had <= work
    BY <1>0, <1>5 DEF BoxesHeld
  <2>2. boxWork[c] \in Nat /\ boxMark.work[c] \in Nat
    BY <2>1, HeldNumbers
  <2>3. boxWork[c] <= now /\ BoxJiffies(c) <= boxWork[c] /\ now <= MaxNow
    BY <1>0, <1>1, <2>1 DEF Counters
  <2>4. boxMark.work[c] <= boxWork[c] /\ work <= now - boxMark.at
    BY <1>0, <2>1 DEF BoxesHeld
  <2>5. QED
    BY <1>1, <2>1, <2>2, <2>3, <2>4
<1>6. ASSUME guard
      PROVE  /\ share.whole = total - prevBox.total /\ share.part <= BoxJiffies(c) - had
             /\ BoxJiffies(c) - had <= total - prevBox.total =>
                  share = [part |-> BoxJiffies(c) - had, whole |-> total - prevBox.total]
             /\ share.part <= share.whole
  <2>1. had <= BoxJiffies(c) /\ prevBox.total <= total
    BY <1>1, <1>3, <1>5, <1>6
  <2>2. had \in Nat /\ BoxJiffies(c) <= MaxNow
    BY <1>5, <1>6
  <2>3. prevBox.total \in Nat /\ BoxJiffies(c) \in Nat
    BY <1>1
  <2>4. total \in Nat /\ total <= MaxNow
    BY <1>3
  <2> HIDE DEF guard
  <2>5. share.whole = total - prevBox.total
    <3>1. share.whole = Minus(total, prevBox.total)
      BY DEF Share
    <3>2. Minus(total, prevBox.total) = total - prevBox.total
      BY <2>1, <2>3, <2>4, MinusIs
    <3> HIDE DEF share
    <3>3. QED
      BY <3>1, <3>2
  <2>6. share.part <= BoxJiffies(c) - had /\ share.part <= share.whole
    BY <2>1, <2>2, <2>3, <2>4, ShareIs
  <2>7. BoxJiffies(c) - had <= total - prevBox.total =>
          share = [part |-> BoxJiffies(c) - had, whole |-> total - prevBox.total]
    BY <2>1, <2>2, <2>3, <2>4, ShareIs
  <2> HIDE DEF share
  <2>8. QED
    BY <2>5, <2>6, <2>7
<1>7. ASSUME cpu /= <<>> PROVE cpu[1].part <= work /\ cpu[1].whole <= now - boxMark.at
  <2>1. guard /\ cpu = <<share>>
    BY <1>4, <1>7
  <2>2. /\ total = Jiffies /\ Jiffies - prevBox.total <= now - boxMark.at
        /\ c \in DOMAIN prevBox.jiffies
    BY <1>0, <1>1, <1>3, <2>1 DEF BoxesHeld
  <2>3. cpu[1] = share
    BY <2>1
  <2>4. share.whole <= now - boxMark.at
    BY <1>6, <2>1, <2>2
  <2>5. BoxJiffies(c) - had <= work /\ had \in Nat /\ work \in Int
    BY <1>5, <2>2
  <2>6. share.part \in Int
    <3>1. share.part = Min({Minus(BoxJiffies(c), had), Minus(total, prevBox.total)})
      BY DEF Share
    <3>2. had <= BoxJiffies(c) /\ prevBox.total <= total
      BY <1>1, <1>3, <2>1, <2>5
    <3> HIDE DEF had
    <3>3. Minus(BoxJiffies(c), had) \in Int /\ Minus(total, prevBox.total) \in Int
      BY <1>1, <1>3, <1>5, <2>2, <2>5, <3>2, MinusIs
    <3>4. QED
      BY <3>1, <3>3, SmallerOfTwo
  <2>7. share.part <= work
    <3>1. \A x \in Int, y \in Int, z \in Int : x <= y /\ y <= z => x <= z
      OBVIOUS
    <3>2. BoxJiffies(c) - had \in Int
      BY <1>1, <2>5
    <3> HIDE DEF share, work, had
    <3>3. QED
      BY <1>6, <2>1, <2>5, <2>6, <3>1, <3>2
  <2>8. QED
    BY <2>3, <2>4, <2>7
<1>8. ASSUME c \in boxMark.steady, total > 0
      PROVE  cpu = <<[part |-> work, whole |-> now - boxMark.at]>>
  <2>1. /\ c \in DOMAIN prevBox.jiffies /\ prevBox.total > 0 /\ total = Jiffies
        /\ Jiffies - prevBox.total = now - boxMark.at
        /\ BoxJiffies(c) - had = work
    BY <1>0, <1>3, <1>8 DEF BoxesHeld
  <2>2. boxMark.at <= prev.time
    BY <1>0 DEF BoxesHeld
  <2>3. total > prevBox.total
    BY <1>1, <1>2, <2>1, <2>2
  <2>4. BoxJiffies(c) >= had
    BY <1>1, <1>5, <2>1
  <2>5. guard
    BY <2>1, <2>3, <2>4
  <2>6. BoxJiffies(c) - had <= total - prevBox.total
    BY <1>5, <2>1
  <2>7. share = [part |-> work, whole |-> now - boxMark.at]
    BY <1>6, <2>1, <2>5, <2>6
  <2> HIDE DEF guard, share
  <2>8. QED
    BY <1>4, <2>5, <2>7
<1>9. QED
  BY <1>7, <1>8

LEMMA SampleSaysBoxes ==
    ASSUME MachineInv, NEW seesDisk \in BOOLEAN, NEW walks \in BOOLEAN, NEW total,
           total = 0 \/ total = Jiffies, SampleReads(seesDisk, walks, total)
    PROVE  BoxSharesAreExact'
<1> DEFINE boxes == IF walks THEN BoxStats(total) ELSE <<>>
           Stat(c) == [id |-> c, cpu |-> BoxShare(c, total),
                       truth |-> [work |-> boxWork[c] - boxMark.work[c], time |-> now - boxMark.at,
                                  steady |-> c \in boxMark.steady /\ total > 0]]
           Good(b) == /\ b.cpu /= <<>> => /\ b.cpu[1].part <= b.truth.work
                                          /\ b.cpu[1].whole <= b.truth.time
                      /\ b.truth.steady =>
                           b.cpu = <<[part |-> b.truth.work, whole |-> b.truth.time]>>
<1>1. now > prev.time /\ R'.boxes = boxes
  BY DEF SampleReads, R
<1>2. ASSUME NEW c PROVE Good(Stat(c))
  <2>1. LET cpu == BoxShare(c, total) IN
        /\ cpu /= <<>> => /\ cpu[1].part <= boxWork[c] - boxMark.work[c]
                          /\ cpu[1].whole <= now - boxMark.at
        /\ c \in boxMark.steady /\ total > 0 =>
             cpu = <<[part |-> boxWork[c] - boxMark.work[c], whole |-> now - boxMark.at]>>
    BY <1>1, BoxIs
  <2>2. QED
    BY <2>1
<1>3. ASSUME NEW i \in 1..Len(boxes) PROVE Good(boxes[i])
  <2>1. CASE ~walks
    <3>1. Len(boxes) = 0
      BY <2>1
    <3>2. QED
      BY <3>1
  <2>2. CASE walks
    <3> DEFINE n == Len(Heaviest)
    <3>1. boxes = [k \in 1..n |-> Stat(Heaviest[k])]
      BY <2>2 DEF BoxStats
    <3>2. n \in Nat
      <4>1. Min({MaxReported, Cardinality(Present)}) \in Nat
        <5>1. IsFiniteSet(Present)
          <6>1. IsFiniteSet(Boxes)
            <7>1. Home \in Surjection(Procs, Boxes)
              BY MachineRatesAssumption DEF Boxes, Surjection
            <7>2. QED
              BY <7>1, MachineRatesAssumption, FS_Surjection
          <6>2. QED
            BY <6>1, FS_Subset DEF Present
        <5>2. /\ Cardinality(Present) \in Nat /\ MaxReported \in Nat
              /\ Cardinality(Present) \in Int /\ MaxReported \in Int
          BY <5>1, FS_CardinalityType, MachineRatesAssumption
        <5>3. Min({MaxReported, Cardinality(Present)}) \in {MaxReported, Cardinality(Present)}
          BY <5>2, SmallerOfTwo
        <5>4. QED
          BY <5>2, <5>3
      <4>2. \A s : \A m \in Nat : Len(SubSeq(s, 1, m)) \in Nat
        OBVIOUS
      <4>3. QED
        BY <4>1, <4>2 DEF Heaviest
    <3> HIDE DEF n, Stat, boxes
    <3>3. Len(boxes) = n
      BY <3>1, <3>2
    <3>4. boxes[i] = Stat(Heaviest[i])
      BY <3>1, <3>3
    <3> HIDE DEF Good
    <3>5. QED
      BY <1>2, <3>4
  <2>3. QED
    BY <2>1, <2>2
<1> HIDE DEF boxes
<1>4. QED
  BY <1>1, <1>3 DEF BoxSharesAreExact

----------------------------------------------------------------------------
(* The whole. *)

LEMMA TotalOfZeros ==
    ASSUME NEW F, NEW D, IsFiniteSet(D), \A x \in D : F[x] = 0
    PROVE  Total(F, D) = 0
<1> DEFINE j == [T \in SUBSET D |-> 0]
<1>1. PICK i : Sums(i, F, D) /\ i[D] = Total(F, D)
  BY IterSums
<1>2. Sums(j, F, D)
  <2>1. \A T \in SUBSET D : \A x \in T : x \in D /\ T \ {x} \in SUBSET D
    OBVIOUS
  <2>2. \A T \in SUBSET D : j[T] = 0
    OBVIOUS
  <2> HIDE DEF j
  <2>3. QED
    BY <2>1, <2>2 DEF Sums
<1>3. j[D] = 0
  OBVIOUS
<1> HIDE DEF j
<1>4. i[D] = j[D]
  BY <1>1, <1>2, SumsAgree
<1>5. QED
  BY <1>1, <1>3, <1>4

LEMMA InitMachine ==
    ASSUME Init PROVE MachineInv /\ RatesAreExact /\ BoxSharesAreExact
<1>1. /\ now = 1 /\ busy = 0 /\ iowait = 1 /\ idle = 0 /\ ops = 0 /\ net = 0
      /\ link = [l \in Links |-> 0] /\ disk = [d \in Disks |-> 0]
      /\ proc = [p \in Procs |-> 0]
      /\ boxWork = [c \in Boxes |-> 0]
      /\ prev = [cpu |-> ReadCPUTimes, net |-> 0, disk |-> 0, time |-> 1]
      /\ prevBox = [total |-> 0, jiffies |-> <<>>]
      /\ mark = [at |-> 1, busy |-> 0, waited |-> Waited, net |-> 0]
      /\ diskMark = [ops |-> 0, back |-> FALSE]
      /\ boxMark = [at |-> 1, work |-> boxWork, steady |-> {}] /\ resets = {}
      /\ report = <<>> /\ events = 0 /\ faults = 0
  BY DEF Init, Truth
<1>2. ReadCPUTimes = [busy |-> 0, iowait |-> 1, total |-> 1] /\ Jiffies = 1 /\ Waited = 1
  BY <1>1 DEF ReadCPUTimes, Jiffies, Waited
<1>3. IsFiniteSet(Links) /\ IsFiniteSet(Disks) /\ IsFiniteSet(Procs) /\ MaxNow \in Nat \ {0} /\ MaxEvents \in Nat
      /\ MaxFaults \in Nat
  BY MachineRatesAssumption
<1>4. ReadNetCounters = 0 /\ ReadDiskOps = 0
  <2>1. Total(link, Links) = 0
    BY <1>1, <1>3, TotalOfZeros
  <2>2. Total(disk, Disks) = 0
    BY <1>1, <1>3, TotalOfZeros
  <2>3. DOMAIN link = Links /\ DOMAIN disk = Disks
    BY <1>1
  <2>4. QED
    BY <2>1, <2>2, <2>3 DEF ReadNetCounters, ReadDiskOps, Sum, Total
<1>5. \A c : BoxJiffies(c) = 0
  <2> TAKE c
  <2>1. Living(c) \subseteq Procs /\ \A p \in Living(c) : proc[p] = 0
    BY <1>1 DEF Living
  <2>2. IsFiniteSet(Living(c))
    BY <1>3, <2>1, FS_Subset
  <2>3. Total(proc, Living(c)) = 0
    BY <2>1, <2>2, TotalOfZeros
  <2>4. QED
    BY <2>3 DEF BoxJiffies, Total
<1>6. Counters
  BY <1>1, <1>2, <1>3, <1>4, <1>5 DEF Counters
<1>7. CountersHeld
  <2>1. /\ prev.cpu.busy = 0 /\ prev.cpu.iowait = 1 /\ prev.cpu.total = 1 /\ prev.net = 0
        /\ prev.disk = 0 /\ prev.time = 1
    BY <1>1, <1>2
  <2>2. prev \in [cpu : [busy : Nat, iowait : Nat, total : Nat], net : Nat, disk : Nat, time : Nat]
    <3>1. ReadCPUTimes \in [busy : Nat, iowait : Nat, total : Nat]
      BY <1>2
    <3>2. QED
      BY <1>1, <3>1
  <2>3. mark \in [at : Nat, busy : Nat, waited : Nat, net : Nat]
    BY <1>1, <1>2
  <2>4. QED
    BY <1>1, <1>2, <1>4, <2>1, <2>2, <2>3 DEF CountersHeld
<1>8. BoxesHeld
  <2>1. prevBox.total = 0 /\ DOMAIN prevBox.jiffies = {}
    BY <1>1
  <2>2. boxMark \in [at : Nat, work : [Boxes -> Nat], steady : SUBSET Boxes]
        /\ boxMark.at = 1 /\ boxMark.work = boxWork /\ boxMark.steady = {}
    BY <1>1
  <2>3. prev.time = 1
    BY <1>1
  <2>4. QED
    BY <1>1, <2>1, <2>2, <2>3 DEF BoxesHeld
<1>9. ~Said
  BY <1>1 DEF Said
<1>d. DiskHeld
  BY <1>1, <1>4 DEF DiskHeld
<1>10. QED
  BY <1>6, <1>7, <1>8, <1>9, <1>d DEF MachineInv, RatesAreExact, BoxSharesAreExact

\* The report stays as it is, or goes with the agent.
LEMMA SameReport ==
    ASSUME RatesAreExact, BoxSharesAreExact, report' = report \/ report' = <<>>
    PROVE  RatesAreExact' /\ BoxSharesAreExact'
<1>1. CASE report' = report
  BY <1>1 DEF RatesAreExact, BoxSharesAreExact, Said, R
<1>2. CASE report' = <<>>
  BY <1>2 DEF RatesAreExact, BoxSharesAreExact, Said
<1>3. QED
  BY <1>1, <1>2

LEMMA NextMachine ==
    ASSUME MachineInv, RatesAreExact, BoxSharesAreExact, [Next]_vars
    PROVE  MachineInv' /\ RatesAreExact' /\ BoxSharesAreExact'
<1>0. Counters /\ faults \in 0..MaxFaults
  BY DEF MachineInv, Counters
<1>1. CASE \E on \in DOMAIN proc \cup {"idle", "iowait"}, by \in DOMAIN link \cup DOMAIN disk \cup {"none"} :
             Elapse(on, by)
  <2>1. report' = report
    BY <1>1 DEF Elapse
  <2>2. QED
    BY <1>1, <2>1, ElapseKeeps, SameReport
<1>2. CASE \E l \in Links : LinkGoes(l) \/ LinkComes(l)
  <2>1. report' = report
    BY <1>2 DEF LinkGoes, LinkComes
  <2>2. QED
    BY <1>2, <2>1, LinkKeeps, SameReport
<1>d. CASE \E d \in Disks : DiskGoes(d) \/ DiskComes(d)
  <2>1. report' = report
    BY <1>d DEF DiskGoes, DiskComes
  <2>2. QED
    BY <1>d, <2>1, DiskKeeps, SameReport
<1>3. CASE \E p \in Procs : ProcExits(p) \/ ProcStarts(p)
  <2>1. report' = report
    BY <1>3 DEF ProcExits, ProcStarts
  <2>2. QED
    BY <1>3, <2>1, ProcKeeps, SameReport
<1>4. CASE IowaitBack
  <2>1. report' = report
    BY <1>4 DEF IowaitBack
  <2>2. QED
    BY <1>4, <2>1, IowaitKeeps, SameReport
<1>5. \A reads \in BOOLEAN : ReadTotalJiffies(reads) = 0 \/ ReadTotalJiffies(reads) = Jiffies
  BY DEF ReadTotalJiffies, ReadCPUTimes, Jiffies
<1>6. CASE Sample
  <2>1. SampleReads(TRUE, TRUE, ReadTotalJiffies(TRUE)) /\ faults' \in 0..MaxFaults
    BY <1>0, <1>6 DEF Sample
  <2>2. QED
    BY <1>5, <2>1, SampleKeeps, SampleSaysRates, SampleSaysBoxes
<1>7. CASE SampleFails
  <2>1. faults' \in 0..MaxFaults
    BY <1>0, <1>7, FaultCounts DEF SampleFails
  <2>2. UNCHANGED <<kept, report, machineVars, truthVars, markVars, events>>
    BY <1>7 DEF SampleFails
  <2>3. MachineInv'
    <3>1. /\ ReadNetCounters' = ReadNetCounters /\ ReadDiskOps' = ReadDiskOps
          /\ \A c : BoxJiffies(c)' = BoxJiffies(c)
      BY <2>2, SameRead DEF machineVars
    <3>2. Jiffies' = Jiffies /\ Waited' = Waited
      BY <2>2 DEF Jiffies, Waited, machineVars
    <3>3. Counters'
      BY <2>1, <2>2, <3>1, <3>2 DEF MachineInv, Counters, machineVars, truthVars
    <3>4. CountersHeld'
      BY <2>2, <3>1, <3>2 DEF MachineInv, CountersHeld, machineVars, truthVars, markVars, kept
    <3>5. BoxesHeld'
      BY <2>2, <3>1, <3>2 DEF MachineInv, BoxesHeld, machineVars, truthVars, markVars, kept
    <3>6. DiskHeld'
      BY <2>2, <3>1 DEF MachineInv, DiskHeld, machineVars, truthVars, markVars, kept
    <3>7. QED
      BY <3>3, <3>4, <3>5, <3>6 DEF MachineInv
  <2>4. QED
    BY <2>2, <2>3, SameReport
<1>8. CASE \E what \in {"diskstats", "proc", "stat"} : SampleWithout(what)
  <2>1. PICK what \in {"diskstats", "proc", "stat"} : SampleWithout(what)
    BY <1>8
  <2> DEFINE seesDisk == what /= "diskstats"
             walks == what /= "proc"
             total == ReadTotalJiffies(what /= "stat")
  <2>2. SampleReads(seesDisk, walks, total) /\ Fault
    BY <2>1 DEF SampleWithout
  <2>3. faults' \in 0..MaxFaults /\ seesDisk \in BOOLEAN /\ walks \in BOOLEAN
    BY <1>0, <2>2, FaultCounts
  <2>4. total = 0 \/ total = Jiffies
    BY <1>5
  <2> HIDE DEF seesDisk, walks, total
  <2>5. QED
    BY <2>2, <2>3, <2>4, SampleKeeps, SampleSaysRates, SampleSaysBoxes
<1>9. CASE \E seesDisk \in BOOLEAN : Restart(seesDisk)
  <2>1. report' = <<>>
    BY <1>9 DEF Restart, New
  <2>2. QED
    BY <1>9, <2>1, RestartKeeps, SameReport
<1>10. CASE UNCHANGED vars
  <2>1. UNCHANGED <<kept, report, machineVars, truthVars, markVars, events, faults>>
    BY <1>10 DEF vars
  <2>2. /\ ReadNetCounters' = ReadNetCounters /\ ReadDiskOps' = ReadDiskOps
        /\ \A c : BoxJiffies(c)' = BoxJiffies(c)
    BY <2>1, SameRead DEF machineVars
  <2>3. Jiffies' = Jiffies /\ Waited' = Waited
    BY <2>1 DEF Jiffies, Waited, machineVars
  <2>4. Counters'
    BY <2>1, <2>2, <2>3 DEF MachineInv, Counters, machineVars, truthVars
  <2>5. CountersHeld'
    BY <2>1, <2>2, <2>3 DEF MachineInv, CountersHeld, machineVars, truthVars, markVars, kept
  <2>6. BoxesHeld'
    BY <2>1, <2>2, <2>3 DEF MachineInv, BoxesHeld, machineVars, truthVars, markVars, kept
  <2>7. DiskHeld'
    BY <2>1, <2>2 DEF MachineInv, DiskHeld, machineVars, truthVars, markVars, kept
  <2>8. QED
    BY <2>1, <2>4, <2>5, <2>6, <2>7, SameReport DEF MachineInv
<1>11. QED
  BY <1>1, <1>2, <1>d, <1>3, <1>4, <1>6, <1>7, <1>8, <1>9, <1>10 DEF Next

LEMMA MachineHolds == Spec => [](MachineInv /\ RatesAreExact /\ BoxSharesAreExact)
  BY InitMachine, NextMachine, PTL DEF Spec

\* The counters held never run ahead of what was ever done, and neither does what
\* the interfaces, devices and processes there are say of it (collect.go:240-300).
THEOREM MachineTypeCorrect == Spec => []TypeOK
<1>1. ASSUME MachineInv PROVE TypeOK
  <2>1. /\ prev.cpu.total \in Nat /\ prev.time \in Nat /\ prev.disk \in Nat /\ ops \in Nat
        /\ prev.net \in Nat /\ net \in Nat /\ diskMark.back \in BOOLEAN /\ now \in Nat /\ prevBox.total \in Nat
    BY <1>1, HeldNumbers DEF MachineInv, DiskHeld
  <2>2. QED
    BY <1>1, <2>1 DEF MachineInv, Counters, CountersHeld, DiskHeld, BoxesHeld, TypeOK, Jiffies
<1>2. QED
  BY <1>1, MachineHolds, PTL

\* What a reading says was done is what was done since the last one, and never
\* more after an interface, a device or the kernel's iowait took a counter back,
\* for any interfaces and devices, any counters below the word size and any
\* readings that failed in between; of the disk, what was done since its counters
\* were last read (collect.go:262-270, 421-470).
THEOREM RatesSayWhatWasDone == Spec => []RatesAreExact
  BY MachineHolds, PTL

\* A container that lost no process has exactly its share of the processor, and no
\* container more than it used, for any containers and processes, however many are
\* cut off the list (containers.go:100-115).
THEOREM SharesSayWhatWasUsed == Spec => []BoxSharesAreExact
  BY MachineHolds, PTL

=============================================================================
