-------------------------- MODULE ReportingProofs --------------------------
(***************************************************************************)
(* Theorems about reporting, for every capacity, interval and bound.       *)
(***************************************************************************)
EXTENDS Reporting, TLAPS, SequenceTheorems, WellFoundedInduction, FiniteSetTheorems

\* The loop's own variables, apart from the buffer.
ScalarsOK ==
    /\ pc \in {"idle", "flush"}
    /\ results \in SUBSET Results
    /\ survey \in {"nil", "found"}
    /\ sent \in 0..MaxSends
    /\ failures \in 0..MaxFailures
    /\ interval \in MinInterval..MaxInterval
    /\ requested \in {0} \cup MinInterval..MaxInterval

QueueOK == queue \in Seq(Readings) /\ Len(queue) <= Capacity

OthersOK ==
    /\ taken \in 0..MaxReadings
    /\ collected \in 0..MaxResults
    /\ stored \in Seq(Readings)
    /\ told \in [Results -> Nat]
    /\ refused \in SUBSET Readings
    /\ forgotten \in SUBSET Readings
    /\ unreported \in SUBSET Results
    /\ lost \in 0..MaxLost
    /\ restarts \in 0..MaxRestarts

LEMMA TypeParts == TypeOK <=> ScalarsOK /\ QueueOK /\ OthersOK
  BY DEF TypeOK, UplinkTypeOK, ScalarsOK, QueueOK, OthersOK

\* The buffer after a push is a sequence within the capacity.
LEMMA PushTyped ==
    ASSUME NEW q \in Seq(Readings), Len(q) <= Capacity, NEW r \in Readings
    PROVE  Push(q, r) \in Seq(Readings) /\ Len(Push(q, r)) <= Capacity
<1>1. CASE Len(q) >= Capacity
  <2>1. q /= <<>>
    BY <1>1, UplinkAssumption
  <2>2. Tail(q) \in Seq(Readings) /\ Len(Tail(q)) = Len(q) - 1
    BY <2>1, HeadTailProperties
  <2>3. QED
    BY <1>1, <2>2, UplinkAssumption, AppendProperties DEF Push
<1>2. CASE ~(Len(q) >= Capacity)
  BY <1>2, UplinkAssumption, AppendProperties DEF Push
<1>3. QED
  BY <1>1, <1>2

LEMMA ClampTyped ==
    ASSUME NEW d \in Nat PROVE ClampInterval(d) \in MinInterval..MaxInterval
  BY UplinkAssumption DEF ClampInterval

LEMMA TypeInit == Init => TypeOK
<1> SUFFICES ASSUME Init PROVE TypeOK
  OBVIOUS
<1>1. ScalarsOK
  BY UplinkAssumption DEF Init, UplinkInit, ScalarsOK
<1>2. QueueOK
  BY UplinkAssumption DEF Init, UplinkInit, QueueOK
<1>3. OthersOK
  BY ReportingAssumption DEF Init, OthersOK
<1>4. QED
  BY <1>1, <1>2, <1>3, TypeParts

LEMMA TypeStep == TypeOK /\ [Next]_vars => TypeOK'
<1> SUFFICES ASSUME TypeOK, [Next]_vars PROVE ScalarsOK' /\ QueueOK' /\ OthersOK'
  <2>1. TypeOK' <=> ScalarsOK' /\ QueueOK' /\ OthersOK'
    BY TypeParts DEF TypeOK, UplinkTypeOK, ScalarsOK, QueueOK, OthersOK
  <2>2. QED
    BY <2>1
<1>0. ScalarsOK /\ QueueOK /\ OthersOK
  BY TypeParts
<1>h. queue /= <<>> => /\ Tail(queue) \in Seq(Readings)
                       /\ Len(Tail(queue)) = Len(queue) - 1
                       /\ Head(queue) \in Readings
  BY <1>0, HeadTailProperties DEF QueueOK
<1>p. PlatformTakes /\ queue /= <<>> =>
        stored' \in Seq(Readings) /\ told' \in [Results -> Nat]
  BY <1>0, <1>h, AppendProperties DEF PlatformTakes, OthersOK
<1> USE UplinkAssumption, ReportingAssumption
<1>1. CASE AgentTick
  <2>1. PICK due \in BOOLEAN : Tick(taken + 1, (collected + 1)..collected', due)
    BY <1>1 DEF AgentTick
  <2>2. taken + 1 \in Readings /\ collected' \in 0..MaxResults
    BY <1>0, <1>1 DEF AgentTick, OthersOK
  <2>3. (collected + 1)..collected' \subseteq Results
    BY <1>0, <2>2 DEF OthersOK
  <2>4. ScalarsOK'
    <3>1. results' \in SUBSET Results
      BY <1>0, <2>1, <2>3 DEF Tick, CollectResults, SurveyLogs, ScalarsOK
    <3>2. survey' \in {"nil", "found"} /\ pc' \in {"idle", "flush"}
      BY <1>0, <2>1 DEF Tick, CollectResults, SurveyLogs, ScalarsOK
    <3>3. QED
      BY <1>0, <2>1, <3>1, <3>2 DEF Tick, CollectResults, SurveyLogs, ScalarsOK
  <2>5. QueueOK'
    BY <1>0, <2>1, <2>2, PushTyped DEF Tick, CollectResults, SurveyLogs, QueueOK
  <2>6. OthersOK'
    BY <1>0, <1>1, <2>2 DEF AgentTick, OthersOK, platformVars, historyVars
  <2>7. QED
    BY <2>4, <2>5, <2>6
<1>2. CASE AgentTickWithoutReading \/ AgentFlushDone
  BY <1>0, <1>2 DEF AgentTickWithoutReading, AgentFlushDone, TickWithoutReading,
     FlushDone, EndTick, ScalarsOK, QueueOK, OthersOK, platformVars, countVars,
     historyVars
<1>3. CASE Accepted
  <2>1. PICK wish \in Wishes : SendAccepted(wish)
    BY <1>3 DEF Accepted, IsAccepted
  <2>2. ScalarsOK'
    BY <1>0, <2>1, ClampTyped DEF SendAccepted, OnSuccess, Sending, ScalarsOK
  <2>3. QueueOK'
    BY <1>0, <1>h, <2>1 DEF SendAccepted, OnSuccess, Sending, QueueOK
  <2>4. OthersOK'
    BY <1>0, <1>p, <1>3, <2>1
    DEF Accepted, SendAccepted, OnSuccess, Sending, OthersOK, countVars, historyVars
  <2>5. QED
    BY <2>2, <2>3, <2>4
<1>4. CASE ReplyLost \/ Unavailable
  <2>1. PICK ra \in Nat, spent \in Nat : SendFailed(ra, spent)
    BY <1>4 DEF ReplyLost, Unavailable
  <2>2. ScalarsOK'
    BY <1>0, <2>1 DEF SendFailed, EndTick, ScalarsOK
  <2>3. QueueOK'
    BY <1>0, <2>1 DEF SendFailed, QueueOK
  <2>4. queue /= <<>>
    BY <2>1 DEF SendFailed, Sending
  <2>5. ReplyLost => OthersOK'
    BY <1>0, <1>p, <2>4 DEF ReplyLost, OthersOK, countVars
  <2>6. Unavailable => OthersOK'
    BY <1>0 DEF Unavailable, OthersOK, platformVars, countVars, historyVars
  <2>7. QED
    BY <1>4, <2>2, <2>3, <2>5, <2>6
<1>5. CASE Refused
  <2>1. ScalarsOK'
    BY <1>0, <1>5 DEF Refused, SendRejected, EndTick, ScalarsOK
  <2>2. QueueOK'
    BY <1>0, <1>h, <1>5 DEF Refused, SendRejected, Sending, QueueOK
  <2>3. OthersOK'
    BY <1>0, <1>h, <1>5 DEF Refused, SendRejected, Sending, OthersOK,
       platformVars, countVars
  <2>4. QED
    BY <2>1, <2>2, <2>3
<1>6. CASE AgentRestart
  <2>1. ScalarsOK' /\ QueueOK'
    BY <1>6 DEF AgentRestart, Restart, ScalarsOK, QueueOK
  <2>2. ToSet(queue) \subseteq Readings
    BY <1>0 DEF ToSet, QueueOK
  <2>3. forgotten' \in SUBSET Readings /\ unreported' \in SUBSET Results
    BY <1>0, <1>6, <2>2 DEF AgentRestart, OthersOK, ScalarsOK
  <2>4. OthersOK'
    BY <1>0, <1>6, <2>3 DEF AgentRestart, OthersOK, platformVars, countVars
  <2>5. QED
    BY <2>1, <2>4
<1>7. CASE UNCHANGED vars
  BY <1>0, <1>7 DEF vars, uplinkVars, platformVars, countVars, historyVars,
     ScalarsOK, QueueOK, OthersOK
<1>8. QED
  BY <1>1, <1>2, <1>3, <1>4, <1>5, <1>6, <1>7 DEF Next

\* Every reachable state is well typed; above all, the buffer never holds more
\* than its capacity (buffer.go:26-33).
THEOREM TypeCorrect == Spec => []TypeOK
  BY TypeInit, TypeStep, PTL DEF Spec

----------------------------------------------------------------------------
(***************************************************************************)
(* In order.  StoredInOrder needs to know where the next reading to be     *)
(* sent stands: the buffer holds the newest readings without a gap         *)
(* (Window), and nothing stored is newer than its head (Behind); a stored  *)
(* reading can still be the head, after its reply was lost.                *)
(***************************************************************************)

Window == \A i \in 1..Len(queue) : queue[i] = taken - Len(queue) + i

Behind ==
    \A i \in 1..Len(stored) :
      stored[i] <= taken /\ (queue /= <<>> => stored[i] <= taken - Len(queue) + 1)

OrderInv == Window /\ Behind /\ StoredInOrder

\* The head of the buffer leaves a buffer with the same properties.
LEMMA TailKeepsOrder ==
    ASSUME TypeOK, Window, queue /= <<>>, queue' = Tail(queue), taken' = taken
    PROVE  /\ Window'
           /\ Len(queue') = Len(queue) - 1
           /\ Head(queue) = taken - Len(queue) + 1
<1>1. queue \in Seq(Readings) /\ taken \in Nat /\ Len(queue) \in Nat \ {0}
  BY ReportingAssumption, EmptySeq DEF TypeOK, UplinkTypeOK
<1>2. /\ Len(Tail(queue)) = Len(queue) - 1
      /\ \A i \in 1..Len(Tail(queue)) : Tail(queue)[i] = queue[i + 1]
      /\ Head(queue) = queue[1]
  BY <1>1, HeadTailProperties
<1>3. Window'
  BY <1>1, <1>2 DEF Window
<1>4. QED
  BY <1>1, <1>2, <1>3 DEF Window

\* A push adds the newest reading behind the others, giving up the oldest if need be.
LEMMA PushKeepsOrder ==
    ASSUME TypeOK, Window, queue' = Push(queue, taken + 1), taken' = taken + 1
    PROVE  /\ Window'
           /\ Len(queue') \in {Len(queue), Len(queue) + 1}
           /\ queue' /= <<>>
<1>1. queue \in Seq(Readings) /\ taken \in Nat /\ Len(queue) \in Nat
  BY ReportingAssumption DEF TypeOK, UplinkTypeOK
<1> DEFINE base == IF Len(queue) >= Capacity THEN Tail(queue) ELSE queue
<1>2. /\ base \in Seq(Readings)
      /\ Len(base) \in {Len(queue), Len(queue) - 1} /\ Len(base) \in Nat
      /\ \A i \in 1..Len(base) : base[i] = taken - Len(base) + i
  <2>1. CASE Len(queue) >= Capacity
    <3>1. queue /= <<>>
      BY <1>1, <2>1, UplinkAssumption
    <3>2. /\ Tail(queue) \in Seq(Readings)
          /\ Len(Tail(queue)) = Len(queue) - 1
          /\ \A i \in 1..Len(Tail(queue)) : Tail(queue)[i] = queue[i + 1]
      BY <1>1, <3>1, HeadTailProperties
    <3>3. Len(queue) - 1 \in Nat
      BY <1>1, <2>1, UplinkAssumption
    <3>4. QED
      BY <1>1, <2>1, <3>2, <3>3 DEF Window
  <2>2. CASE ~(Len(queue) >= Capacity)
    BY <1>1, <2>2 DEF Window
  <2>3. QED
    BY <2>1, <2>2
<1>3. queue' = Append(base, taken + 1)
  BY DEF Push
<1> HIDE DEF base
<1>4. /\ Len(queue') = Len(base) + 1
      /\ queue'[Len(base) + 1] = taken + 1
      /\ \A i \in 1..Len(base) : queue'[i] = base[i]
  BY <1>1, <1>2, <1>3
<1>5. Window'
  BY <1>1, <1>2, <1>4 DEF Window
<1>6. QED
  BY <1>1, <1>2, <1>4, <1>5

\* Taking the head again stores nothing; taking it for the first time stores a
\* reading newer than all stored before.
LEMMA StoreKeepsOrder ==
    ASSUME TypeOK, OrderInv, queue /= <<>>, PlatformTakes, taken' = taken
    PROVE  /\ StoredInOrder'
           /\ \A i \in 1..Len(stored') : stored'[i] <= taken - Len(queue) + 1
<1>1. /\ stored \in Seq(Readings) /\ taken \in Nat
      /\ queue \in Seq(Readings) /\ Len(queue) \in Nat \ {0}
  BY ReportingAssumption, EmptySeq DEF TypeOK, UplinkTypeOK
<1>2. Head(queue) = taken - Len(queue) + 1 /\ Head(queue) \in Int
  BY <1>1 DEF OrderInv, Window
<1>3. \A i \in 1..Len(stored) : stored[i] \in Int /\ stored[i] <= Head(queue)
  BY <1>1, <1>2, ReportingAssumption DEF OrderInv, Behind
<1>4. CASE Contains(stored, Head(queue))
  BY <1>2, <1>3, <1>4 DEF PlatformTakes, OrderInv, StoredInOrder
<1>5. CASE ~Contains(stored, Head(queue))
  <2>1. \A i \in 1..Len(stored) : stored[i] < Head(queue)
    BY <1>2, <1>3, <1>5 DEF Contains
  <2>2. /\ Len(stored') = Len(stored) + 1
        /\ stored'[Len(stored) + 1] = Head(queue)
        /\ \A i \in 1..Len(stored) : stored'[i] = stored[i]
    BY <1>1, <1>5 DEF PlatformTakes
  <2>3. Len(stored) \in Nat
    BY <1>1
  <2>4. ASSUME NEW i \in 1..Len(stored'), NEW j \in 1..Len(stored'), i < j
        PROVE  stored'[i] < stored'[j]
    <3>1. i \in 1..Len(stored)
      BY <2>2, <2>3, <2>4
    <3>2. CASE j = Len(stored) + 1
      BY <2>1, <2>2, <3>1, <3>2
    <3>3. CASE j \in 1..Len(stored)
      BY <2>2, <2>4, <3>1, <3>3 DEF OrderInv, StoredInOrder
    <3>4. QED
      BY <2>2, <2>3, <3>2, <3>3
  <2>5. ASSUME NEW i \in 1..Len(stored')
        PROVE  stored'[i] <= taken - Len(queue) + 1
    <3>1. CASE i = Len(stored) + 1
      BY <1>2, <2>2, <3>1
    <3>2. CASE i \in 1..Len(stored)
      BY <1>2, <1>3, <2>2, <3>2
    <3>3. QED
      BY <2>2, <2>3, <3>1, <3>2
  <2>6. QED
    BY <2>4, <2>5 DEF StoredInOrder
<1>6. QED
  BY <1>4, <1>5

LEMMA OrderInit == Init => OrderInv
  BY DEF Init, UplinkInit, OrderInv, Window, Behind, StoredInOrder

LEMMA OrderStep == TypeOK /\ OrderInv /\ [Next]_vars => OrderInv'
<1> SUFFICES ASSUME TypeOK, OrderInv, [Next]_vars PROVE OrderInv'
  OBVIOUS
<1>0. /\ stored \in Seq(Readings) /\ taken \in Nat
      /\ queue \in Seq(Readings) /\ Len(queue) \in Nat
      /\ \A i \in 1..Len(stored) : stored[i] \in Nat
      /\ Window /\ Behind /\ StoredInOrder
  BY ReportingAssumption DEF TypeOK, UplinkTypeOK, OrderInv
<1>t. \A i \in 1..Len(stored') : stored'[i] \in Nat
  <2>1. stored' \in Seq(Readings)
    BY TypeStep DEF TypeOK
  <2>2. QED
    BY <2>1, ReportingAssumption
<1>1. CASE AgentTick
  <2>1. queue' = Push(queue, taken + 1) /\ taken' = taken + 1 /\ stored' = stored
    BY <1>1 DEF AgentTick, Tick, CollectResults, SurveyLogs, platformVars
  <2>2. /\ Window' /\ queue' /= <<>>
        /\ Len(queue') \in {Len(queue), Len(queue) + 1}
    BY <1>0, <2>1, PushKeepsOrder
  <2>3. Behind'
    <3>1. CASE queue = <<>>
      <4>1. Len(queue) = 0
        BY <3>1, EmptySeq
      <4>2. \A i \in 1..Len(stored) : stored[i] <= taken
        BY <1>0 DEF Behind
      <4>3. Len(queue') \in {0, 1}
        BY <2>2, <4>1
      <4>4. ASSUME NEW i \in 1..Len(stored)
            PROVE  /\ stored[i] <= taken + 1
                   /\ stored[i] <= (taken + 1) - Len(queue') + 1
        <5>1. stored[i] \in Nat /\ taken \in Nat /\ stored[i] <= taken
          BY <1>0, <4>2
        <5>2. CASE Len(queue') = 0
          BY <5>1, <5>2
        <5>3. CASE Len(queue') = 1
          BY <5>1, <5>3
        <5>4. QED
          BY <4>3, <5>2, <5>3
      <4>5. QED
        BY <2>1, <4>4 DEF Behind
    <3>2. CASE queue /= <<>>
      BY <1>0, <2>1, <2>2, <3>2 DEF Behind
    <3>3. QED
      BY <3>1, <3>2
  <2>4. QED
    BY <1>0, <2>1, <2>2, <2>3 DEF OrderInv, StoredInOrder
<1>2. CASE Accepted
  <2>1. queue /= <<>> /\ queue' = Tail(queue) /\ taken' = taken /\ PlatformTakes
    BY <1>2 DEF Accepted, IsAccepted, SendAccepted, OnSuccess, Sending, countVars
  <2>2. Window' /\ Len(queue') = Len(queue) - 1
    BY <1>0, <2>1, TailKeepsOrder
  <2>3. /\ StoredInOrder'
        /\ \A i \in 1..Len(stored') : stored'[i] <= taken - Len(queue) + 1
    BY <2>1, StoreKeepsOrder
  <2>4. Len(queue) >= 1
    BY <1>0, <2>1, EmptySeq
  <2>5. QED
    BY <1>0, <1>t, <2>1, <2>2, <2>3, <2>4 DEF OrderInv, Behind
<1>3. CASE ReplyLost
  <2>1. queue /= <<>> /\ queue' = queue /\ taken' = taken /\ PlatformTakes
    BY <1>3 DEF ReplyLost, SendFailed, Sending, countVars
  <2>2. /\ StoredInOrder'
        /\ \A i \in 1..Len(stored') : stored'[i] <= taken - Len(queue) + 1
    BY <2>1, StoreKeepsOrder
  <2>3. Len(queue) >= 1
    BY <1>0, <2>1, EmptySeq
  <2>4. QED
    BY <1>0, <1>t, <2>1, <2>2, <2>3 DEF OrderInv, Window, Behind
<1>4. CASE Refused
  <2>1. queue /= <<>> /\ queue' = Tail(queue) /\ taken' = taken /\ stored' = stored
    BY <1>4 DEF Refused, SendRejected, Sending, countVars, platformVars
  <2>2. Window' /\ Len(queue') = Len(queue) - 1
    BY <1>0, <2>1, TailKeepsOrder
  <2>3. QED
    BY <1>0, <2>1, <2>2 DEF OrderInv, Behind, StoredInOrder
<1>5. CASE AgentRestart
  BY <1>0, <1>5
  DEF AgentRestart, Restart, OrderInv, Window, Behind, StoredInOrder,
      platformVars, countVars
<1>6. CASE \/ AgentTickWithoutReading \/ AgentFlushDone \/ Unavailable
           \/ UNCHANGED vars
  <2>1. UNCHANGED <<queue, taken, stored>>
    BY <1>6 DEF AgentTickWithoutReading, TickWithoutReading, AgentFlushDone,
       FlushDone, Unavailable, SendFailed, vars, uplinkVars, platformVars, countVars
  <2>2. QED
    BY <1>0, <2>1 DEF OrderInv, Window, Behind, StoredInOrder
<1>7. QED
  BY <1>1, <1>2, <1>3, <1>4, <1>5, <1>6 DEF Next

\* Whatever is retried, refused, dropped or lost, the platform stores readings in
\* the order they were taken, and none twice (main.go:390-425, buffer.go:9-14).
THEOREM OldestFirst == Spec => []StoredInOrder
<1>1. TypeOK /\ OrderInv => StoredInOrder
  BY DEF OrderInv
<1>2. QED
  BY TypeInit, TypeStep, OrderInit, OrderStep, <1>1, PTL DEF Spec

----------------------------------------------------------------------------
(***************************************************************************)
(* Outcomes.  OutcomesAreTold counts; for it to be kept, an outcome that   *)
(* is still waiting has been told at most once for every lost reply, and   *)
(* one that is not collected yet has not been told at all.                 *)
(***************************************************************************)

Waiting ==
    /\ \A x \in results : x <= collected /\ told[x] <= lost
    /\ \A x \in Results : x > collected => told[x] = 0

ToldInv == OutcomesAreTold /\ Waiting

LEMMA ToldInit == Init => ToldInv
  BY ReportingAssumption DEF Init, UplinkInit, ToldInv, OutcomesAreTold, Waiting

LEMMA ToldStep == TypeOK /\ ToldInv /\ [Next]_vars => ToldInv'
<1> SUFFICES ASSUME TypeOK, ToldInv, [Next]_vars PROVE ToldInv'
  OBVIOUS
<1> USE ReportingAssumption
<1>0. /\ collected \in 0..MaxResults /\ lost \in Nat
      /\ results \subseteq Results /\ told \in [Results -> Nat]
      /\ OutcomesAreTold /\ Waiting
  BY DEF TypeOK, UplinkTypeOK, ToldInv
<1>1. CASE AgentTick
  <2>1. /\ results' = results \cup (collected + 1)..collected'
        /\ collected' \in {collected, collected + 1} /\ collected' \in 0..MaxResults
        /\ UNCHANGED <<told, lost, unreported>>
    BY <1>1 DEF AgentTick, Tick, CollectResults, platformVars, historyVars
  <2>2. OutcomesAreTold'
    BY <1>0, <2>1 DEF OutcomesAreTold
  <2>3. Waiting'
    BY <1>0, <2>1 DEF Waiting
  <2>4. QED
    BY <2>2, <2>3 DEF ToldInv
<1>2. CASE Accepted
  <2>1. /\ results' = {}
        /\ told' = [x \in Results |-> IF x \in results THEN told[x] + 1 ELSE told[x]]
        /\ UNCHANGED <<collected, lost, unreported>>
    BY <1>2 DEF Accepted, IsAccepted, SendAccepted, PlatformTakes, countVars, historyVars
  <2>2. OutcomesAreTold'
    BY <1>0, <2>1 DEF OutcomesAreTold, Waiting
  <2>3. Waiting'
    BY <1>0, <2>1 DEF Waiting
  <2>4. QED
    BY <2>2, <2>3 DEF ToldInv
<1>3. CASE ReplyLost
  <2>1. /\ results' = results /\ lost' = lost + 1
        /\ told' = [x \in Results |-> IF x \in results THEN told[x] + 1 ELSE told[x]]
        /\ UNCHANGED <<collected, unreported>>
    BY <1>3 DEF ReplyLost, SendFailed, PlatformTakes, countVars
  <2>2. OutcomesAreTold'
    BY <1>0, <2>1 DEF OutcomesAreTold, Waiting
  <2>3. Waiting'
    BY <1>0, <2>1 DEF Waiting
  <2>4. QED
    BY <2>2, <2>3 DEF ToldInv
<1>4. CASE AgentRestart
  BY <1>0, <1>4 DEF AgentRestart, Restart, ToldInv, OutcomesAreTold, Waiting,
     platformVars, countVars
<1>5. CASE \/ AgentTickWithoutReading \/ AgentFlushDone \/ Unavailable \/ Refused
           \/ UNCHANGED vars
  <2>1. UNCHANGED <<results, told, collected, lost, unreported>>
    BY <1>5 DEF AgentTickWithoutReading, TickWithoutReading, AgentFlushDone, FlushDone,
       Unavailable, SendFailed, Refused, SendRejected, vars, uplinkVars, platformVars,
       countVars, historyVars
  <2>2. QED
    BY <1>0, <2>1 DEF ToldInv, OutcomesAreTold, Waiting
<1>6. QED
  BY <1>1, <1>2, <1>3, <1>4, <1>5 DEF Next

\* However many readings are refused, sends fail and replies are lost, no outcome
\* is let go of untold, unless its process died (main.go:401-402).
THEOREM OutcomesReachThePlatform == Spec => []OutcomesAreTold
<1>1. ToldInv => OutcomesAreTold
  BY DEF ToldInv
<1>2. QED
  BY TypeInit, TypeStep, ToldInit, ToldStep, <1>1, PTL DEF Spec

----------------------------------------------------------------------------
(***************************************************************************)
(* The backoff.  What it needs is that the doubling yields a number, which *)
(* is an induction over the failures; the cut then bounds it.              *)
(***************************************************************************)

\* Induction in the form the provers can use: over a set.
LEMMA FromOneUp ==
    ASSUME NEW S, 1 \in S, \A n \in Nat \ {0} : n \in S => n + 1 \in S
    PROVE  \A n \in Nat \ {0} : n \in S
<1> DEFINE R == {ss \in Nat \X Nat : ss[1] < ss[2]}
           T == {n \in Nat \ {0} : n \notin S}
<1> SUFFICES ASSUME T /= {} PROVE FALSE
  OBVIOUS
<1>1. IsWellFoundedOn(R, Nat)
  BY NatLessThanWellFounded DEF OpToRel
<1>2. PICK x \in T : \A y \in T : ~ (<<y, x>> \in R)
  <2>1. T \subseteq Nat
    OBVIOUS
  <2> HIDE DEF R, T
  <2> QED
    BY <1>1, <2>1, WFMin
<1>3. x \in Nat \ {0} /\ x /= 1
  BY <1>2
<1>4. x - 1 \in Nat \ {0} /\ <<x - 1, x>> \in R
  BY <1>3
<1>5. x - 1 \in S
  BY <1>2, <1>4
<1>6. (x - 1) + 1 \in S
  BY <1>4, <1>5
<1>7. (x - 1) + 1 = x
  BY <1>3
<1>8. QED
  BY <1>2, <1>6, <1>7

\* The next wait of the doubling.
Doubled(d) == IF d < MaxBackoff THEN 2 * d ELSE d

\* A series of n waits that starts with the interval and doubles.
IsDoubling(f, n) ==
    f = [i \in 1..n |-> IF i = 1 THEN interval
                        ELSE IF f[i - 1] < MaxBackoff THEN 2 * f[i - 1] ELSE f[i - 1]]

LEMMA DoublingExists ==
    ASSUME interval \in Nat, NEW n \in Nat \ {0}
    PROVE  \E f : IsDoubling(f, n)
<1> DEFINE S == {k \in Nat \ {0} : \E f : IsDoubling(f, k)}
<1>1. 1 \in S
  <2>1. IsDoubling([i \in 1..1 |-> interval], 1)
    BY DEF IsDoubling
  <2>2. QED
    BY <2>1
<1>2. ASSUME NEW k \in Nat \ {0}, k \in S PROVE k + 1 \in S
  <2>1. PICK f : IsDoubling(f, k)
    BY <1>2
  <2> DEFINE g == [i \in 1..(k + 1) |-> IF i = k + 1 THEN Doubled(f[k]) ELSE f[i]]
  <2>2. ASSUME NEW i \in 1..(k + 1)
        PROVE  g[i] = IF i = 1 THEN interval
                      ELSE IF g[i - 1] < MaxBackoff THEN 2 * g[i - 1] ELSE g[i - 1]
    <3>1. CASE i = k + 1
      BY <3>1 DEF Doubled
    <3>2. CASE i \in 1..k
      <4>1. f[i] = IF i = 1 THEN interval
                   ELSE IF f[i - 1] < MaxBackoff THEN 2 * f[i - 1] ELSE f[i - 1]
        BY <2>1, <3>2 DEF IsDoubling
      <4>2. QED
        BY <3>2, <4>1
    <3>3. QED
      BY <3>1, <3>2
  <2>3. IsDoubling(g, k + 1)
    BY <2>2 DEF IsDoubling
  <2>4. QED
    BY <2>3
<1>3. n \in S
  <2> HIDE DEF S
  <2> QED
    BY <1>1, <1>2, FromOneUp
<1>4. QED
  BY <1>3

LEMMA DoublingTyped ==
    ASSUME interval \in Nat, NEW n \in Nat \ {0}, NEW f, IsDoubling(f, n)
    PROVE  f[n] \in Nat
<1> DEFINE S == {k \in Nat \ {0} : k <= n => f[k] \in Nat}
<1>0. \A i \in 1..n : f[i] = IF i = 1 THEN interval
                             ELSE IF f[i - 1] < MaxBackoff THEN 2 * f[i - 1] ELSE f[i - 1]
  BY DEF IsDoubling
<1>1. 1 \in S
  BY <1>0
<1>2. ASSUME NEW k \in Nat \ {0}, k \in S PROVE k + 1 \in S
  <2>1. CASE k + 1 <= n
    <3>1. f[k] \in Nat
      BY <1>2, <2>1
    <3>2. f[k + 1] = IF f[k] < MaxBackoff THEN 2 * f[k] ELSE f[k]
      BY <1>0, <2>1
    <3>3. QED
      BY <3>1, <3>2
  <2>2. CASE ~(k + 1 <= n)
    BY <2>2
  <2>3. QED
    BY <2>1, <2>2
<1>3. n \in S
  <2> HIDE DEF S
  <2> QED
    BY <1>1, <1>2, FromOneUp
<1>4. QED
  BY <1>3

\* The backoff is the Retry-After, or at most MaxBackoff.
LEMMA BackoffBounded ==
    ASSUME interval \in Nat, NEW n \in Nat \ {0}, NEW ra \in Nat
    PROVE  Backoff(ra, n) = ra \/ Backoff(ra, n) \in 0..MaxBackoff
<1> DEFINE f == CHOOSE f : IsDoubling(f, n)
<1>1. IsDoubling(f, n)
  BY DoublingExists
<1>2. f[n] \in Nat
  <2> HIDE DEF f
  <2> QED
    BY <1>1, DoublingTyped
<1>3. Backoff(ra, n) = IF ra > 0 THEN ra
                       ELSE IF f[n] > MaxBackoff THEN MaxBackoff ELSE f[n]
  BY DEF Backoff, IsDoubling
<1> HIDE DEF f
<1>4. QED
  BY <1>2, <1>3, UplinkAssumption

\* What is left of a wait.
WaitOK ==
    \/ wait \in 0..(MaxBackoff + MaxSpent)
    \/ \E ra \in RetryAfters : wait \in 0..(ra + MaxSpent)

LEMMA ElapsedShorter ==
    ASSUME WaitOK, interval \in Nat \ {0}
    PROVE  /\ wait \in Nat /\ Elapsed \in 0..wait
           /\ Elapsed > 0 => Elapsed < wait
  BY UplinkAssumption DEF WaitOK, Elapsed

LEMMA WaitStep == TypeOK /\ WaitOK /\ [Next]_vars => WaitOK'
<1> SUFFICES ASSUME TypeOK, WaitOK, [Next]_vars PROVE WaitOK'
  OBVIOUS
<1> USE UplinkAssumption
<1>0. interval \in Nat \ {0} /\ failures \in 0..MaxFailures
  BY DEF TypeOK, UplinkTypeOK
<1>1. CASE AgentTick \/ AgentTickWithoutReading
  <2>1. wait' = Elapsed
    BY <1>1 DEF AgentTick, Tick, AgentTickWithoutReading, TickWithoutReading
  <2>2. wait' \in 0..wait /\ wait \in Nat
    BY <1>0, <2>1, ElapsedShorter
  <2>3. QED
    BY <2>2 DEF WaitOK
<1>2. CASE ReplyLost \/ Unavailable
  <2>1. PICK ra \in RetryAfters \cup {0}, spent \in 0..MaxSpent : SendFailed(ra, spent)
    BY <1>2 DEF ReplyLost, Unavailable
  <2> DEFINE n == IF failures < MaxFailures THEN failures + 1 ELSE failures
  <2>2. n \in Nat \ {0} /\ ra \in Nat
    BY <1>0
  <2>3. wait' = Backoff(ra, n) + spent
    BY <2>1 DEF SendFailed
  <2> HIDE DEF n
  <2>4. Backoff(ra, n) = ra \/ Backoff(ra, n) \in 0..MaxBackoff
    BY <1>0, <2>2, BackoffBounded
  <2>5. CASE Backoff(ra, n) \in 0..MaxBackoff
    BY <2>3, <2>5 DEF WaitOK
  <2>6. CASE Backoff(ra, n) = ra
    BY <2>2, <2>3, <2>6 DEF WaitOK
  <2>7. QED
    BY <2>4, <2>5, <2>6
<1>3. CASE Accepted \/ AgentRestart
  <2>1. wait' = 0
    BY <1>3 DEF Accepted, IsAccepted, SendAccepted, OnSuccess, AgentRestart, Restart
  <2>2. QED
    BY <2>1 DEF WaitOK
<1>4. CASE AgentFlushDone \/ Refused \/ UNCHANGED vars
  <2>1. wait' = wait
    BY <1>4 DEF AgentFlushDone, FlushDone, Refused, SendRejected, vars, uplinkVars
  <2>2. QED
    BY <2>1 DEF WaitOK
<1>5. QED
  BY <1>1, <1>2, <1>3, <1>4 DEF Next

\* A tick that does not come to send is closer to the next that does.
LEMMA TicksComeCloser ==
    ASSUME TypeOK, WaitOK, [Next]_vars, taken' > taken, pc' = "idle"
    PROVE  wait' < wait
<1>0. interval \in Nat \ {0} /\ taken \in Nat
  BY UplinkAssumption, ReportingAssumption DEF TypeOK, UplinkTypeOK
<1>1. AgentTick
  BY <1>0 DEF Next, AgentTickWithoutReading, AgentFlushDone, Accepted, ReplyLost,
     Unavailable, Refused, AgentRestart, vars, countVars
<1>2. wait' = Elapsed /\ Elapsed > 0
  BY <1>1 DEF AgentTick, Tick
<1>3. QED
  BY <1>0, <1>2, ElapsedShorter

\* No sequence of answers silences the agent: for every interval, backoff and
\* Retry-After the wait is bounded and shrinks (main.go:504-519).
THEOREM BackoffAlwaysEnds == Spec => BackoffEnds
<1>1. Init => WaitOK
  BY UplinkAssumption DEF Init, UplinkInit, WaitOK
<1>2. TypeOK /\ WaitOK /\ [Next]_vars =>
        [(taken' > taken /\ pc' = "idle") => wait' < wait]_vars
  BY TicksComeCloser
<1>3. QED
  BY TypeInit, TypeStep, <1>1, WaitStep, <1>2, PTL DEF Spec, BackoffEnds, WaitOK

----------------------------------------------------------------------------
(***************************************************************************)
(* The refinement.  By Window the buffer holds the readings from First to  *)
(* the newest, and by Behind only its head can be stored already, so what  *)
(* is outstanding is an interval, too.  Readings that were refused or died *)
(* with a process lie before it (GoneBehind): storing one never takes it   *)
(* back from those given up.                                               *)
(***************************************************************************)

GoneBehind == \A r \in refused \cup forgotten : r <= taken - Len(queue)

First == taken - Len(queue) + 1

\* The oldest reading that is outstanding, if one is.
OldestOut == IF First \in ToSet(stored) THEN First + 1 ELSE First

LEMMA QueueIsInterval ==
    ASSUME TypeOK, Window
    PROVE  /\ ToSet(queue) = First..taken
           /\ First \in Nat \ {0} /\ taken \in Nat /\ Len(queue) \in Nat
           /\ queue /= <<>> => Head(queue) = First
<1>1. /\ queue \in Seq(Readings) /\ taken \in Nat /\ Len(queue) \in Nat
      /\ DOMAIN queue = 1..Len(queue)
      /\ \A i \in 1..Len(queue) : queue[i] \in Nat \ {0}
  BY ReportingAssumption DEF TypeOK, UplinkTypeOK
<1>2. First \in Nat \ {0}
  <2>1. CASE Len(queue) = 0
    BY <1>1, <2>1 DEF First
  <2>2. CASE Len(queue) > 0
    <3>1. queue[1] = First
      BY <1>1, <2>2 DEF Window, First
    <3>2. QED
      BY <1>1, <2>2, <3>1
  <2>3. QED
    BY <1>1, <2>1, <2>2
<1>3. ASSUME NEW r \in First..taken PROVE r \in ToSet(queue)
  <2>1. r - First + 1 \in 1..Len(queue)
    <3>1. r \in Nat /\ r >= First /\ r <= taken
      BY <1>1, <1>2
    <3>2. Len(queue) = taken - First + 1
      BY <1>1 DEF First
    <3> QED
      BY <1>1, <1>2, <3>1, <3>2
  <2>2. queue[r - First + 1] = r
    BY <1>1, <2>1 DEF Window, First
  <2>3. QED
    BY <1>1, <2>1, <2>2 DEF ToSet
<1>4. ASSUME NEW r \in ToSet(queue) PROVE r \in First..taken
  <2>1. PICK i \in 1..Len(queue) : r = queue[i]
    BY <1>1 DEF ToSet
  <2>2. QED
    BY <1>1, <2>1 DEF Window, First
<1>5. queue /= <<>> => Head(queue) = First
  <2>1. queue /= <<>> => Len(queue) > 0 /\ Head(queue) = queue[1]
    BY <1>1, EmptySeq, HeadTailProperties
  <2>2. QED
    BY <1>1, <2>1 DEF Window, First
<1>6. QED
  BY <1>1, <1>2, <1>3, <1>4, <1>5

IntervalOut ==
    /\ Outstanding = OldestOut..taken
    /\ OldestOut \in Nat \ {0} /\ First \in Nat \ {0} /\ taken \in Nat
    /\ \A r \in ToSet(stored) : r <= taken /\ r <= First /\ r < OldestOut

LEMMA OutstandingIsInterval == TypeOK /\ OrderInv => IntervalOut
<1> SUFFICES ASSUME TypeOK, OrderInv PROVE IntervalOut
  OBVIOUS
<1>1. /\ ToSet(queue) = First..taken
      /\ First \in Nat \ {0} /\ taken \in Nat /\ Len(queue) \in Nat
  BY QueueIsInterval DEF OrderInv
<1>2. stored \in Seq(Readings) /\ DOMAIN stored = 1..Len(stored)
  BY DEF TypeOK
<1>3. ASSUME NEW r \in ToSet(stored)
      PROVE  r \in Nat /\ r <= taken /\ r <= First
  <2>1. PICK i \in 1..Len(stored) : r = stored[i]
    BY <1>2 DEF ToSet
  <2>2. r \in Nat /\ r <= taken /\ (queue /= <<>> => r <= First)
    BY <1>2, <2>1, ReportingAssumption DEF OrderInv, Behind, First
  <2>3. queue = <<>> => First = taken + 1
    BY <1>1 DEF First
  <2>4. QED
    BY <1>1, <2>2, <2>3
<1>4. OldestOut \in Nat \ {0}
  BY <1>1 DEF OldestOut
<1>5. \A r \in ToSet(stored) : r < OldestOut
  BY <1>1, <1>3 DEF OldestOut
<1>6. Outstanding = OldestOut..taken
  BY <1>1, <1>3 DEF Outstanding, OldestOut
<1>7. QED
  BY <1>1, <1>3, <1>4, <1>5, <1>6 DEF IntervalOut

\* The oldest of an interval is its first element.
LEMMA OldestOfInterval ==
    ASSUME NEW a \in Nat, NEW b \in Nat, a <= b
    PROVE  Abstract!Oldest(a..b) = a
<1>1. a \in a..b /\ \A r \in a..b : a <= r
  OBVIOUS
<1>2. \A x \in a..b : (\A r \in a..b : x <= r) => x = a
  BY <1>1
<1>3. QED
  BY <1>1, <1>2 DEF Abstract!Oldest

\* A push costs a reading only when the buffer is full.
LEMMA PushLength ==
    ASSUME TypeOK, queue' = Push(queue, taken + 1)
    PROVE  Len(queue') = IF Len(queue) = Capacity THEN Len(queue) ELSE Len(queue) + 1
<1>1. queue \in Seq(Readings) /\ Len(queue) \in Nat /\ Len(queue) <= Capacity
  BY DEF TypeOK, UplinkTypeOK
<1>2. CASE Len(queue) = Capacity
  <2>1. Tail(queue) \in Seq(Readings) /\ Len(Tail(queue)) = Len(queue) - 1
    BY <1>1, <1>2, UplinkAssumption, HeadTailProperties
  <2>2. queue' = Append(Tail(queue), taken + 1)
    BY <1>1, <1>2, UplinkAssumption DEF Push
  <2>3. QED
    BY <1>1, <1>2, <2>1, <2>2
<1>3. CASE Len(queue) /= Capacity
  <2>1. queue' = Append(queue, taken + 1)
    BY <1>1, <1>3, UplinkAssumption DEF Push
  <2>2. QED
    BY <1>1, <1>3, <2>1
<1>4. QED
  BY <1>2, <1>3

\* Taking a reading is Take.
LEMMA TickTakes ==
    ASSUME TypeOK, OrderInv, IntervalOut, IntervalOut', AgentTick
    PROVE  Abstract!Take
<1>1. /\ queue' = Push(queue, taken + 1) /\ taken' = taken + 1
      /\ UNCHANGED <<stored, refused, forgotten>>
  BY DEF AgentTick, Tick, platformVars, historyVars
<1>2. Len(queue') = IF Len(queue) = Capacity THEN Len(queue) ELSE Len(queue) + 1
  BY <1>1, PushLength
<1>3. /\ Len(queue) \in 0..Capacity /\ Capacity \in Nat \ {0} /\ taken \in Nat
      /\ First = taken - Len(queue) + 1
  BY UplinkAssumption, ReportingAssumption DEF TypeOK, UplinkTypeOK, First
<1>4. First' = IF Len(queue) = Capacity THEN First + 1 ELSE First
  <2>1. First' = (taken + 1) - Len(queue') + 1
    BY <1>1 DEF First
  <2>2. QED
    BY <1>2, <1>3, <2>1
<1>5. OldestOut' = IF First' \in ToSet(stored) THEN First' + 1 ELSE First'
  BY <1>1 DEF OldestOut
<1>6. /\ First \in Nat \ {0} /\ OldestOut \in Nat \ {0}
      /\ \A r \in ToSet(stored) : r <= taken /\ r <= First
      /\ OldestOut = IF First \in ToSet(stored) THEN First + 1 ELSE First
      /\ Outstanding = OldestOut..taken
      /\ Outstanding' = OldestOut'..(taken + 1)
  BY <1>1 DEF IntervalOut, OldestOut
<1> DEFINE all == Outstanding \cup {taken + 1}
<1>7. OldestOut <= taken + 1
  BY <1>3, <1>6
<1>8. all = OldestOut..(taken + 1) /\ Cardinality(all) = taken + 2 - OldestOut
  <2>1. all = OldestOut..(taken + 1)
    BY <1>3, <1>6, <1>7
  <2>2. Cardinality(OldestOut..(taken + 1)) = (taken + 1) - OldestOut + 1
    <3>1. OldestOut \in Int /\ taken + 1 \in Int /\ ~(OldestOut > taken + 1)
      BY <1>3, <1>6, <1>7
    <3>2. QED
      BY <3>1, FS_Interval
  <2>3. (taken + 1) - OldestOut + 1 = taken + 2 - OldestOut
    BY <1>3, <1>6
  <2>4. QED
    BY <2>1, <2>2, <2>3
<1> HIDE DEF all
<1>9. Outstanding' = IF Cardinality(all) > Capacity
                     THEN all \ {Abstract!Oldest(all)} ELSE all
  <2>1. CASE Len(queue) = Capacity /\ First \notin ToSet(stored)
    <3>1. Cardinality(all) > Capacity /\ OldestOut = First
      BY <1>3, <1>6, <1>8, <2>1
    <3>2. OldestOut' = First + 1
      BY <1>4, <1>5, <1>6, <2>1
    <3>3. Abstract!Oldest(all) = First
      BY <1>3, <1>6, <1>7, <1>8, <3>1, OldestOfInterval
    <3>4. QED
      BY <1>3, <1>6, <1>7, <1>8, <3>1, <3>2, <3>3
  <2>2. CASE Len(queue) = Capacity /\ First \in ToSet(stored)
    <3>1. ~(Cardinality(all) > Capacity) /\ OldestOut = First + 1
      BY <1>3, <1>6, <1>8, <2>2
    <3>2. OldestOut' = First + 1
      BY <1>4, <1>5, <1>6, <2>2
    <3>3. QED
      BY <1>6, <1>8, <3>1, <3>2
  <2>3. CASE Len(queue) /= Capacity
    <3>1. ~(Cardinality(all) > Capacity)
      <4>1. OldestOut >= First /\ Len(queue) + 1 <= Capacity
        BY <1>3, <1>6, <2>3
      <4>2. Cardinality(all) = taken + 2 - OldestOut
        BY <1>8
      <4>3. OldestOut \in Nat /\ First \in Nat /\ taken \in Nat /\ Len(queue) \in Nat
        BY <1>3, <1>6
      <4>4. First = taken - Len(queue) + 1 /\ Capacity \in Nat
        BY <1>3
      <4>5. taken + 2 - OldestOut <= Capacity
        BY <4>1, <4>3, <4>4
      <4>6. QED
        BY <4>2, <4>3, <4>4, <4>5
    <3>2. OldestOut' = OldestOut
      BY <1>4, <1>5, <1>6, <2>3
    <3>3. QED
      BY <1>6, <1>8, <3>1, <3>2
  <2>4. QED
    BY <2>1, <2>2, <2>3
<1>10. QED
  <2>1. UNCHANGED <<(refused \cup forgotten) \ ToSet(stored), stored>>
    BY <1>1
  <2>2. Outstanding' = LET new == Outstanding \cup {taken + 1}
                       IN  IF Cardinality(new) > Capacity
                           THEN new \ {Abstract!Oldest(new)} ELSE new
    BY <1>9 DEF all
  <2>3. QED
    BY <1>1, <2>1, <2>2 DEF Abstract!Take, Abstract!Cardinality, Cardinality

FeedInv == TypeOK /\ OrderInv /\ GoneBehind

LEMMA GoneStep == FeedInv /\ [Next]_vars => GoneBehind'
<1> SUFFICES ASSUME FeedInv, [Next]_vars PROVE GoneBehind'
  OBVIOUS
<1>0. /\ TypeOK /\ OrderInv /\ GoneBehind
      /\ refused \cup forgotten \subseteq Nat
      /\ taken \in Nat /\ Len(queue) \in Nat /\ queue \in Seq(Readings)
  BY ReportingAssumption DEF FeedInv, TypeOK, UplinkTypeOK
<1>1. CASE AgentTick
  <2>1. /\ queue' = Push(queue, taken + 1) /\ taken' = taken + 1
        /\ UNCHANGED <<refused, forgotten>>
    BY <1>1 DEF AgentTick, Tick, historyVars
  <2>2. Len(queue') \in {Len(queue), Len(queue) + 1}
    BY <1>0, <2>1, PushLength
  <2>3. QED
    BY <1>0, <2>1, <2>2 DEF GoneBehind
<1>2. CASE Accepted
  <2>1. queue /= <<>> /\ queue' = Tail(queue) /\ UNCHANGED <<taken, refused, forgotten>>
    BY <1>2 DEF Accepted, IsAccepted, SendAccepted, Sending, countVars, historyVars
  <2>2. Len(queue') = Len(queue) - 1
    BY <1>0, <2>1, HeadTailProperties
  <2>3. QED
    BY <1>0, <2>1, <2>2 DEF GoneBehind
<1>3. CASE Refused
  <2>1. /\ queue /= <<>> /\ queue' = Tail(queue) /\ UNCHANGED <<taken, forgotten>>
        /\ refused' = refused \cup {Head(queue)}
    BY <1>3 DEF Refused, SendRejected, Sending, countVars
  <2>2. Len(queue') = Len(queue) - 1 /\ Head(queue) = taken - Len(queue) + 1
    BY <1>0, <2>1, TailKeepsOrder DEF OrderInv
  <2>3. QED
    BY <1>0, <2>1, <2>2 DEF GoneBehind
<1>4. CASE AgentRestart
  <2>1. /\ queue' = <<>> /\ UNCHANGED <<taken, refused>>
        /\ forgotten' = forgotten \cup ToSet(queue)
    BY <1>4 DEF AgentRestart, Restart, countVars
  <2>2. \A r \in ToSet(queue) : r <= taken
    BY <1>0, QueueIsInterval DEF OrderInv
  <2>3. Len(queue') = 0
    BY <2>1, EmptySeq
  <2>4. QED
    BY <1>0, <2>1, <2>2, <2>3 DEF GoneBehind
<1>5. CASE \/ AgentTickWithoutReading \/ AgentFlushDone \/ ReplyLost \/ Unavailable
           \/ UNCHANGED vars
  <2>1. UNCHANGED <<queue, taken, refused, forgotten>>
    BY <1>5 DEF AgentTickWithoutReading, TickWithoutReading, AgentFlushDone, FlushDone,
       ReplyLost, Unavailable, SendFailed, vars, uplinkVars, countVars, historyVars
  <2>2. QED
    BY <1>0, <2>1 DEF GoneBehind
<1>6. QED
  BY <1>1, <1>2, <1>3, <1>4, <1>5 DEF Next

\* The head of the buffer, and what the platform makes of it.
LEMMA HeadFacts ==
    ASSUME FeedInv, IntervalOut, queue /= <<>>
    PROVE  /\ Head(queue) = First /\ First <= taken
           /\ First \notin refused \cup forgotten
           /\ First \in ToSet(stored) => First \notin Outstanding
           /\ First \notin ToSet(stored) =>
                /\ First \in Outstanding
                /\ Abstract!Oldest(Outstanding) = First
<1>1. /\ Head(queue) = First /\ First \in Nat /\ taken \in Nat /\ Len(queue) \in Nat
  BY QueueIsInterval DEF FeedInv, OrderInv
<1>2. First <= taken
  <2>1. Len(queue) > 0
    BY <1>1, EmptySeq DEF FeedInv, TypeOK, UplinkTypeOK
  <2>2. QED
    BY <1>1, <2>1 DEF First
<1>3. First \notin refused \cup forgotten
  BY <1>1 DEF FeedInv, GoneBehind, First
<1>4. CASE First \in ToSet(stored)
  BY <1>1, <1>2, <1>3, <1>4 DEF Outstanding
<1>5. CASE First \notin ToSet(stored)
  <2>1. OldestOut = First /\ Outstanding = First..taken
    BY <1>5 DEF OldestOut, IntervalOut
  <2>2. QED
    BY <1>1, <1>2, <1>3, <1>5, <2>1, OldestOfInterval
<1>6. QED
  BY <1>4, <1>5

\* What the platform has stored after it took the head of the buffer.
LEMMA TakesHead ==
    ASSUME FeedInv, queue /= <<>>, Head(queue) = First, PlatformTakes
    PROVE  /\ First \in ToSet(stored) => stored' = stored
           /\ First \notin ToSet(stored) =>
                stored' = Append(stored, First) /\ ToSet(stored') = ToSet(stored) \cup {First}
<1>1. stored \in Seq(Readings) /\ DOMAIN stored = 1..Len(stored) /\ Len(stored) \in Nat
  BY DEF FeedInv, TypeOK
<1>2. Contains(stored, First) <=> First \in ToSet(stored)
  BY <1>1 DEF Contains, ToSet
<1>3. stored' = IF First \in ToSet(stored) THEN stored ELSE Append(stored, First)
  BY <1>2 DEF PlatformTakes
<1>4. ASSUME First \notin ToSet(stored) PROVE ToSet(stored') = ToSet(stored) \cup {First}
  <2>1. /\ DOMAIN stored' = 1..(Len(stored) + 1)
        /\ stored'[Len(stored) + 1] = First
        /\ \A i \in 1..Len(stored) : stored'[i] = stored[i]
    BY <1>1, <1>3, <1>4
  <2>2. QED
    BY <1>1, <2>1 DEF ToSet
<1>5. QED
  BY <1>3, <1>4

\* Once the head has left the buffer, or has been stored, what follows it is
\* outstanding.
LEMMA HeadLeaves ==
    ASSUME FeedInv, IntervalOut, IntervalOut', queue /= <<>>, taken' = taken,
           ToSet(stored') \subseteq ToSet(stored) \cup {First},
           \/ queue' = Tail(queue)
           \/ queue' = queue /\ First \in ToSet(stored')
    PROVE  Outstanding' = (First + 1)..taken
<1>1. /\ First \in Nat /\ taken \in Nat
      /\ \A r \in ToSet(stored') : r <= First
      /\ Outstanding' = OldestOut'..taken
      /\ queue \in Seq(Readings) /\ Len(queue) \in Nat
  BY DEF IntervalOut, FeedInv, TypeOK, UplinkTypeOK
<1>2. CASE queue' = Tail(queue)
  <2>1. Len(queue') = Len(queue) - 1
    BY <1>1, <1>2, HeadTailProperties
  <2>2. First' = First + 1
    BY <1>1, <2>1 DEF First
  <2>3. First' \notin ToSet(stored')
    BY <1>1, <2>2
  <2>4. QED
    BY <1>1, <2>2, <2>3 DEF OldestOut
<1>3. CASE queue' = queue /\ First \in ToSet(stored')
  <2>1. First' = First
    BY <1>3 DEF First
  <2>2. OldestOut' = First + 1
    BY <1>3, <2>1 DEF OldestOut
  <2>3. QED
    BY <1>1, <2>2
<1>4. QED
  BY <1>2, <1>3

\* What is outstanding before the head leaves.
LEMMA BeforeHeadLeaves ==
    ASSUME FeedInv, IntervalOut, queue /= <<>>
    PROVE  (First + 1)..taken = Outstanding \ {First}
<1>1. Outstanding = OldestOut..taken /\ First \in Nat /\ taken \in Nat
  BY DEF IntervalOut
<1>2. QED
  BY <1>1 DEF OldestOut

\* Taking the head is Store, or changes nothing the feed knows of if the platform
\* had it already.
LEMMA TakingStores ==
    ASSUME FeedInv, IntervalOut, IntervalOut', queue /= <<>>, PlatformTakes,
           UNCHANGED <<taken, refused, forgotten>>,
           queue' = Tail(queue) \/ queue' = queue
    PROVE  Abstract!Store \/ UNCHANGED Abstract!feedVars
<1> DEFINE Gone == (refused \cup forgotten) \ ToSet(stored)
<1>1. /\ Head(queue) = First /\ First \notin refused \cup forgotten
      /\ First \in ToSet(stored) => First \notin Outstanding
      /\ First \notin ToSet(stored) =>
           First \in Outstanding /\ Abstract!Oldest(Outstanding) = First
  BY HeadFacts
<1>2. /\ First \in ToSet(stored) => stored' = stored
      /\ First \notin ToSet(stored) =>
           stored' = Append(stored, First) /\ ToSet(stored') = ToSet(stored) \cup {First}
  BY <1>1, TakesHead
<1>3. First \in ToSet(stored') /\ ToSet(stored') \subseteq ToSet(stored) \cup {First}
  BY <1>2
<1>4. Outstanding' = Outstanding \ {First}
  BY <1>3, HeadLeaves, BeforeHeadLeaves
<1>5. CASE First \in ToSet(stored)
  <2>1. Outstanding' = Outstanding /\ stored' = stored
    BY <1>1, <1>2, <1>4, <1>5
  <2>2. QED
    BY <2>1 DEF Abstract!feedVars
<1>6. CASE First \notin ToSet(stored)
  <2>1. Gone' = Gone
    BY <1>1, <1>2, <1>6
  <2>2. Outstanding /= {} /\ Abstract!Oldest(Outstanding) = First
    BY <1>1, <1>6
  <2>3. stored' = Append(stored, Abstract!Oldest(Outstanding))
    BY <1>2, <1>6, <2>2
  <2>4. QED
    BY <1>4, <2>1, <2>2, <2>3 DEF Abstract!Store
<1>7. QED
  BY <1>5, <1>6

\* A refusal is GiveUp, unless the platform had stored the reading before.
LEMMA RefusalGivesUp ==
    ASSUME FeedInv, IntervalOut, IntervalOut', Refused
    PROVE  Abstract!GiveUp \/ UNCHANGED Abstract!feedVars
<1> DEFINE Gone == (refused \cup forgotten) \ ToSet(stored)
<1>0. /\ queue /= <<>> /\ queue' = Tail(queue) /\ refused' = refused \cup {Head(queue)}
      /\ UNCHANGED <<taken, stored, forgotten>>
  BY DEF Refused, SendRejected, Sending, countVars, platformVars
<1>1. /\ Head(queue) = First
      /\ First \in ToSet(stored) => First \notin Outstanding
      /\ First \notin ToSet(stored) =>
           First \in Outstanding /\ Abstract!Oldest(Outstanding) = First
  BY <1>0, HeadFacts
<1>2. Outstanding' = Outstanding \ {First}
  BY <1>0, HeadLeaves, BeforeHeadLeaves
<1>3. CASE First \in ToSet(stored)
  <2>1. Outstanding' = Outstanding /\ Gone' = Gone
    BY <1>0, <1>1, <1>2, <1>3
  <2>2. QED
    BY <1>0, <2>1 DEF Abstract!feedVars
<1>4. CASE First \notin ToSet(stored)
  <2>1. Gone' = Gone \cup {First}
    BY <1>0, <1>1, <1>4
  <2>2. Outstanding /= {} /\ Abstract!Oldest(Outstanding) = First
    BY <1>1, <1>4
  <2>3. QED
    BY <1>0, <1>2, <2>1, <2>2 DEF Abstract!GiveUp
<1>5. QED
  BY <1>3, <1>4

LEMMA FeedStep ==
    FeedInv /\ IntervalOut /\ IntervalOut' /\ [Next]_vars
      => [Abstract!FeedNext]_(Abstract!feedVars)
<1> SUFFICES ASSUME FeedInv, IntervalOut, IntervalOut', [Next]_vars
             PROVE  Abstract!FeedNext \/ UNCHANGED Abstract!feedVars
  OBVIOUS
<1>1. CASE AgentTick
  BY <1>1, TickTakes DEF FeedInv, Abstract!FeedNext
<1>2. CASE Accepted
  <2>1. /\ queue /= <<>> /\ queue' = Tail(queue) /\ PlatformTakes
        /\ UNCHANGED <<taken, refused, forgotten>>
    BY <1>2 DEF Accepted, IsAccepted, SendAccepted, Sending, countVars, historyVars
  <2>2. QED
    BY <2>1, TakingStores DEF Abstract!FeedNext
<1>3. CASE ReplyLost
  <2>1. /\ queue /= <<>> /\ queue' = queue /\ PlatformTakes
        /\ UNCHANGED <<taken, refused, forgotten>>
    BY <1>3 DEF ReplyLost, SendFailed, Sending, countVars
  <2>2. QED
    BY <2>1, TakingStores DEF Abstract!FeedNext
<1>4. CASE Refused
  BY <1>4, RefusalGivesUp DEF Abstract!FeedNext
<1>5. CASE AgentRestart
  <2>1. /\ queue' = <<>> /\ forgotten' = forgotten \cup ToSet(queue)
        /\ UNCHANGED <<taken, stored, refused>>
    BY <1>5 DEF AgentRestart, Restart, countVars, platformVars
  <2>2. Outstanding' = {}
    BY <2>1 DEF Outstanding, ToSet
  <2>3. ((refused \cup forgotten) \ ToSet(stored))'
          = ((refused \cup forgotten) \ ToSet(stored)) \cup Outstanding
    BY <2>1 DEF Outstanding
  <2>4. QED
    BY <2>1, <2>2, <2>3 DEF Abstract!FeedNext, Abstract!Forget
<1>6. CASE \/ AgentTickWithoutReading \/ AgentFlushDone \/ Unavailable
           \/ UNCHANGED vars
  <2>1. UNCHANGED <<queue, taken, stored, refused, forgotten>>
    BY <1>6 DEF AgentTickWithoutReading, TickWithoutReading, AgentFlushDone, FlushDone,
       Unavailable, SendFailed, vars, uplinkVars, platformVars, countVars, historyVars
  <2>2. QED
    BY <2>1 DEF Abstract!feedVars, Outstanding
<1>7. QED
  BY <1>1, <1>2, <1>3, <1>4, <1>5, <1>6 DEF Next

\* The loop with its backoff, retries and riders, the network that loses replies
\* and the platform that refuses readings together implement the feed, for every
\* capacity and every number of readings (main.go:371-425, buffer.go:26-48).
THEOREM ImplementsTheFeed == Spec => ImplementsFeed
<1>1. Init => FeedInv
  <2>1. Init => GoneBehind
    BY DEF Init, GoneBehind
  <2>2. QED
    BY <2>1, TypeInit, OrderInit DEF FeedInv
<1>2. FeedInv /\ [Next]_vars => FeedInv'
  <2>1. SUFFICES ASSUME FeedInv, [Next]_vars PROVE FeedInv'
    OBVIOUS
  <2>2. TypeOK' /\ OrderInv' /\ GoneBehind'
    BY <2>1, TypeStep, OrderStep, GoneStep DEF FeedInv
  <2>3. QED
    BY <2>2 DEF FeedInv
<1>3. FeedInv => IntervalOut
  BY OutstandingIsInterval DEF FeedInv
<1>4. Init => Abstract!FeedInit
  BY DEF Init, UplinkInit, Abstract!FeedInit, Outstanding, ToSet
<1>5. QED
  BY <1>1, <1>2, <1>3, <1>4, FeedStep, PTL DEF Spec, ImplementsFeed, Abstract!FeedSpec
============================================================================
