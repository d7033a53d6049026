--------------------------- MODULE HandoffProofs ---------------------------
(***************************************************************************)
(* Theorems about the handoff, for every set of ids and every bound.       *)
(***************************************************************************)
EXTENDS Handoff, TLAPS, WellFoundedInduction

\* The first entry of a non-empty directory listing is one of its entries.
LEMMA LeastIsMember ==
    ASSUME NEW S \in SUBSET Ids, S /= {}
    PROVE  Least(S) \in S
<1>1. S \subseteq Nat
  BY IdsAssumption
<1> DEFINE R == {ss \in Nat \X Nat : ss[1] < ss[2]}
<1>2. IsWellFoundedOn(R, Nat)
  BY NatLessThanWellFounded DEF OpToRel
<1>3. PICK x \in S : \A y \in S : ~ (<<y, x>> \in R)
  <2> HIDE DEF R
  <2> QED
    BY <1>1, <1>2, WFMin
<1>4. ASSUME NEW y \in S PROVE x <= y
  <2>1. x \in Nat /\ y \in Nat /\ ~ (<<y, x>> \in R)
    BY <1>1, <1>3
  <2>2. y < x => <<y, x>> \in R
    BY <2>1
  <2>3. QED
    BY <2>1, <2>2
<1>5. QED
  BY <1>4 DEF Least

\* Copies are numbered from one, so None is not one of them.
LEMMA CopyFacts ==
    /\ CopyOrNone = Copies \cup {None}
    /\ None \notin Copies
    /\ None \notin Ids
    /\ \A n \in CopyOrNone : n < MaxWrites => n + 1 \in Copies
  BY IdsAssumption, BoundsAssumption DEF Copies, CopyOrNone, None

\* A half that is working through a listing still has entries left.
AgentInv == AgentTypeOK /\ (apc \in {"read", "unlink"} => atodo /= {})
ExecutorInv == ExecutorTypeOK /\ (epc \in {"take", "unlink"} => todo /= {})

TypeInv ==
    SpoolTypeOK /\ AgentInv /\ ExecutorInv /\ MachineTypeOK /\ HistoryTypeOK

LEMMA TypeInvInit == Init => TypeInv
<1> SUFFICES ASSUME Init PROVE TypeInv
  OBVIOUS
<1>1. SpoolTypeOK /\ AgentInv /\ ExecutorInv
  BY CopyFacts DEF Init, SpoolTypeOK, AgentInv, AgentTypeOK, ExecutorInv,
     ExecutorTypeOK, NoFiles
<1>2. MachineTypeOK
  BY BoundsAssumption DEF Init, MachineTypeOK
<1>3. HistoryTypeOK
  BY BoundsAssumption, CopyFacts
  DEF Init, HistoryTypeOK, Requests, Outcomes, None
<1>4. QED
  BY <1>1, <1>2, <1>3 DEF TypeInv

\* A part of the state that an action leaves alone keeps its type.
LEMMA Untouched ==
    /\ SpoolTypeOK /\ UNCHANGED spoolVars => SpoolTypeOK'
    /\ AgentInv /\ UNCHANGED agentVars => AgentInv'
    /\ ExecutorInv /\ UNCHANGED executorVars => ExecutorInv'
    /\ MachineTypeOK /\ UNCHANGED machineVars => MachineTypeOK'
    /\ HistoryTypeOK /\ UNCHANGED historyVars => HistoryTypeOK'
  BY DEF SpoolTypeOK, AgentInv, AgentTypeOK, ExecutorInv, ExecutorTypeOK,
     MachineTypeOK, HistoryTypeOK, spoolVars, agentVars, executorVars,
     machineVars, historyVars, toldVars

LEMMA TypeInvStep == TypeInv /\ [Next]_vars => TypeInv'
<1> SUFFICES ASSUME TypeInv, [Next]_vars PROVE TypeInv'
  OBVIOUS
<1> USE IdsAssumption, BoundsAssumption DEF TypeInv, toldVars
<1>1. ASSUME NEW id \in Ids, BeginWrite(id) PROVE TypeInv'
  <2>1. SpoolTypeOK'
    BY <1>1, CopyFacts DEF BeginWrite, SpoolTypeOK, HistoryTypeOK
  <2>2. AgentInv'
    BY <1>1, CopyFacts DEF BeginWrite, AgentInv, AgentTypeOK, SpoolTypeOK
  <2>3. HistoryTypeOK'
    BY <1>1, CopyFacts DEF BeginWrite, HistoryTypeOK, SpoolTypeOK, AgentInv,
       AgentTypeOK, ExecutorInv, ExecutorTypeOK, Requests, MachineTypeOK
  <2>4. QED
    BY <1>1, <2>1, <2>2, <2>3, Untouched DEF BeginWrite, TypeInv
<1>2. CASE FinishWrite
  <2>1. SpoolTypeOK'
    BY <1>2, CopyFacts DEF FinishWrite, SpoolTypeOK, AgentInv, AgentTypeOK
  <2>2. AgentInv'
    BY <1>2, CopyFacts DEF FinishWrite, AgentInv, AgentTypeOK, SpoolTypeOK
  <2>3. QED
    BY <1>2, <2>1, <2>2, Untouched DEF FinishWrite, TypeInv
<1>3. CASE BeginCollect
  <2>1. AgentInv'
    BY <1>3, CopyFacts DEF BeginCollect, Present, AgentInv, AgentTypeOK,
       SpoolTypeOK
  <2>2. QED
    BY <1>3, <2>1, Untouched DEF BeginCollect, TypeInv
<1>4. CASE CollectRead
  <2>1. AgentInv'
    BY <1>4, CopyFacts, LeastIsMember DEF CollectRead, AgentInv, AgentTypeOK,
       SpoolTypeOK
  <2>2. QED
    BY <1>4, <2>1, Untouched DEF CollectRead, TypeInv
<1>5. CASE CollectUnlink
  <2>1. SpoolTypeOK'
    BY <1>5, CopyFacts, LeastIsMember DEF CollectUnlink, SpoolTypeOK,
       AgentInv, AgentTypeOK
  <2>2. AgentInv'
    BY <1>5, CopyFacts, LeastIsMember DEF CollectUnlink, AgentInv,
       AgentTypeOK, SpoolTypeOK
  <2>3. HistoryTypeOK'
    <3>1. dropped' \in SUBSET Copies
      <4>1. {results[Least(atodo)]} \ {ahold, None} \subseteq Copies
        BY <1>5, CopyFacts, LeastIsMember DEF CollectUnlink, SpoolTypeOK, AgentInv,
           AgentTypeOK
      <4>2. CASE shared
        BY <1>5, <4>1, <4>2 DEF CollectUnlink, HistoryTypeOK
      <4>3. CASE ~shared
        BY <1>5, <4>3 DEF CollectUnlink, HistoryTypeOK
      <4>4. QED
        BY <4>2, <4>3
    <3>2. {ahold} \ {None} \subseteq Copies
      BY CopyFacts DEF AgentInv, AgentTypeOK
    <3>3. collected' \in SUBSET Copies /\ retold' \in SUBSET Copies /\ kept' \in SUBSET Copies
      BY <1>5, <3>2 DEF CollectUnlink, Tell, HistoryTypeOK
    <3>4. QED
      BY <1>5, <3>1, <3>3 DEF CollectUnlink, HistoryTypeOK
  <2>4. QED
    BY <1>5, <2>1, <2>2, <2>3, Untouched DEF CollectUnlink, TypeInv
<1>6. CASE Start
  <2>1. ExecutorInv'
    BY <1>6, CopyFacts DEF Start, Present, ExecutorInv, ExecutorTypeOK,
       SpoolTypeOK
  <2>2. SpoolTypeOK'
    BY <1>6 DEF Start, SpoolTypeOK
  <2>3. QED
    BY <1>6, <2>1, <2>2, Untouched DEF Start, TypeInv
<1>7. CASE TakeRead
  <2>1. ExecutorInv'
    BY <1>7, CopyFacts, LeastIsMember DEF TakeRead, ExecutorInv,
       ExecutorTypeOK, SpoolTypeOK
  <2>2. QED
    BY <1>7, <2>1, Untouched DEF TakeRead, TypeInv
<1>8. CASE TakeUnlink
  <2>1. SpoolTypeOK'
    BY <1>8, CopyFacts, LeastIsMember DEF TakeUnlink, SpoolTypeOK,
       ExecutorInv, ExecutorTypeOK
  <2>2. ExecutorInv'
    BY <1>8, CopyFacts, LeastIsMember DEF TakeUnlink, ExecutorInv,
       ExecutorTypeOK, SpoolTypeOK, MachineTypeOK
  <2>3. HistoryTypeOK'
    BY <1>8, CopyFacts, LeastIsMember DEF TakeUnlink, HistoryTypeOK,
       SpoolTypeOK, AgentInv, AgentTypeOK, ExecutorInv, ExecutorTypeOK
  <2>4. QED
    BY <1>8, <2>1, <2>2, <2>3, Untouched DEF TakeUnlink, TypeInv
<1>9. CASE Lapse
  <2>1. ExecutorInv'
    BY <1>9, CopyFacts DEF Lapse, ExecutorInv, ExecutorTypeOK
  <2>2. HistoryTypeOK'
    BY <1>9, CopyFacts DEF Lapse, Outcomes, HistoryTypeOK
  <2>3. QED
    BY <1>9, <2>1, <2>2, Untouched DEF Lapse, TypeInv
<1>10. CASE Run \/ Refuse
  <2>1. ExecutorInv'
    BY <1>10 DEF Run, Refuse, ExecutorInv, ExecutorTypeOK
  <2>2. HistoryTypeOK'
    BY <1>10 DEF Run, Refuse, Outcomes, HistoryTypeOK
  <2>3. QED
    BY <1>10, <2>1, <2>2, Untouched DEF Run, Refuse, TypeInv
<1>26. CASE TakeUp
  <2>1. ExecutorInv'
    BY <1>26, CopyFacts DEF TakeUp, ExecutorInv, ExecutorTypeOK
  <2>2. QED
    BY <1>26, <2>1, Untouched DEF TakeUp, TypeInv
<1>27. CASE TmpfilesRuns
  <2>1. SpoolTypeOK'
    BY <1>27 DEF TmpfilesRuns, SpoolTypeOK
  <2>2. MachineTypeOK'
    BY <1>27 DEF TmpfilesRuns, Fault, MachineTypeOK
  <2>3. QED
    BY <1>27, <2>1, <2>2, Untouched DEF TmpfilesRuns, TypeInv
<1>11. CASE RunEnds
  <2>1. ExecutorInv'
    BY <1>11, CopyFacts DEF RunEnds, Outcomes, ExecutorInv, ExecutorTypeOK,
       SpoolTypeOK
  <2>2. HistoryTypeOK'
    <3>1. outcome' \in [Copies -> Outcomes]
      BY <1>11 DEF RunEnds, HistoryTypeOK, Outcomes
    <3>2. QED
      BY <1>11, <3>1 DEF RunEnds, HistoryTypeOK
  <2>3. QED
    BY <1>11, <2>1, <2>2, Untouched DEF RunEnds, TypeInv
<1>12. CASE RenameResult
  <2>1. SpoolTypeOK'
    BY <1>12, CopyFacts DEF RenameResult, SpoolTypeOK, ExecutorInv,
       ExecutorTypeOK
  <2>2. ExecutorInv'
    BY <1>12, CopyFacts DEF RenameResult, ExecutorInv, ExecutorTypeOK,
       SpoolTypeOK
  <2>3. QED
    BY <1>12, <2>1, <2>2, Untouched DEF RenameResult, TypeInv
<1>13. CASE ChownResult
  <2>1. SpoolTypeOK'
    BY <1>13, CopyFacts DEF ChownResult, SpoolTypeOK, ExecutorInv,
       ExecutorTypeOK
  <2>2. ExecutorInv'
    BY <1>13, CopyFacts DEF ChownResult, ExecutorInv, ExecutorTypeOK,
       SpoolTypeOK, MachineTypeOK
  <2>3. QED
    BY <1>13, <2>1, <2>2, Untouched DEF ChownResult, TypeInv
<1>14. CASE Exit
  <2>1. ExecutorInv'
    BY <1>14, CopyFacts DEF Exit, ExecutorInv, ExecutorTypeOK, SpoolTypeOK
  <2>2. QED
    BY <1>14, <2>1, Untouched DEF Exit, TypeInv
<1>15. CASE FailWrite
  <2>1. SpoolTypeOK'
    BY <1>15, CopyFacts DEF FailWrite, Fault, SpoolTypeOK
  <2>2. AgentInv'
    BY <1>15, CopyFacts DEF FailWrite, Fault, AgentInv, AgentTypeOK, SpoolTypeOK
  <2>3. MachineTypeOK'
    BY <1>15, CopyFacts DEF FailWrite, Fault, MachineTypeOK
  <2>4. QED
    BY <1>15, <2>1, <2>2, <2>3, Untouched DEF FailWrite, TypeInv
<1>16. CASE FailResult
  <2>1. ExecutorInv'
    BY <1>16, CopyFacts DEF FailResult, Fault, ExecutorInv, ExecutorTypeOK,
       SpoolTypeOK, MachineTypeOK
  <2>2. MachineTypeOK'
    BY <1>16, CopyFacts DEF FailResult, Fault, MachineTypeOK
  <2>3. QED
    BY <1>16, <2>1, <2>2, Untouched DEF FailResult, TypeInv
<1>17. CASE KillExecutor
  <2>1. ExecutorInv'
    BY <1>17, CopyFacts DEF KillExecutor, Fault, ExecutorGone, NoFiles,
       ExecutorInv, ExecutorTypeOK, SpoolTypeOK
  <2>2. MachineTypeOK'
    BY <1>17, CopyFacts DEF KillExecutor, Fault, ExecutorGone, NoFiles,
       MachineTypeOK
  <2>3. HistoryTypeOK'
    <3>1. lost' \in SUBSET Copies
      BY <1>17, CopyFacts DEF KillExecutor, ExecutorGone, Present, HistoryTypeOK,
         ExecutorInv, ExecutorTypeOK
    <3>2. QED
      BY <1>17, <3>1 DEF KillExecutor, HistoryTypeOK
  <2>4. QED
    BY <1>17, <2>1, <2>2, <2>3, Untouched DEF KillExecutor, TypeInv
<1>18. CASE CrashAgent
  <2>1. AgentInv'
    BY <1>18, CopyFacts DEF CrashAgent, Fault, AgentGone, AgentInv,
       AgentTypeOK, SpoolTypeOK
  <2>2. MachineTypeOK'
    BY <1>18, CopyFacts DEF CrashAgent, Fault, AgentGone, MachineTypeOK
  <2>3. QED
    BY <1>18, <2>1, <2>2, Untouched DEF CrashAgent, TypeInv
<1>19. CASE Reboot
  <2>1. SpoolTypeOK'
    BY <1>19, CopyFacts DEF Reboot, Fault, ExecutorGone, AgentGone, NoFiles,
       SpoolTypeOK
  <2>2. AgentInv'
    BY <1>19, CopyFacts DEF Reboot, Fault, ExecutorGone, AgentGone, NoFiles,
       AgentInv, AgentTypeOK, SpoolTypeOK
  <2>3. ExecutorInv'
    BY <1>19, CopyFacts DEF Reboot, Fault, ExecutorGone, AgentGone, NoFiles,
       ExecutorInv, ExecutorTypeOK, SpoolTypeOK
  <2>4. MachineTypeOK'
    BY <1>19, CopyFacts DEF Reboot, Fault, ExecutorGone, AgentGone, NoFiles,
       MachineTypeOK
  <2>5. HistoryTypeOK'
    <3>1. lost' \in SUBSET Copies
      BY <1>19, CopyFacts DEF Reboot, ExecutorGone, Present, HistoryTypeOK,
         ExecutorInv, ExecutorTypeOK
    <3>2. QED
      BY <1>19, <3>1 DEF Reboot, HistoryTypeOK
  <2>6. QED
    BY <1>19, <2>1, <2>2, <2>3, <2>4, <2>5, Untouched DEF Reboot, TypeInv
<1>20. CASE Tick
  <2>1. MachineTypeOK'
    BY <1>20, CopyFacts DEF Tick, ClockMoves, MachineTypeOK
  <2>2. ExecutorInv'
    BY <1>20, <2>1 DEF Tick, ClockMoves, ExecutorInv, ExecutorTypeOK, MachineTypeOK
  <2>3. QED
    BY <1>20, <2>1, <2>2, Untouched DEF Tick, ClockMoves, TypeInv
<1>21. CASE ClockBack
  <2>1. MachineTypeOK'
    BY <1>21, CopyFacts DEF ClockBack, ClockMoves, Fault, MachineTypeOK
  <2>2. ExecutorInv'
    BY <1>21, <2>1 DEF ClockBack, ClockMoves, ExecutorInv, ExecutorTypeOK, MachineTypeOK
  <2>3. QED
    BY <1>21, <2>1, <2>2, Untouched DEF ClockBack, ClockMoves, TypeInv
<1>22. CASE UNCHANGED vars
  BY <1>22, Untouched DEF vars
<1>23. CASE CollectReadFails
  <2>1. AgentInv'
    BY <1>23, CopyFacts DEF CollectReadFails, AgentInv, AgentTypeOK
  <2>2. MachineTypeOK'
    BY <1>23, CopyFacts DEF CollectReadFails, Fault, MachineTypeOK
  <2>3. QED
    BY <1>23, <2>1, <2>2, Untouched DEF CollectReadFails, TypeInv
<1>24. CASE TakeReadFails
  <2>1. ExecutorInv'
    BY <1>24, CopyFacts DEF TakeReadFails, ExecutorInv, ExecutorTypeOK
  <2>2. MachineTypeOK'
    BY <1>24, CopyFacts DEF TakeReadFails, Fault, MachineTypeOK
  <2>3. QED
    BY <1>24, <2>1, <2>2, Untouched DEF TakeReadFails, TypeInv
<1>28. QED
  BY <1>1, <1>2, <1>3, <1>4, <1>5, <1>6, <1>7, <1>8, <1>9, <1>10, <1>11, <1>12,
     <1>13, <1>14, <1>15, <1>16, <1>17, <1>18, <1>19, <1>20, <1>21, <1>22, <1>23,
     <1>24, <1>26, <1>27
  DEF Next, AgentStep, ExecutorStep, MachineStep

\* Every reachable state of the two halves, the spool and the machine is well
\* typed: each file holds a request the agent wrote or nothing.
THEOREM TypeCorrect == Spec => []TypeOK
<1>1. TypeInv => TypeOK
  BY DEF TypeInv, TypeOK, AgentInv, ExecutorInv
<1>2. QED
  BY TypeInvInit, TypeInvStep, <1>1, PTL DEF Spec

----------------------------------------------------------------------------
(***************************************************************************)
(* At most once.  AtMostOnce is not inductive: that a copy has not run yet *)
(* must follow from where it is.  Placed says where copies can be (a file, *)
(* a list of taken requests and the request just read always hold copies   *)
(* written under that id, never the same one in two of them, except that   *)
(* the copy just read is still in its file), Spent that a copy that has    *)
(* run is in none of these places, and Planned that neither is the one     *)
(* Plan is looking at, which has not run.                                  *)
(***************************************************************************)

\* Files and lists hold copies written under their own id.
Placed ==
    \A id \in Ids :
      /\ requests[id] /= None =>
           requests[id] <= written /\ request[requests[id]].id = id
      /\ temps[id] /= None =>
           temps[id] <= written /\ request[temps[id]].id = id
      /\ batch[id] /= None =>
           batch[id] <= written /\ request[batch[id]].id = id

\* No copy is in two places at once.
Apart ==
    \A id \in Ids :
      /\ requests[id] /= None => requests[id] /= temps[id]
      /\ batch[id] /= None => batch[id] \notin {requests[id], temps[id]}

\* TakeRequests has not yet taken what it has still to read, and holds a copy
\* only between reading a file and removing it.
Taking ==
    /\ epc \notin {"take", "unlink"} => todo = {}
    /\ epc = "idle" => batch = NoFiles
    /\ \A id \in todo : batch[id] = None
    /\ held /= None =>
         /\ epc = "unlink"
         /\ held <= written
         /\ request[held].id = Least(todo)
         /\ held /= temps[Least(todo)]

Spent ==
    \A c \in Copies : runs[c] > 0 =>
      /\ runs[c] = 1 /\ c <= written /\ c /= held
      /\ \A id \in Ids : c \notin {requests[id], batch[id], temps[id]}

Planned ==
    epc = "plan" =>
      /\ current \in Copies /\ current <= written /\ runs[current] = 0
      /\ \A id \in Ids : current \notin {requests[id], batch[id], temps[id]}

PlaceInv == Placed /\ Apart /\ Taking /\ Spent /\ Planned

SafeInv == TypeInv /\ PlaceInv

LEMMA SafeInvInit == Init => SafeInv
<1>1. Init => TypeInv
  BY TypeInvInit
<1>2. Init => Placed /\ Apart /\ Taking /\ Spent /\ Planned
  BY DEF Init, Placed, Apart, Taking, Spent, Planned, NoFiles
<1>3. QED
  BY <1>1, <1>2 DEF SafeInv, PlaceInv

\* The state these conjuncts are about.
placeVars == <<requests, temps, todo, held, batch, written, request, runs>>

LEMMA PlacesUntouched ==
    ASSUME Placed, Apart, Taking, Spent, Planned, UNCHANGED placeVars,
           \/ epc' = epc /\ current' = current
           \/ /\ epc' \notin {"idle", "take", "unlink", "plan"}
              /\ todo = {} /\ held = None
    PROVE  Placed' /\ Apart' /\ Taking' /\ Spent' /\ Planned'
  BY DEF placeVars, Placed, Apart, Taking, Spent, Planned

LEMMA PlaceInvStep == TypeInv /\ PlaceInv /\ [Next]_vars => PlaceInv'
<1> SUFFICES ASSUME TypeInv, PlaceInv, [Next]_vars PROVE PlaceInv'
  OBVIOUS
<1> USE IdsAssumption, BoundsAssumption
<1>0. TypeInv /\ Placed /\ Apart /\ Taking /\ Spent /\ Planned
  BY DEF PlaceInv
<1>t. /\ requests \in [Ids -> CopyOrNone]
      /\ temps \in [Ids -> CopyOrNone]
      /\ batch \in [Ids -> CopyOrNone]
      /\ todo \in SUBSET Ids /\ held \in CopyOrNone
      /\ written \in CopyOrNone
      /\ request \in [Copies -> Requests]
      /\ runs \in [Copies -> Nat]
      /\ aid \in Ids \cup {None}
      /\ epc \in {"take", "unlink"} => todo /= {} /\ Least(todo) \in todo
  BY <1>0, LeastIsMember
  DEF TypeInv, SpoolTypeOK, ExecutorInv, ExecutorTypeOK, HistoryTypeOK,
      AgentInv, AgentTypeOK
<1> USE DEF None, Copies, CopyOrNone, spoolVars, historyVars, executorVars, toldVars
<1>1. ASSUME NEW id \in Ids, BeginWrite(id) PROVE PlaceInv'
  <2>1. Placed'
    <3>1. written + 1 \in Copies /\ written' = written + 1
      BY <1>t, <1>1 DEF BeginWrite
    <3>2. \A c \in Copies : c <= written => request'[c] = request[c]
      BY <1>t, <1>1 DEF BeginWrite
    <3>3. request'[written + 1].id = id
      BY <1>t, <1>1, <3>1 DEF BeginWrite
    <3>4. temps' = [temps EXCEPT ![id] = written + 1] /\ UNCHANGED <<requests, batch>>
      BY <1>1 DEF BeginWrite
    <3>5. ASSUME NEW j \in Ids, temps'[j] /= None
          PROVE  temps'[j] <= written' /\ request'[temps'[j]].id = j
      <4>1. CASE j = id
        BY <1>t, <4>1, <3>1, <3>3, <3>4
      <4>2. CASE j /= id
        <5>1. temps'[j] = temps[j] /\ temps[j] \in Copies
          BY <1>t, <4>2, <3>4, <3>5
        <5>2. temps[j] <= written /\ request[temps[j]].id = j
          BY <1>0, <3>5, <5>1 DEF Placed
        <5>3. request'[temps[j]].id = j
          BY <3>2, <5>1, <5>2
        <5>4. temps[j] \in Nat /\ written \in Nat
          BY <1>t, <5>1
        <5>5. QED
          BY <3>1, <5>1, <5>2, <5>3, <5>4
      <4>3. QED
        BY <4>1, <4>2
    <3>6. ASSUME NEW j \in Ids, requests[j] /= None
          PROVE  requests[j] <= written' /\ request'[requests[j]].id = j
      <4>1. requests[j] \in Copies
        BY <1>t, <3>6
      <4>2. requests[j] <= written /\ request[requests[j]].id = j
        BY <1>0, <3>6 DEF Placed
      <4>3. request'[requests[j]].id = j
        BY <3>2, <4>1, <4>2
      <4>4. requests[j] \in Nat /\ written \in Nat
        BY <1>t, <4>1
      <4>5. QED
        BY <3>1, <4>2, <4>3, <4>4
    <3>7. ASSUME NEW j \in Ids, batch[j] /= None
          PROVE  batch[j] <= written' /\ request'[batch[j]].id = j
      <4>1. batch[j] \in Copies
        BY <1>t, <3>7
      <4>2. batch[j] <= written /\ request[batch[j]].id = j
        BY <1>0, <3>7 DEF Placed
      <4>3. request'[batch[j]].id = j
        BY <3>2, <4>1, <4>2
      <4>4. batch[j] \in Nat /\ written \in Nat
        BY <1>t, <4>1
      <4>5. QED
        BY <3>1, <4>2, <4>3, <4>4
    <3>8. QED
      BY <3>4, <3>5, <3>6, <3>7 DEF Placed
  <2>2. Apart'
    BY <1>0, <1>t, <1>1 DEF BeginWrite, Placed, Apart, Taking
  <2>3. Taking'
    BY <1>0, <1>t, <1>1 DEF BeginWrite, Placed, Taking, Apart
  <2>4. Spent'
    BY <1>0, <1>t, <1>1 DEF BeginWrite, Placed, Apart, Taking, Spent
  <2>5. Planned'
    BY <1>0, <1>t, <1>1 DEF BeginWrite, Placed, Planned
  <2>6. QED
    BY <2>1, <2>2, <2>3, <2>4, <2>5 DEF PlaceInv
<1>2. CASE FinishWrite
  <2>1. Placed'
    BY <1>0, <1>t, <1>2 DEF FinishWrite, Placed, Apart, Taking
  <2>2. Apart'
    BY <1>0, <1>t, <1>2 DEF FinishWrite, Placed, Apart, Taking
  <2>3. Taking'
    BY <1>0, <1>t, <1>2 DEF FinishWrite, Placed, Taking, Apart
  <2>4. Spent'
    BY <1>0, <1>t, <1>2 DEF FinishWrite, Placed, Apart, Taking, Spent
  <2>5. Planned'
    BY <1>0, <1>t, <1>2 DEF FinishWrite, Placed, Planned
  <2>6. QED
    BY <2>1, <2>2, <2>3, <2>4, <2>5 DEF PlaceInv
<1>3. CASE TakeRead
  <2>1. Placed'
    BY <1>0, <1>t, <1>3 DEF TakeRead, Placed, Apart, Taking
  <2>2. Apart'
    BY <1>0, <1>t, <1>3 DEF TakeRead, Placed, Apart, Taking
  <2>3. Taking'
    BY <1>0, <1>t, <1>3 DEF TakeRead, Placed, Taking, Apart
  <2>4. Spent'
    BY <1>0, <1>t, <1>3 DEF TakeRead, Placed, Apart, Taking, Spent
  <2>5. Planned'
    BY <1>3 DEF TakeRead, Planned
  <2>6. QED
    BY <2>1, <2>2, <2>3, <2>4, <2>5 DEF PlaceInv
<1>4. CASE TakeUnlink
  <2>1. Placed'
    BY <1>0, <1>t, <1>4 DEF TakeUnlink, Placed, Apart, Taking
  <2>2. Apart'
    BY <1>0, <1>t, <1>4 DEF TakeUnlink, Placed, Apart, Taking
  <2>3. Taking'
    BY <1>0, <1>t, <1>4 DEF TakeUnlink, Placed, Taking, Apart
  <2>4. Spent'
    BY <1>0, <1>t, <1>4 DEF TakeUnlink, Placed, Apart, Taking, Spent
  <2>5. Planned'
    BY <1>4 DEF TakeUnlink, Planned
  <2>6. QED
    BY <2>1, <2>2, <2>3, <2>4, <2>5 DEF PlaceInv
<1>5. CASE Start
  <2>1. Placed'
    BY <1>0, <1>t, <1>5 DEF Start, NoFiles, Present, Placed, Apart, Taking
  <2>2. Apart'
    BY <1>0, <1>t, <1>5 DEF Start, NoFiles, Present, Placed, Apart, Taking
  <2>3. Taking'
    BY <1>0, <1>t, <1>5 DEF Start, NoFiles, Present, Placed, Taking, Apart
  <2>4. Spent'
    BY <1>0, <1>t, <1>5 DEF Start, NoFiles, Present, Placed, Apart, Taking,
       Spent
  <2>5. Planned'
    BY <1>5 DEF Start, Planned
  <2>6. QED
    BY <2>1, <2>2, <2>3, <2>4, <2>5 DEF PlaceInv
<1>6. CASE Lapse \/ TakeUp
  <2>1. PICK c \in Copies :
          /\ UpNext(c) /\ current' = c /\ epc = "carry" /\ epc' \in {"rename", "plan"}
          /\ batch' = [batch EXCEPT ![Least(Present(batch))] = None]
          /\ UNCHANGED <<requests, temps, todo, held, written, request, runs>>
    BY <1>6 DEF Lapse, TakeUp
  <2>2. PICK up \in Ids : batch[up] = c /\ batch' = [batch EXCEPT ![up] = None]
    <3>1. Present(batch) \in SUBSET Ids /\ Present(batch) /= {}
      BY <2>1 DEF UpNext, Present
    <3>2. Least(Present(batch)) \in Ids
      BY <3>1, LeastIsMember
    <3>3. QED
      BY <2>1, <3>2 DEF UpNext
  <2>3. Placed'
    BY <1>0, <1>t, <2>1, <2>2 DEF Placed
  <2>4. Apart'
    BY <1>0, <1>t, <2>1, <2>2 DEF Apart
  <2>5. Taking'
    BY <1>0, <1>t, <2>1, <2>2 DEF Taking
  <2>6. Spent'
    BY <1>0, <1>t, <2>1, <2>2 DEF Spent
  <2>7. Planned'
    <3>1. runs[c] = 0 /\ c <= written /\ request[c].id = up
      <4>1. c /= None /\ runs[c] \in Nat
        BY <1>t, <2>1
      <4>2. ~ (runs[c] > 0)
        BY <1>0, <2>1, <2>2 DEF Spent
      <4>3. c <= written /\ request[c].id = up
        BY <1>0, <2>2, <4>1 DEF Placed
      <4>4. QED
        BY <4>1, <4>2, <4>3
    <3>2. ASSUME NEW id \in Ids
          PROVE  c \notin {requests[id], temps[id], batch'[id]}
      <4>1. c /= None
        BY <2>1
      <4>2. CASE id = up
        BY <1>0, <1>t, <2>2, <4>1, <4>2 DEF Apart
      <4>3. CASE id /= up
        <5>1. batch'[id] = batch[id]
          BY <1>t, <2>2, <4>3
        <5>2. QED
          BY <1>0, <3>1, <4>1, <4>3, <5>1 DEF Placed
      <4>4. QED
        BY <4>2, <4>3
    <3>3. QED
      BY <2>1, <3>1, <3>2 DEF Planned
  <2>8. QED
    BY <2>3, <2>4, <2>5, <2>6, <2>7 DEF PlaceInv
<1>7. CASE Run
  <2>1. /\ epc = "plan" /\ epc' = "run" /\ runs' = [runs EXCEPT ![current] = @ + 1]
        /\ UNCHANGED <<requests, temps, todo, held, batch, current, written, request>>
    BY <1>7 DEF Run
  <2>2. todo = {} /\ held = None
    BY <1>0, <2>1 DEF Taking
  <2>3. Placed' /\ Apart' /\ Taking' /\ Planned'
    BY <1>0, <2>1, <2>2 DEF Placed, Apart, Taking, Planned
  <2>4. Spent'
    BY <1>0, <1>t, <2>1, <2>2 DEF Spent, Planned
  <2>5. QED
    BY <2>3, <2>4 DEF PlaceInv
<1>8. CASE FailWrite
  <2>1. Placed'
    BY <1>0, <1>t, <1>8 DEF FailWrite, Placed
  <2>2. Apart'
    BY <1>0, <1>t, <1>8 DEF FailWrite, Placed, Apart
  <2>3. Taking'
    BY <1>0, <1>t, <1>8 DEF FailWrite, Placed, Taking
  <2>4. Spent'
    BY <1>0, <1>t, <1>8 DEF FailWrite, Placed, Apart, Taking, Spent
  <2>5. Planned'
    BY <1>0, <1>t, <1>8 DEF FailWrite, Placed, Planned
  <2>6. QED
    BY <2>1, <2>2, <2>3, <2>4, <2>5 DEF PlaceInv
<1>9. CASE KillExecutor
  <2>1. Placed'
    BY <1>0, <1>t, <1>9 DEF KillExecutor, ExecutorGone, NoFiles, Placed
  <2>2. Apart'
    BY <1>0, <1>t, <1>9 DEF KillExecutor, ExecutorGone, NoFiles, Placed, Apart
  <2>3. Taking'
    BY <1>0, <1>t, <1>9 DEF KillExecutor, ExecutorGone, NoFiles, Placed, Taking
  <2>4. Spent'
    BY <1>0, <1>t, <1>9 DEF KillExecutor, ExecutorGone, NoFiles, Placed,
       Apart, Taking, Spent
  <2>5. Planned'
    BY <1>9 DEF KillExecutor, ExecutorGone, Planned
  <2>6. QED
    BY <2>1, <2>2, <2>3, <2>4, <2>5 DEF PlaceInv
<1>10. CASE Reboot
  <2>1. Placed'
    BY <1>0, <1>t, <1>10 DEF Reboot, ExecutorGone, AgentGone, NoFiles, Placed
  <2>2. Apart'
    BY <1>0, <1>t, <1>10 DEF Reboot, ExecutorGone, AgentGone, NoFiles, Placed,
       Apart
  <2>3. Taking'
    BY <1>0, <1>t, <1>10 DEF Reboot, ExecutorGone, AgentGone, NoFiles, Placed,
       Taking
  <2>4. Spent'
    BY <1>0, <1>t, <1>10 DEF Reboot, ExecutorGone, AgentGone, NoFiles, Placed,
       Apart, Taking, Spent
  <2>5. Planned'
    BY <1>10 DEF Reboot, ExecutorGone, Planned
  <2>6. QED
    BY <2>1, <2>2, <2>3, <2>4, <2>5 DEF PlaceInv
<1>11. CASE \/ BeginCollect \/ CollectRead \/ CollectReadFails
           \/ CollectUnlink \/ CrashAgent \/ TmpfilesRuns \/ Tick \/ ClockBack
           \/ UNCHANGED vars
  <2>1. UNCHANGED placeVars /\ epc' = epc /\ current' = current
    BY <1>11 DEF BeginCollect, CollectRead, CollectReadFails, CollectUnlink,
       CrashAgent, TmpfilesRuns, Tick, ClockBack, ClockMoves, vars, placeVars, spoolVars, agentVars, executorVars,
       machineVars, historyVars
  <2>2. QED
    BY <1>0, <2>1, PlacesUntouched DEF PlaceInv
<1>12. CASE Refuse \/ RunEnds \/ RenameResult \/ ChownResult \/ FailResult
  <2>1. /\ UNCHANGED placeVars
        /\ epc' \notin {"idle", "take", "unlink", "plan"}
        /\ todo = {} /\ held = None
    BY <1>0, <1>12 DEF Refuse, RunEnds, RenameResult, ChownResult, FailResult, Taking,
       placeVars, spoolVars, historyVars
  <2>2. QED
    BY <1>0, <2>1, PlacesUntouched DEF PlaceInv
<1>13. CASE Exit
  <2>1. batch = NoFiles
    BY <1>t, <1>13 DEF Exit, Present, NoFiles
  <2>2. UNCHANGED placeVars
    BY <1>13 DEF Exit, placeVars, spoolVars, historyVars
  <2>3. QED
    BY <1>0, <1>13, <2>1, <2>2 DEF Exit, placeVars, PlaceInv, Placed,
       Apart, Taking, Spent, Planned
<1>14. CASE TakeReadFails
  BY <1>0, <1>t, <1>14 DEF TakeReadFails, PlaceInv, Placed, Apart, Taking, Spent,
     Planned
<1>15. QED
  BY <1>1, <1>2, <1>3, <1>4, <1>5, <1>6, <1>7, <1>8, <1>9, <1>10, <1>11,
     <1>12, <1>13, <1>14 DEF Next, AgentStep, ExecutorStep, MachineStep

LEMMA SafeInvStep == SafeInv /\ [Next]_vars => SafeInv'
  BY TypeInvStep, PlaceInvStep DEF SafeInv

\* Whatever is killed, crashes, reboots or is written again in between, the
\* action of one spooled request is started at most once (spool.go:162-168).
THEOREM RunsAtMostOnce == Spec => []AtMostOnce
<1>1. SafeInv => AtMostOnce
  BY DEF SafeInv, PlaceInv, TypeInv, HistoryTypeOK, Spent, AtMostOnce
<1>2. QED
  BY SafeInvInit, SafeInvStep, <1>1, PTL DEF Spec

\* A request whose action has started is in no file and in no list of taken
\* requests, so no later start can replay it (spool.go:24-25).
THEOREM RunsAreNotReplayable == Spec => []NotReplayable
<1>1. SafeInv => NotReplayable
  BY DEF SafeInv, PlaceInv, Spent, NotReplayable
<1>2. QED
  BY SafeInvInit, SafeInvStep, <1>1, PTL DEF Spec

(***************************************************************************)
(* Timeliness.  Whatever is still to be run was written in this boot: a    *)
(* reboot empties the tmpfs and ends both processes.  What Plan is looking *)
(* at was fresh at some reading of the clock since its turn came (Judged), *)
(* whatever the clock has done since.                                      *)
(***************************************************************************)
ThisBoot ==
    /\ \A id \in Ids :
         /\ requests[id] /= None => request[requests[id]].boot = boot
         /\ temps[id] /= None => request[temps[id]].boot = boot
         /\ batch[id] /= None => request[batch[id]].boot = boot
    /\ held /= None => request[held].boot = boot

Judged ==
    /\ epc = "carry" => now \in clocks
    /\ epc = "plan" =>
         /\ request[current].boot = boot
         /\ \E t \in clocks : t - request[current].at \in 0..MaxAge

BootInv == SafeInv /\ ThisBoot /\ Judged

LEMMA ThisBootStep == BootInv /\ [Next]_vars => ThisBoot'
<1> SUFFICES ASSUME BootInv, [Next]_vars PROVE ThisBoot'
  OBVIOUS
<1> USE IdsAssumption, BoundsAssumption
<1>0. Placed /\ Taking /\ ThisBoot
  BY DEF BootInv, SafeInv, PlaceInv
<1>t. /\ requests \in [Ids -> CopyOrNone]
      /\ temps \in [Ids -> CopyOrNone]
      /\ batch \in [Ids -> CopyOrNone]
      /\ todo \in SUBSET Ids /\ held \in CopyOrNone
      /\ written \in CopyOrNone
      /\ request \in [Copies -> Requests]
      /\ aid \in Ids \cup {None}
      /\ epc \in {"take", "unlink"} => todo /= {} /\ Least(todo) \in todo
  BY LeastIsMember
  DEF BootInv, SafeInv, TypeInv, SpoolTypeOK, ExecutorInv, ExecutorTypeOK,
      HistoryTypeOK, AgentInv, AgentTypeOK
<1> USE DEF None, Copies, CopyOrNone, spoolVars, historyVars, executorVars,
            machineVars, toldVars
<1>1. ASSUME NEW id \in Ids, BeginWrite(id) PROVE ThisBoot'
  <2>1. written + 1 \in Copies /\ boot' = boot
    BY <1>t, <1>1 DEF BeginWrite
  <2>2. \A c \in Copies : c <= written => request'[c] = request[c]
    BY <1>t, <1>1 DEF BeginWrite
  <2>3. request'[written + 1].boot = boot
    BY <1>t, <1>1, <2>1 DEF BeginWrite
  <2>4. /\ temps' = [temps EXCEPT ![id] = written + 1]
        /\ UNCHANGED <<requests, batch, held>>
    BY <1>1 DEF BeginWrite
  <2>5. ASSUME NEW j \in Ids, temps'[j] /= None
        PROVE  request'[temps'[j]].boot = boot
    <3>1. CASE j = id
      BY <1>t, <2>3, <2>4, <3>1
    <3>2. CASE j /= id
      <4>1. temps'[j] = temps[j]
        BY <1>t, <2>4, <3>2
      <4>2. temps[j] \in Copies /\ temps[j] <= written
        BY <1>0, <1>t, <2>5, <4>1 DEF Placed
      <4>3. QED
        BY <1>0, <2>2, <2>5, <4>1, <4>2 DEF ThisBoot
    <3>3. QED
      BY <3>1, <3>2
  <2>6. ASSUME NEW j \in Ids, requests[j] /= None
        PROVE  request'[requests[j]].boot = boot
    BY <1>0, <1>t, <2>2, <2>6 DEF Placed, ThisBoot
  <2>7. ASSUME NEW j \in Ids, batch[j] /= None
        PROVE  request'[batch[j]].boot = boot
    BY <1>0, <1>t, <2>2, <2>7 DEF Placed, ThisBoot
  <2>8. held /= None => request'[held].boot = boot
    BY <1>0, <1>t, <2>2 DEF Taking, ThisBoot
  <2>9. QED
    BY <2>1, <2>4, <2>5, <2>6, <2>7, <2>8 DEF ThisBoot
<1>2. CASE FinishWrite
  BY <1>0, <1>t, <1>2 DEF FinishWrite, ThisBoot
<1>3. CASE FailWrite
  BY <1>0, <1>t, <1>3 DEF FailWrite, ThisBoot
<1>4. CASE TakeRead
  BY <1>0, <1>t, <1>4 DEF TakeRead, ThisBoot
<1>5. CASE TakeReadFails
  BY <1>0, <1>t, <1>5 DEF TakeReadFails, ThisBoot
<1>6. CASE TakeUnlink
  BY <1>0, <1>t, <1>6 DEF TakeUnlink, ThisBoot
<1>7. CASE Lapse
  BY <1>0, <1>t, <1>7 DEF Lapse, ThisBoot
<1>8. CASE TakeUp
  BY <1>0, <1>t, <1>8 DEF TakeUp, ThisBoot
<1>9. CASE KillExecutor
  BY <1>0, <1>t, <1>9 DEF KillExecutor, ExecutorGone, NoFiles, ThisBoot
<1>10. CASE Reboot
  BY <1>0, <1>t, <1>10 DEF Reboot, ExecutorGone, NoFiles, ThisBoot
<1>11. CASE \/ BeginCollect \/ CollectRead \/ CollectReadFails
            \/ CollectUnlink \/ CrashAgent \/ TmpfilesRuns \/ Tick \/ ClockBack
            \/ Start \/ Refuse \/ Run \/ RunEnds \/ RenameResult \/ ChownResult
            \/ FailResult \/ Exit \/ UNCHANGED vars
  <2>1. UNCHANGED <<requests, temps, batch, held, request, boot>>
    BY <1>11 DEF BeginCollect, CollectRead, CollectReadFails, CollectUnlink,
       CrashAgent, TmpfilesRuns, Tick, ClockBack, ClockMoves, Start, Refuse, Run,
       RunEnds, RenameResult, ChownResult, FailResult, Exit, vars
  <2>2. QED
    BY <1>0, <2>1 DEF ThisBoot
<1>12. QED
  BY <1>1, <1>2, <1>3, <1>4, <1>5, <1>6, <1>7, <1>8, <1>9, <1>10, <1>11
  DEF Next, AgentStep, ExecutorStep, MachineStep

LEMMA JudgedStep == BootInv /\ [Next]_vars => Judged'
<1> SUFFICES ASSUME BootInv, [Next]_vars PROVE Judged'
  OBVIOUS
<1>0. TypeInv /\ Taking /\ Planned /\ ThisBoot /\ Judged
  BY DEF BootInv, SafeInv, PlaceInv
<1>t. /\ batch \in [Ids -> CopyOrNone] /\ request \in [Copies -> Requests]
      /\ written \in Nat /\ written \in CopyOrNone
  BY <1>0, BoundsAssumption
  DEF TypeInv, ExecutorInv, ExecutorTypeOK, HistoryTypeOK, CopyOrNone
<1> USE DEF spoolVars, agentVars, historyVars, executorVars, machineVars, toldVars
<1>1. CASE \E id \in Ids : BeginWrite(id)
  <2>1. /\ UNCHANGED <<epc, clocks, current, now, boot>>
        /\ \E r : request' = [request EXCEPT ![written + 1] = r]
    BY <1>1 DEF BeginWrite
  <2>2. epc = "plan" => request'[current] = request[current]
    BY <1>0, <1>t, <2>1 DEF Planned, Copies
  <2>3. QED
    BY <1>0, <2>1, <2>2 DEF Judged
<1>2. CASE TakeUp
  <2>1. PICK c \in Copies : UpNext(c) /\ Fresh(c) /\ current' = c
    BY <1>2 DEF TakeUp
  <2>2. Least(Present(batch)) \in Ids /\ c = batch[Least(Present(batch))]
    BY <2>1, LeastIsMember DEF UpNext, Present
  <2>3. request[c].boot = boot
    BY <1>0, <2>1, <2>2, CopyFacts DEF ThisBoot
  <2>4. now \in clocks /\ now - request[c].at \in 0..MaxAge
    BY <1>0, <1>2, <2>1 DEF Judged, TakeUp, Fresh
  <2>5. /\ epc' = "plan" /\ request' = request /\ boot' = boot /\ clocks' = clocks
    BY <1>2 DEF TakeUp
  <2>6. QED
    BY <2>1, <2>3, <2>4, <2>5 DEF Judged
<1>3. CASE TakeUnlink \/ ChownResult \/ FailResult
  <2>1. epc' \in {"carry", "take"} /\ now' = now /\ (epc' = "carry" => clocks' = {now})
    BY <1>3 DEF TakeUnlink, ChownResult, FailResult
  <2>2. QED
    BY <2>1 DEF Judged
<1>4. CASE Tick \/ ClockBack
  <2>1. /\ clocks' = IF epc = "carry" THEN clocks \cup {now'} ELSE clocks
        /\ UNCHANGED <<epc, current, request, boot>>
    BY <1>4 DEF Tick, ClockBack, ClockMoves
  <2>2. QED
    BY <1>0, <2>1 DEF Judged
<1>5. CASE \/ Start \/ TakeRead \/ TakeReadFails \/ Lapse \/ Refuse \/ Run \/ RunEnds
           \/ RenameResult \/ Exit \/ KillExecutor \/ Reboot
  <2>1. epc' \notin {"carry", "plan"}
    BY <1>5 DEF Start, TakeRead, TakeReadFails, Lapse, Refuse, Run, RunEnds,
       RenameResult, Exit, KillExecutor, Reboot, ExecutorGone
  <2>2. QED
    BY <2>1 DEF Judged
<1>6. CASE \/ FinishWrite \/ FailWrite \/ BeginCollect \/ CollectRead
           \/ CollectReadFails \/ CollectUnlink \/ CrashAgent \/ TmpfilesRuns
           \/ UNCHANGED vars
  <2>1. UNCHANGED <<epc, clocks, current, now, boot, request>>
    BY <1>6 DEF FinishWrite, FailWrite, BeginCollect, CollectRead, CollectReadFails,
       CollectUnlink, CrashAgent, TmpfilesRuns, vars
  <2>2. QED
    BY <1>0, <2>1 DEF Judged
<1>7. QED
  BY <1>1, <1>2, <1>3, <1>4, <1>5, <1>6
  DEF Next, AgentStep, ExecutorStep, MachineStep

LEMMA BootInvStep == BootInv /\ [Next]_vars => BootInv'
  BY SafeInvStep, ThisBootStep, JudgedStep DEF BootInv

\* An action starts only in the boot its request was written in, and only if the
\* request was neither too old nor from the future when its turn had come, before
\* Plan looked at it (execute.go:83, spool.go:10-12).
THEOREM RunsAreTimely == Spec => TimelyRun
<1> DEFINE Timely ==
      \A c \in Copies : runs'[c] > runs[c] =>
        /\ request[c].boot = boot
        /\ \E t \in clocks : t - request[c].at \in 0..MaxAge
<1>1. Init => BootInv
  BY SafeInvInit DEF BootInv, Init, ThisBoot, Judged, NoFiles
<1>2. BootInv /\ [Next]_vars => [Timely]_vars
  <2> SUFFICES ASSUME BootInv, Next PROVE Timely
    OBVIOUS
  <2>t. runs \in [Copies -> Nat]
    BY DEF BootInv, SafeInv, TypeInv, HistoryTypeOK
  <2>1. CASE Run
    <3>1. epc = "plan" /\ runs' = [runs EXCEPT ![current] = @ + 1]
      BY <2>1 DEF Run
    <3>2. \A d \in Copies : runs'[d] > runs[d] => d = current
      BY <2>t, <3>1
    <3>3. /\ request[current].boot = boot
          /\ \E t \in clocks : t - request[current].at \in 0..MaxAge
      BY <3>1 DEF BootInv, Judged
    <3>4. QED
      BY <3>2, <3>3
  <2>2. CASE UNCHANGED runs
    BY <2>t, <2>2
  <2>3. Run \/ UNCHANGED runs
    BY DEF Next, AgentStep, ExecutorStep, MachineStep, BeginWrite, FinishWrite,
       FailWrite, BeginCollect, CollectRead, CollectReadFails, CollectUnlink,
       Start, TakeRead, TakeReadFails, TakeUnlink, Lapse, TakeUp, Refuse, RunEnds,
       RenameResult, ChownResult, FailResult, Exit, KillExecutor, CrashAgent,
       Reboot, TmpfilesRuns, Tick, ClockBack, ClockMoves, historyVars
  <2>4. QED
    BY <2>1, <2>2, <2>3
<1>3. QED
  BY <1>1, <1>2, BootInvStep, PTL DEF Spec, TimelyRun

----------------------------------------------------------------------------
(***************************************************************************)
(* Honest outcomes.  What the agent collects was decided earlier, by the   *)
(* executor, and passed through the copy being carried out, a result file  *)
(* and the agent's hands.  A copy with an outcome is in none of the places *)
(* it could be run from (Decided); the copy being carried out gets its     *)
(* outcome before its result is named (Carrying); and what is on its way   *)
(* back has an outcome, and has been collected before only if it could not *)
(* be removed then (ComingBack).                                           *)
(***************************************************************************)
Decided ==
    \A c \in Copies : outcome[c] /= "none" =>
      /\ outcome[c] \in {"done", "failed"} <=> runs[c] > 0
      /\ c <= written /\ c /= held
      /\ \A id \in Ids : c \notin {requests[id], batch[id], temps[id]}

Carrying ==
    /\ epc \in {"plan", "run", "rename", "chown"} <=> current /= None
    /\ epc \in {"plan", "run"} => outcome[current] = "none"
    /\ epc = "run" => runs[current] = 1
    /\ epc \in {"rename", "chown"} => outcome[current] /= "none"
    /\ epc \in {"plan", "run", "rename"} =>
         /\ current \notin collected /\ current /= ahold
         /\ \A id \in Ids : results[id] /= current

ComingBack ==
    /\ \A id \in Ids : results[id] /= None =>
         /\ outcome[results[id]] /= "none"
         /\ results[id] \in collected => results[id] \in kept
         /\ request[results[id]].id = id
    /\ ahold /= None =>
         /\ apc = "unlink" /\ request[ahold].id = Least(atodo)
         /\ outcome[ahold] /= "none" /\ (ahold \in collected => ahold \in kept)
    /\ \A c \in collected : outcome[c] /= "none"
    /\ retold \subseteq kept

AnswerInv == Decided /\ Carrying /\ ComingBack

(***************************************************************************)
(* Nothing vanishes.  While nothing fails a written copy is kept somewhere *)
(* or is the one being carried out, but once its result has been named     *)
(* that one must be kept elsewhere, too: it is about to be let go of.      *)
(***************************************************************************)
Kept(c) ==
    \/ c \in {held, ahold} \/ c \in dropped \/ c \in collected
    \/ \E id \in Ids : c \in {requests[id], temps[id], batch[id], results[id]}
    \/ Reissued(c)

KeptInv ==
    /\ apc = "spool" => aid \in Ids /\ temps[aid] /= None
    /\ \A c \in 1..written : request[c].id \in Ids
    /\ faults = 0 =>
         \A c \in 1..written : Kept(c) \/ (c = current /\ epc /= "chown")

\* The state the outcomes depend on.
answerVars ==
    <<requests, temps, results, ahold, held, batch, current, written, request,
      runs, outcome, collected, retold, kept>>

\* The types the proofs about answers need.
AnswerTypes ==
    /\ requests \in [Ids -> CopyOrNone] /\ temps \in [Ids -> CopyOrNone]
    /\ results \in [Ids -> CopyOrNone] /\ batch \in [Ids -> CopyOrNone]
    /\ aid \in Ids \cup {None} /\ atodo \in SUBSET Ids /\ ahold \in CopyOrNone
    /\ todo \in SUBSET Ids /\ held \in CopyOrNone /\ current \in CopyOrNone
    /\ written \in CopyOrNone /\ request \in [Copies -> Requests]
    /\ runs \in [Copies -> Nat] /\ outcome \in [Copies -> Outcomes]
    /\ collected \in SUBSET Copies /\ dropped \in SUBSET Copies
    /\ epc \in {"take", "unlink"} => Least(todo) \in todo
    /\ apc \in {"read", "unlink"} => Least(atodo) \in atodo

LEMMA AnswerTyped == TypeInv => AnswerTypes
  BY LeastIsMember
  DEF TypeInv, SpoolTypeOK, AgentInv, AgentTypeOK, ExecutorInv, ExecutorTypeOK,
      HistoryTypeOK, AnswerTypes

LEMMA AnswersUntouched ==
    ASSUME AnswerInv, UNCHANGED answerVars,
           \/ epc' = epc
           \/ {epc, epc'} \cap {"plan", "run", "rename", "chown"} = {},
           UNCHANGED <<apc, atodo>> \/ ahold = None
    PROVE  AnswerInv'
  BY DEF AnswerInv, Decided, Carrying, ComingBack, answerVars

\* The first request of the batch, as Lapse and TakeUp take it.
LEMMA TakenUp ==
    ASSUME TypeInv, NEW c \in Copies, UpNext(c),
           batch' = [batch EXCEPT ![Least(Present(batch))] = None]
    PROVE  \E up \in Ids : /\ batch[up] = c
                           /\ batch' = [batch EXCEPT ![up] = None]
<1>1. Present(batch) \in SUBSET Ids /\ Present(batch) /= {}
  BY DEF UpNext, Present
<1>2. Least(Present(batch)) \in Ids
  BY <1>1, LeastIsMember
<1>3. QED
  BY <1>2 DEF UpNext

LEMMA AnswerStep == SafeInv /\ AnswerInv /\ [Next]_vars => AnswerInv'
<1> SUFFICES ASSUME SafeInv, AnswerInv, [Next]_vars PROVE AnswerInv'
  OBVIOUS
<1>0. /\ TypeInv /\ Placed /\ Apart /\ Taking /\ Spent /\ Planned
      /\ Decided /\ Carrying /\ ComingBack
  BY DEF SafeInv, PlaceInv, AnswerInv
<1>t. AnswerTypes
  BY <1>0, AnswerTyped
<1>c. CopyOrNone = Copies \cup {None} /\ None \notin Copies
  BY CopyFacts
<1> USE DEF toldVars
<1>1. ASSUME NEW id \in Ids, BeginWrite(id) PROVE AnswerInv'
  <2>1. /\ written + 1 \in Copies /\ written' = written + 1 /\ written \in Nat
        /\ temps' = [temps EXCEPT ![id] = written + 1]
        /\ UNCHANGED <<requests, results, ahold, held, batch, current, runs, outcome,
                       collected, retold, kept, epc>>
        /\ apc = "idle"
    BY <1>1, <1>t, BoundsAssumption DEF BeginWrite, executorVars, AnswerTypes,
       CopyOrNone, Copies
  <2>2. \A c \in Copies : c <= written => request'[c] = request[c]
    BY <1>t, <1>1, <2>1 DEF BeginWrite, AnswerTypes
  <2>3. Decided'
    BY <1>0, <1>t, <2>1 DEF Decided, AnswerTypes, Copies
  <2>4. Carrying'
    BY <1>0, <2>1 DEF Carrying
  <2>5. ahold = None
    BY <1>0, <2>1 DEF ComingBack
  <2>6. ComingBack'
    <3>1. ASSUME NEW j \in Ids, results[j] /= None
          PROVE  request'[results[j]].id = j
      <4>1. results[j] \in Copies /\ outcome[results[j]] /= "none"
        BY <1>0, <1>c, <1>t, <3>1 DEF ComingBack, AnswerTypes
      <4>2. results[j] <= written
        BY <1>0, <4>1 DEF Decided
      <4>3. QED
        BY <1>0, <2>2, <3>1, <4>1, <4>2 DEF ComingBack
    <3>2. QED
      BY <1>0, <2>1, <2>5, <3>1 DEF ComingBack
  <2>7. QED
    BY <2>3, <2>4, <2>6 DEF AnswerInv
<1>2. CASE FinishWrite \/ FailWrite
  <2>1. /\ UNCHANGED <<results, ahold, held, batch, current, written, request, runs,
                       outcome, collected, retold, kept, epc>>
        /\ apc = "spool" /\ aid \in Ids \cup {None}
        /\ \/ requests' = requests
           \/ requests' = [requests EXCEPT ![aid] = temps[aid]]
        /\ temps' = temps \/ temps' = [temps EXCEPT ![aid] = None]
    BY <1>t, <1>2 DEF FinishWrite, FailWrite, executorVars, historyVars, AnswerTypes
  <2>2. \A id \in Ids : /\ requests'[id] \in {requests[id], temps[id]}
                        /\ temps'[id] \in {temps[id], None}
    BY <1>t, <2>1 DEF AnswerTypes
  <2>3. Decided'
    BY <1>0, <1>c, <2>1, <2>2 DEF Decided
  <2>4. ahold = None
    BY <1>0, <2>1 DEF ComingBack
  <2>5. QED
    BY <1>0, <2>1, <2>3, <2>4 DEF AnswerInv, Carrying, ComingBack
<1>3. CASE CollectRead
  <2>1. /\ apc = "read" /\ apc' = "unlink" /\ atodo' = atodo
        /\ ahold' = IF readable[Least(atodo)] THEN results[Least(atodo)] ELSE None
        /\ UNCHANGED <<requests, temps, results, held, batch, current, written,
                       request, runs, outcome, collected, retold, kept, epc>>
    BY <1>3 DEF CollectRead, spoolVars, executorVars, historyVars
  <2>2. ahold' \in {results[Least(atodo)], None} /\ Least(atodo) \in Ids
    BY <1>t, <2>1 DEF AnswerTypes
  <2>3. Decided' /\ Carrying'
    <3>1. epc \in {"plan", "run", "rename"} => current /= ahold'
      BY <1>0, <2>2 DEF Carrying
    <3>2. QED
      BY <1>0, <2>1, <3>1 DEF Decided, Carrying
  <2>4. ComingBack'
    <3>1. ahold' /= None =>
            /\ request[ahold'].id = Least(atodo)
            /\ outcome[ahold'] /= "none" /\ (ahold' \in collected => ahold' \in kept)
      BY <1>0, <2>2 DEF ComingBack
    <3>2. QED
      BY <1>0, <2>1, <3>1 DEF ComingBack
  <2>5. QED
    BY <2>3, <2>4 DEF AnswerInv
<1>4. CASE CollectReadFails \/ CrashAgent
  <2>1. /\ ahold' = None
        /\ UNCHANGED <<requests, temps, results, held, batch, current, written,
                       request, runs, outcome, collected, retold, kept, epc>>
    BY <1>4 DEF CollectReadFails, CrashAgent, AgentGone, spoolVars, executorVars,
       historyVars
  <2>2. epc \in {"plan", "run", "rename"} => current /= None
    BY <1>0 DEF Carrying
  <2>3. QED
    BY <1>0, <2>1, <2>2 DEF AnswerInv, Decided, Carrying, ComingBack
<1>5. CASE CollectUnlink
  <2> DEFINE id == Least(atodo)
             told == {ahold} \ {None}
  <2>1. /\ apc = "unlink" /\ ahold' = None
        /\ \/ results' = [results EXCEPT ![id] = None] /\ kept' = kept
           \/ results' = results /\ kept' = kept \cup told
        /\ collected' = collected \cup told
        /\ retold' = retold \cup (told \cap collected)
        /\ UNCHANGED <<requests, temps, held, batch, current, written, request, runs,
                       outcome, epc>>
    BY <1>5 DEF CollectUnlink, Tell, executorVars
  <2>2. id \in Ids
    BY <1>t, <2>1 DEF AnswerTypes
  <2>3. /\ \A c \in told : /\ outcome[c] /= "none" /\ request[c].id = id
                           /\ c \in collected => c \in kept
        /\ \A c : c \in told => c = ahold /\ c /= None
    BY <1>0 DEF ComingBack
  <2> HIDE DEF id, told
  <2>4. \A j \in Ids : /\ results'[j] \in {results[j], None}
                       /\ j = id => results'[j] = None \/ kept' = kept \cup told
    BY <1>t, <2>1 DEF AnswerTypes
  <2>5. \A c \in kept : c \in kept'
    BY <2>1
  <2>6. Decided'
    BY <1>0, <2>1 DEF Decided
  <2>7. Carrying'
    <3>1. ASSUME epc \in {"plan", "run", "rename"}
          PROVE  /\ current \notin collected' /\ current /= None
                 /\ \A j \in Ids : results'[j] /= current
      BY <1>0, <2>1, <2>3, <2>4, <3>1 DEF Carrying
    <3>2. QED
      BY <1>0, <2>1, <3>1 DEF Carrying
  <2>8. ComingBack'
    <3>1. ASSUME NEW j \in Ids, results'[j] /= None
          PROVE  /\ outcome[results'[j]] /= "none"
                 /\ results'[j] \in collected' => results'[j] \in kept'
                 /\ request[results'[j]].id = j
      <4>1. results'[j] = results[j]
        BY <2>4, <3>1
      <4>2. /\ outcome[results[j]] /= "none" /\ request[results[j]].id = j
            /\ results[j] \in collected => results[j] \in kept
        BY <1>0, <3>1, <4>1 DEF ComingBack
      <4>3. results[j] \in told => results[j] \in kept'
        BY <2>3, <2>4, <3>1, <4>2
      <4>4. QED
        BY <2>1, <2>5, <4>1, <4>2, <4>3
    <3>2. \A c \in collected' : outcome[c] /= "none"
      BY <1>0, <2>1, <2>3 DEF ComingBack
    <3>3. retold' \subseteq kept'
      BY <1>0, <2>1, <2>3, <2>5 DEF ComingBack
    <3>4. QED
      BY <2>1, <3>1, <3>2, <3>3 DEF ComingBack
  <2>9. QED
    BY <2>6, <2>7, <2>8 DEF AnswerInv
<1>6. CASE TakeRead
  <2>1. /\ epc = "take" /\ epc' = "unlink" /\ held' = requests[Least(todo)]
        /\ Least(todo) \in Ids
        /\ UNCHANGED <<requests, temps, results, ahold, batch, current, written,
                       request, runs, outcome, collected, retold, kept, apc, atodo>>
    BY <1>t, <1>6 DEF TakeRead, spoolVars, agentVars, historyVars, AnswerTypes
  <2>2. Decided'
    BY <1>0, <2>1 DEF Decided
  <2>3. QED
    BY <1>0, <2>1, <2>2 DEF AnswerInv, Carrying, ComingBack
<1>7. CASE TakeUnlink
  <2>1. /\ epc = "unlink" /\ epc' \in {"carry", "take"} /\ held' = None
        /\ requests' = [requests EXCEPT ![Least(todo)] = None]
        /\ \E b \in {held, None} : batch' = [batch EXCEPT ![Least(todo)] = b]
        /\ UNCHANGED <<temps, results, ahold, current, written,
                       request, runs, outcome, collected, retold, kept, apc, atodo>>
    BY <1>7 DEF TakeUnlink, agentVars
  <2>2. \A id \in Ids : /\ requests'[id] \in {requests[id], None}
                        /\ batch'[id] \in {batch[id], held, None}
    BY <1>t, <2>1 DEF AnswerTypes
  <2>3. Decided'
    BY <1>0, <1>c, <2>1, <2>2 DEF Decided
  <2>4. QED
    BY <1>0, <2>1, <2>3 DEF AnswerInv, Carrying, ComingBack
<1>8. CASE Lapse \/ TakeUp
  <2>1. PICK c \in Copies :
          /\ UpNext(c) /\ current' = c /\ epc = "carry"
          /\ batch' = [batch EXCEPT ![Least(Present(batch))] = None]
          /\ \/ epc' = "rename" /\ outcome' = [outcome EXCEPT ![c] = "refused"]
             \/ epc' = "plan" /\ UNCHANGED outcome
          /\ UNCHANGED <<requests, temps, results, ahold, held, written, request,
                         runs, collected, retold, kept, apc, atodo>>
    BY <1>8 DEF Lapse, TakeUp, spoolVars, agentVars, historyVars
  <2>2. PICK up \in Ids : batch[up] = c /\ batch' = [batch EXCEPT ![up] = None]
    BY <1>0, <2>1, TakenUp
  <2>3. outcome[c] = "none" /\ runs[c] = 0
    BY <1>0, <1>t, <2>2 DEF Decided, Spent, AnswerTypes
  <2>4. /\ c \notin collected /\ c /= ahold /\ c /= None
        /\ \A id \in Ids : results[id] /= c
    BY <1>0, <1>c, <1>t, <2>1, <2>3 DEF ComingBack, AnswerTypes
  <2>5. c <= written /\ request[c].id = up /\ held = None
    BY <1>0, <2>1, <2>2, <2>4 DEF Placed, Taking
  <2>6. ASSUME NEW id \in Ids PROVE c \notin {requests[id], temps[id], batch'[id]}
    <3>1. CASE id = up
      BY <1>0, <1>t, <2>2, <2>4, <3>1 DEF Apart, AnswerTypes
    <3>2. CASE id /= up
      <4>1. batch'[id] = batch[id]
        BY <1>t, <2>2, <3>2 DEF AnswerTypes
      <4>2. QED
        BY <1>0, <2>4, <2>5, <3>2, <4>1 DEF Placed
    <3>3. QED
      BY <3>1, <3>2
  <2>7. \A id \in Ids : batch'[id] \in {batch[id], None}
    BY <1>t, <2>2 DEF AnswerTypes
  <2>8. /\ \A d \in Copies : d /= c => outcome'[d] = outcome[d]
        /\ outcome'[c] = IF epc' = "rename" THEN "refused" ELSE "none"
    BY <1>t, <2>1, <2>3 DEF AnswerTypes
  <2>9. Decided'
    <3>1. ASSUME NEW d \in Copies, outcome'[d] /= "none"
          PROVE  /\ outcome'[d] \in {"done", "failed"} <=> runs[d] > 0
                 /\ d <= written /\ d /= held
                 /\ \A id \in Ids : d \notin {requests[id], batch'[id], temps[id]}
      <4>1. CASE d = c
        BY <1>c, <2>1, <2>3, <2>5, <2>6, <2>8, <3>1, <4>1
      <4>2. CASE d /= c
        BY <1>0, <1>c, <2>7, <2>8, <3>1, <4>2 DEF Decided
      <4>3. QED
        BY <4>1, <4>2
    <3>2. QED
      BY <2>1, <3>1 DEF Decided
  <2>10. Carrying'
    BY <2>1, <2>4, <2>8 DEF Carrying
  <2>11. ComingBack'
    <3>1. \A d \in Copies : outcome[d] /= "none" => outcome'[d] /= "none"
      BY <2>3, <2>8
    <3>2. QED
      BY <1>0, <1>c, <1>t, <2>1, <3>1 DEF ComingBack, AnswerTypes
  <2>12. QED
    BY <2>9, <2>10, <2>11 DEF AnswerInv
<1>16. CASE Refuse
  <2>1. /\ epc = "plan" /\ epc' = "rename"
        /\ outcome' = [outcome EXCEPT ![current] = "refused"]
        /\ UNCHANGED <<requests, temps, results, ahold, held, batch, current, written,
                       request, runs, collected, retold, kept, apc, atodo>>
    BY <1>16 DEF Refuse, spoolVars, agentVars
  <2>2. /\ current \in Copies /\ current <= written /\ runs[current] = 0
        /\ held = None
        /\ \A id \in Ids : current \notin {requests[id], batch[id], temps[id]}
    BY <1>0, <2>1 DEF Planned, Taking
  <2>3. /\ outcome'[current] = "refused"
        /\ \A d \in Copies : d /= current => outcome'[d] = outcome[d]
    BY <1>t, <2>1, <2>2 DEF AnswerTypes
  <2>4. Decided'
    BY <1>0, <1>c, <2>1, <2>2, <2>3 DEF Decided
  <2>5. Carrying'
    BY <1>0, <2>1, <2>3 DEF Carrying
  <2>6. ComingBack'
    <3>1. \A d \in Copies : outcome[d] /= "none" => outcome'[d] /= "none"
      BY <2>3
    <3>2. QED
      BY <1>0, <1>c, <1>t, <2>1, <3>1 DEF ComingBack, AnswerTypes
  <2>7. QED
    BY <2>4, <2>5, <2>6 DEF AnswerInv
<1>17. CASE Run
  <2>1. /\ epc = "plan" /\ epc' = "run"
        /\ runs' = [runs EXCEPT ![current] = @ + 1]
        /\ UNCHANGED <<requests, temps, results, ahold, held, batch, current, written,
                       request, outcome, collected, retold, kept, apc, atodo>>
    BY <1>17 DEF Run, spoolVars, agentVars
  <2>2. current \in Copies /\ runs[current] = 0 /\ outcome[current] = "none"
    BY <1>0, <2>1 DEF Planned, Carrying
  <2>3. /\ runs'[current] = 1
        /\ \A d \in Copies : d /= current => runs'[d] = runs[d]
    BY <1>t, <2>1, <2>2 DEF AnswerTypes
  <2>4. Decided'
    BY <1>0, <2>1, <2>2, <2>3 DEF Decided
  <2>5. Carrying' /\ ComingBack'
    BY <1>0, <2>1, <2>3 DEF Carrying, ComingBack
  <2>6. QED
    BY <2>4, <2>5 DEF AnswerInv
<1>9. CASE RunEnds
  <2>1. PICK verdict \in {"done", "failed"} :
          /\ epc = "run" /\ epc' = "rename"
          /\ outcome' = [outcome EXCEPT ![current] = verdict]
          /\ UNCHANGED <<requests, temps, results, ahold, held, batch, current, written,
                         request, runs, collected, retold, kept, apc, atodo>>
    BY <1>9 DEF RunEnds, spoolVars, agentVars
  <2>2. current \in Copies /\ runs[current] = 1
    BY <1>0, <1>c, <1>t, <2>1 DEF Carrying, AnswerTypes
  <2>3. /\ outcome'[current] = verdict
        /\ \A d \in Copies : d /= current => outcome'[d] = outcome[d]
    BY <1>t, <2>1, <2>2 DEF AnswerTypes
  <2>4. Decided'
    BY <1>0, <2>1, <2>2, <2>3 DEF Decided, Spent
  <2>5. Carrying'
    BY <1>0, <2>1, <2>3 DEF Carrying
  <2>6. ComingBack'
    <3>1. \A d \in Copies : outcome[d] /= "none" => outcome'[d] /= "none"
      BY <2>3
    <3>2. QED
      BY <1>0, <1>c, <1>t, <2>1, <3>1 DEF ComingBack, AnswerTypes
  <2>7. QED
    BY <2>4, <2>5, <2>6 DEF AnswerInv
<1>10. CASE RenameResult
  <2> DEFINE id == request[current].id
  <2>1. /\ epc = "rename" /\ epc' = "chown"
        /\ results' = [results EXCEPT ![id] = current]
        /\ UNCHANGED <<requests, temps, ahold, held, batch, current, written,
                       request, runs, outcome, collected, retold, kept, apc, atodo>>
    BY <1>10 DEF RenameResult, agentVars, historyVars
  <2>2. outcome[current] /= "none" /\ current \notin collected /\ current /= None
    BY <1>0, <2>1 DEF Carrying
  <2>3. \A j \in Ids : results'[j] = IF j = id THEN current ELSE results[j]
    BY <1>t, <2>1 DEF AnswerTypes
  <2>4. Decided' /\ Carrying'
    BY <1>0, <2>1, <2>2 DEF Decided, Carrying
  <2>5. ComingBack'
    BY <1>0, <2>1, <2>2, <2>3 DEF ComingBack
  <2>6. QED
    BY <2>4, <2>5 DEF AnswerInv
<1>11. CASE ChownResult \/ FailResult
  <2>1. /\ epc' = "carry" /\ current' = None
        /\ UNCHANGED <<requests, temps, results, ahold, held, batch, written, request,
                       runs, outcome, collected, retold, kept, apc, atodo>>
    BY <1>11 DEF ChownResult, FailResult, spoolVars, agentVars, historyVars
  <2>2. QED
    BY <1>0, <2>1 DEF AnswerInv, Decided, Carrying, ComingBack
<1>12. CASE KillExecutor \/ Reboot
  <2>1. /\ epc' = "idle" /\ current' = None /\ held' = None /\ batch' = NoFiles
        /\ requests' = requests \/ requests' = NoFiles
        /\ temps' = temps \/ temps' = NoFiles
        /\ results' = results \/ results' = NoFiles
        /\ UNCHANGED <<ahold, apc, atodo>> \/ ahold' = None
        /\ UNCHANGED <<written, request, runs, outcome, collected, retold, kept>>
    BY <1>12 DEF KillExecutor, Reboot, ExecutorGone, AgentGone, spoolVars, agentVars,
       historyVars
  <2>2. \A id \in Ids : /\ batch'[id] = None /\ requests'[id] \in {requests[id], None}
                        /\ temps'[id] \in {temps[id], None}
                        /\ results'[id] \in {results[id], None}
    BY <2>1 DEF NoFiles
  <2>3. Decided'
    BY <1>0, <1>c, <2>1, <2>2 DEF Decided
  <2>4. ComingBack'
    BY <1>0, <2>1, <2>2 DEF ComingBack
  <2>5. QED
    BY <2>1, <2>3, <2>4 DEF AnswerInv, Carrying
<1>13. CASE \/ BeginCollect \/ Start \/ TakeReadFails \/ Exit \/ Tick \/ ClockBack
            \/ TmpfilesRuns
  <2>1. CASE TakeReadFails
    <3>1. /\ epc = "take" /\ epc' = "unlink" /\ held' = None
          /\ UNCHANGED <<requests, temps, results, ahold, batch, current, written,
                         request, runs, outcome, collected, retold, kept, apc, atodo>>
      BY <2>1 DEF TakeReadFails, spoolVars, agentVars, historyVars
    <3>2. QED
      BY <1>0, <1>c, <3>1 DEF AnswerInv, Decided, Carrying, ComingBack
  <2>2. CASE BeginCollect \/ Start \/ Exit \/ Tick \/ ClockBack \/ TmpfilesRuns
    <3>1. UNCHANGED answerVars
      BY <2>2 DEF BeginCollect, Start, Exit, Tick, ClockBack, ClockMoves,
         TmpfilesRuns, answerVars, spoolVars,
         agentVars, executorVars, historyVars
    <3>2. UNCHANGED <<apc, atodo>> \/ ahold = None
      BY <1>0, <2>2 DEF BeginCollect, Start, Exit, Tick, ClockBack, ClockMoves,
         TmpfilesRuns, agentVars, ComingBack
    <3>3. epc' = epc \/ {epc, epc'} \cap {"plan", "run", "rename", "chown"} = {}
      BY <2>2 DEF BeginCollect, Start, Exit, Tick, ClockBack, ClockMoves,
         TmpfilesRuns, executorVars
    <3>4. QED
      BY <3>1, <3>2, <3>3, AnswersUntouched
  <2>3. QED
    BY <1>13, <2>1, <2>2
<1>14. CASE UNCHANGED vars
  BY <1>14, AnswersUntouched
  DEF vars, answerVars, spoolVars, agentVars, executorVars, historyVars
<1>18. QED
  BY <1>1, <1>2, <1>3, <1>4, <1>5, <1>6, <1>7, <1>8, <1>9, <1>10, <1>11, <1>12,
     <1>13, <1>14, <1>16, <1>17 DEF Next, AgentStep, ExecutorStep, MachineStep

LEMMA AnswerInit == Init => AnswerInv
  BY CopyFacts DEF Init, AnswerInv, Decided, Carrying, ComingBack, NoFiles

\* Whatever is killed, crashes or is written again, what the agent collects says of
\* the action what happened, and an outcome is collected again only if the agent
\* was not allowed to remove it (spool.go:252-257, 274).
THEOREM OutcomesAreHonest == Spec => []HonestOutcomes
<1>1. SafeInv /\ AnswerInv => HonestOutcomes
  BY DEF SafeInv, TypeInv, HistoryTypeOK, AnswerInv, Decided, ComingBack,
     HonestOutcomes
<1>2. QED
  BY SafeInvInit, SafeInvStep, AnswerInit, AnswerStep, <1>1, PTL DEF Spec

\* A copy that was written again stays so.
LEMMA ReissuedStays ==
    ASSUME NEW c \in Copies, UNCHANGED <<written, request>>
    PROVE  Reissued(c)' <=> Reissued(c)
  BY DEF Reissued

\* What is kept stays kept while a step moves copies between the places below.
LEMMA KeptStays ==
    ASSUME UNCHANGED <<written, request>>, NEW c \in Copies, Kept(c),
           \A x \in dropped : x \in dropped',
           c \in collected => c \in collected',
           c = held => Kept(c)', c = ahold => Kept(c)',
           \A id \in Ids : c \in {requests[id], temps[id], batch[id], results[id]}
                             => Kept(c)'
    PROVE  Kept(c)'
<1>1. Reissued(c) => Reissued(c)'
  BY ReissuedStays
<1>2. QED
  BY <1>1 DEF Kept

LEMMA KeptStep == SafeInv /\ AnswerInv /\ KeptInv /\ [Next]_vars => KeptInv'
<1> SUFFICES ASSUME SafeInv, AnswerInv, KeptInv, [Next]_vars PROVE KeptInv'
  OBVIOUS
<1>0. /\ TypeInv /\ Placed /\ Apart /\ Taking
      /\ Decided /\ Carrying /\ ComingBack
  BY DEF SafeInv, PlaceInv, AnswerInv
<1>t. AnswerTypes
  BY <1>0, AnswerTyped
<1>c. CopyOrNone = Copies \cup {None} /\ None \notin Copies
  BY CopyFacts
<1>w. 1..written \subseteq Copies /\ written \in Nat
  BY <1>t, BoundsAssumption DEF AnswerTypes, CopyOrNone, Copies
<1>k. faults = 0 =>
        \A c \in 1..written : Kept(c) \/ (c = current /\ epc /= "chown")
  BY DEF KeptInv
<1>i. \A c \in 1..written : request[c].id \in Ids
  BY DEF KeptInv
<1> USE DEF toldVars
<1>s. KeptInv => (apc = "spool" => aid \in Ids /\ temps[aid] /= None)
  BY DEF KeptInv
<1>f. faults \in Nat
  BY <1>0 DEF TypeInv, MachineTypeOK
\* While nothing fails, it is enough that what was kept is kept, and that the copy
\* carried out is, too, when it is let go of.
<1>q. ASSUME UNCHANGED <<written, request, faults>>,
             apc' = "spool" => apc = "spool" /\ UNCHANGED <<aid, temps>>,
             \A c \in Copies : c <= written /\ Kept(c)
                                 => Kept(c)' \/ (c = current' /\ epc' /= "chown"),
             \A c \in Copies : c <= written /\ c = current /\ epc /= "chown"
                                 => Kept(c)' \/ (c = current' /\ epc' /= "chown")
      PROVE  KeptInv'
  <2>1. ASSUME NEW c \in 1..written, faults = 0
        PROVE  Kept(c)' \/ (c = current' /\ epc' /= "chown")
    <3>1. c \in Copies /\ c <= written
      BY <1>w
    <3>2. QED
      BY <1>k, <1>q, <2>1, <3>1
  <2>2. apc' = "spool" => aid' \in Ids /\ temps'[aid'] /= None
    BY <1>q, <1>s
  <2>3. QED
    BY <1>i, <1>q, <2>1, <2>2 DEF KeptInv
<1>1. ASSUME NEW id \in Ids, BeginWrite(id) PROVE KeptInv'
  <2>1. /\ written + 1 \in Copies /\ written' = written + 1
        /\ temps' = [temps EXCEPT ![id] = written + 1]
        /\ aid' = id
        /\ UNCHANGED <<requests, results, ahold, held, batch, current, collected,
                       dropped, epc, faults>>
    BY <1>1, <1>w, BoundsAssumption DEF BeginWrite, executorVars, machineVars, Copies
  <2>2. \A c \in Copies : c <= written => request'[c] = request[c]
    BY <1>t, <1>w, <1>1, <2>1 DEF BeginWrite, AnswerTypes
  <2>3. request'[written + 1].id = id
    BY <1>t, <1>1, <2>1 DEF BeginWrite, AnswerTypes
  <2>4. temps'[id] = written + 1 /\ \A j \in Ids : j /= id => temps'[j] = temps[j]
    BY <1>t, <2>1 DEF AnswerTypes
  <2>5. \A c \in Copies : c = written + 1 => Kept(c)'
    BY <2>4 DEF Kept
  <2>6. ASSUME NEW c \in Copies, c <= written, Kept(c) PROVE Kept(c)'
    <3>1. Reissued(c) => Reissued(c)'
      <4>1. SUFFICES ASSUME Reissued(c) PROVE Reissued(c)'
        OBVIOUS
      <4>2. PICK d \in Copies : d /= c /\ d <= written /\ request[d].id = request[c].id
        BY <4>1 DEF Reissued
      <4>3. d <= written' /\ request'[d].id = request'[c].id
        BY <1>w, <2>1, <2>2, <2>6, <4>2 DEF Copies
      <4>4. QED
        BY <4>2, <4>3 DEF Reissued
    <3>2. c = temps[id] => Reissued(c)'
      <4>1. SUFFICES ASSUME c = temps[id] PROVE Reissued(c)'
        OBVIOUS
      <4>2. request[c].id = id
        BY <1>0, <1>c, <4>1 DEF Placed
      <4>3. request'[written + 1].id = request'[c].id
        BY <2>2, <2>3, <2>6, <4>2
      <4>4. written + 1 /= c /\ written + 1 <= written'
        BY <1>w, <2>1, <2>6
      <4>5. QED
        BY <2>1, <4>3, <4>4 DEF Reissued
    <3>3. QED
      BY <2>1, <2>4, <2>6, <3>1, <3>2 DEF Kept
  <2>7. ASSUME faults = 0, NEW c \in 1..written'
        PROVE  Kept(c)' \/ (c = current' /\ epc' /= "chown")
    <3>1. CASE c = written + 1
      BY <2>1, <2>5, <3>1
    <3>2. CASE c \in 1..written
      BY <1>k, <1>w, <2>1, <2>6, <2>7, <3>2
    <3>3. QED
      BY <1>w, <2>1, <3>1, <3>2
  <2>8. ASSUME NEW c \in 1..written' PROVE request'[c].id \in Ids
    <3>1. CASE c = written + 1
      BY <2>3, <3>1
    <3>2. CASE c \in 1..written
      BY <1>i, <1>w, <2>2, <3>2
    <3>3. QED
      BY <1>w, <2>1, <3>1, <3>2
  <2>9. temps'[aid'] /= None /\ aid' \in Ids
    BY <1>c, <2>1, <2>4
  <2>10. QED
    BY <2>1, <2>7, <2>8, <2>9 DEF KeptInv
<1>2. CASE FinishWrite
  <2>1. /\ apc = "spool" /\ apc' = "idle"
        /\ requests' = [requests EXCEPT ![aid] = temps[aid]]
        /\ temps' = [temps EXCEPT ![aid] = None]
        /\ UNCHANGED <<results, ahold, held, batch, current, written, request,
                       collected, dropped, epc, faults>>
    BY <1>2 DEF FinishWrite, executorVars, machineVars, historyVars
  <2>2. aid \in Ids /\ temps[aid] \in Copies
    BY <1>c, <1>s, <1>t, <2>1 DEF AnswerTypes
  <2>3. /\ requests'[aid] = temps[aid]
        /\ \A j \in Ids : j /= aid => requests'[j] = requests[j] /\ temps'[j] = temps[j]
    BY <1>t, <2>1, <2>2 DEF AnswerTypes
  <2>4. ASSUME NEW c \in Copies, Kept(c) PROVE Kept(c)'
    <3>1. c = temps[aid] => Kept(c)'
      BY <2>2, <2>3 DEF Kept
    <3>2. c = requests[aid] => Reissued(c)'
      <4>1. SUFFICES ASSUME c = requests[aid] PROVE Reissued(c)
        BY <2>1, ReissuedStays
      <4>2. /\ request[c].id = aid /\ request[temps[aid]].id = aid
            /\ temps[aid] <= written /\ c /= temps[aid]
        BY <1>0, <1>c, <2>2, <4>1 DEF Placed, Apart
      <4>3. QED
        BY <2>2, <4>2 DEF Reissued
    <3>3. \A id \in Ids : c \in {requests[id], temps[id], batch[id], results[id]} => Kept(c)'
      BY <2>1, <2>3, <3>1, <3>2 DEF Kept
    <3>4. (c = held \/ c = ahold) => Kept(c)'
      BY <2>1 DEF Kept
    <3>5. QED
      BY <2>1, <2>4, <3>3, <3>4, KeptStays
  <2>5. QED
    BY <1>q, <2>1, <2>4
<1>3. CASE CollectRead
  <2>1. /\ apc = "read" /\ apc' = "unlink"
        /\ UNCHANGED <<requests, temps, results, held, batch, current, written,
                       request, collected, dropped, epc, faults>>
    BY <1>3 DEF CollectRead, spoolVars, executorVars, machineVars, historyVars
  <2>2. ahold = None
    BY <1>0, <2>1 DEF ComingBack
  <2>3. ASSUME NEW c \in Copies, Kept(c) PROVE Kept(c)'
    <3>1. Reissued(c) => Reissued(c)'
      BY <2>1, ReissuedStays
    <3>2. QED
      BY <1>c, <2>1, <2>2, <2>3, <3>1 DEF Kept
  <2>4. QED
    BY <1>q, <2>1, <2>3
<1>4. CASE CollectUnlink
  <2> DEFINE id == Least(atodo)
  <2>1. /\ apc = "unlink" /\ apc' \in {"idle", "read"}
        /\ \/ /\ results' = [results EXCEPT ![id] = None]
              /\ dropped' = dropped \cup ({results[id]} \ {ahold, None})
           \/ results' = results /\ dropped' = dropped
        /\ collected' = collected \cup ({ahold} \ {None})
        /\ UNCHANGED <<requests, temps, held, batch, current, written, request, epc,
                       faults>>
    BY <1>4 DEF CollectUnlink, Tell, executorVars, machineVars
  <2>2. id \in Ids
    BY <1>t, <2>1 DEF AnswerTypes
  <2> HIDE DEF id
  <2>3. \A j \in Ids : j /= id => results'[j] = results[j]
    BY <1>t, <2>1 DEF AnswerTypes
  <2>4. \A c \in Copies : c \in collected \/ c = ahold => c \in collected'
    BY <1>c, <2>1
  <2>5. ASSUME NEW c \in Copies, Kept(c) PROVE Kept(c)'
    <3>1. c = ahold => Kept(c)'
      BY <2>4 DEF Kept
    <3>2. c = results[id] => Kept(c)'
      <4>1. CASE results' = results
        BY <2>2, <4>1 DEF Kept
      <4>2. CASE dropped' = dropped \cup ({results[id]} \ {ahold, None})
        BY <1>c, <2>4, <4>2 DEF Kept
      <4>3. QED
        BY <2>1, <4>1, <4>2
    <3>3. \A j \in Ids : c \in {requests[j], temps[j], batch[j], results[j]} => Kept(c)'
      BY <2>1, <2>3, <3>2 DEF Kept
    <3>4. c = held => Kept(c)'
      BY <2>1 DEF Kept
    <3>5. QED
      BY <2>1, <2>4, <2>5, <3>1, <3>3, <3>4, KeptStays
  <2>6. QED
    BY <1>q, <2>1, <2>5
<1>5. CASE TakeRead
  <2>1. /\ epc = "take" /\ epc' = "unlink"
        /\ UNCHANGED <<requests, temps, results, ahold, batch, current, written,
                       request, collected, dropped, apc, aid, faults>>
    BY <1>5 DEF TakeRead, spoolVars, agentVars, machineVars, historyVars
  <2>2. held = None
    BY <1>0, <2>1 DEF Taking
  <2>3. ASSUME NEW c \in Copies, Kept(c) PROVE Kept(c)'
    <3>1. Reissued(c) => Reissued(c)'
      BY <2>1, ReissuedStays
    <3>2. QED
      BY <1>c, <2>1, <2>2, <2>3, <3>1 DEF Kept
  <2>4. QED
    BY <1>q, <2>1, <2>3
<1>6. CASE TakeUnlink
  <2> DEFINE id == Least(todo)
             got == IF id \in over THEN None ELSE held
  <2>1. /\ epc = "unlink" /\ epc' \in {"carry", "take"}
        /\ dropped' = dropped \cup ({held, requests[id]} \ {got, None})
        /\ requests' = [requests EXCEPT ![id] = None]
        /\ batch' = [batch EXCEPT ![id] = got]
        /\ UNCHANGED <<temps, results, ahold, current, written, request, collected,
                       apc, aid, faults>>
    BY <1>6 DEF TakeUnlink, agentVars, machineVars
  <2>2. id \in Ids /\ batch[id] = None
    BY <1>0, <1>t, <2>1 DEF AnswerTypes, Taking
  <2> HIDE DEF id, got
  <2>3. /\ batch'[id] = got
        /\ \A j \in Ids : j /= id => requests'[j] = requests[j] /\ batch'[j] = batch[j]
    BY <1>t, <2>1, <2>2 DEF AnswerTypes
  <2>4. ASSUME NEW c \in Copies, Kept(c) PROVE Kept(c)'
    <3>1. c \in {held, requests[id]} => Kept(c)'
      <4>1. CASE c = got
        BY <2>2, <2>3, <4>1 DEF Kept
      <4>2. CASE c \in {held, requests[id]} /\ c /= got
        BY <1>c, <2>1, <4>2 DEF Kept
      <4>3. QED
        BY <4>1, <4>2
    <3>2. \A j \in Ids : c \in {requests[j], temps[j], batch[j], results[j]} => Kept(c)'
      BY <1>c, <2>1, <2>2, <2>3, <3>1 DEF Kept
    <3>3. c = ahold => Kept(c)'
      BY <2>1 DEF Kept
    <3>4. QED
      BY <2>1, <2>4, <3>1, <3>2, <3>3, KeptStays
  <2>5. QED
    BY <1>q, <2>1, <2>4
<1>7. CASE Lapse \/ TakeUp
  <2>1. PICK c \in Copies :
          /\ UpNext(c) /\ current' = c /\ epc = "carry" /\ epc' /= "chown"
          /\ batch' = [batch EXCEPT ![Least(Present(batch))] = None]
          /\ UNCHANGED <<requests, temps, results, ahold, held, written, request,
                         collected, dropped, apc, aid, faults>>
    BY <1>7 DEF Lapse, TakeUp, spoolVars, agentVars, machineVars, historyVars
  <2>2. PICK up \in Ids : batch[up] = c /\ batch' = [batch EXCEPT ![up] = None]
    BY <1>0, <2>1, TakenUp
  <2>3. \A j \in Ids : j /= up => batch'[j] = batch[j]
    BY <1>t, <2>2 DEF AnswerTypes
  <2>4. ASSUME NEW d \in Copies, Kept(d), d /= c PROVE Kept(d)'
    <3>1. Reissued(d) => Reissued(d)'
      BY <2>1, ReissuedStays
    <3>2. QED
      BY <2>1, <2>2, <2>3, <2>4, <3>1 DEF Kept
  <2>5. current = None
    BY <1>0, <2>1 DEF Carrying
  <2>6. QED
    BY <1>c, <1>q, <2>1, <2>4, <2>5
<1>8. CASE RenameResult
  <2> DEFINE id == request[current].id
  <2>1. /\ epc = "rename" /\ epc' = "chown"
        /\ results' = [results EXCEPT ![id] = current]
        /\ UNCHANGED <<requests, temps, ahold, held, batch, current, written,
                       request, collected, dropped, apc, aid, faults>>
    BY <1>8 DEF RenameResult, agentVars, machineVars, historyVars
  <2>2. current \in Copies /\ current <= written /\ outcome[current] /= "none"
    BY <1>0, <1>c, <1>t, <2>1 DEF Carrying, Decided, AnswerTypes
  <2>3. \A j \in Ids : results'[j] = IF j = id THEN current ELSE results[j]
    BY <1>t, <2>1 DEF AnswerTypes
  <2>4. ASSUME NEW c \in Copies, Kept(c) PROVE Kept(c)' \/ c = current
    <3>1. SUFFICES ASSUME c /= current PROVE Kept(c)'
      OBVIOUS
    <3>2. ASSUME NEW j \in Ids, c = results[j] PROVE Kept(c)'
      <4>1. CASE j /= id
        BY <2>3, <3>2, <4>1 DEF Kept
      <4>2. CASE j = id
        <5>1. request[c].id = id
          BY <1>0, <1>c, <3>2, <4>2 DEF ComingBack
        <5>2. Reissued(c)
          BY <2>2, <3>1, <5>1 DEF Reissued
        <5>3. QED
          BY <2>1, <5>2, ReissuedStays DEF Kept
      <4>3. QED
        BY <4>1, <4>2
    <3>3. \A j \in Ids : c \in {requests[j], temps[j], batch[j], results[j]} => Kept(c)'
      BY <2>1, <3>2 DEF Kept
    <3>4. (c = held \/ c = ahold) => Kept(c)'
      BY <2>1 DEF Kept
    <3>5. QED
      BY <2>1, <2>4, <3>3, <3>4, KeptStays
  <2>5. \A c \in Copies : c = current => Kept(c)'
    <3>1. id \in Ids
      BY <1>i, <2>2 DEF Copies
    <3>2. QED
      BY <2>1, <2>3, <3>1 DEF Kept
  <2>6. QED
    BY <1>q, <2>1, <2>4, <2>5
<1>9. CASE ChownResult
  <2>1. /\ epc = "chown" /\ epc' = "carry" /\ current' = None
        /\ UNCHANGED <<requests, temps, results, ahold, held, batch, written, request,
                       collected, dropped, apc, aid, faults>>
    BY <1>9 DEF ChownResult, agentVars, machineVars, historyVars
  <2>2. ASSUME NEW c \in Copies, Kept(c) PROVE Kept(c)'
    <3>1. Reissued(c) => Reissued(c)'
      BY <2>1, ReissuedStays
    <3>2. QED
      BY <2>1, <2>2, <3>1 DEF Kept
  <2>3. QED
    BY <1>q, <2>1, <2>2
<1>10. CASE \/ FailWrite \/ CollectReadFails \/ TakeReadFails \/ FailResult
            \/ KillExecutor \/ CrashAgent \/ Reboot \/ TmpfilesRuns \/ ClockBack
  <2>1. faults' = faults + 1
    BY <1>10 DEF FailWrite, CollectReadFails, TakeReadFails, FailResult, KillExecutor,
       CrashAgent, Reboot, TmpfilesRuns, ClockBack, ClockMoves, Fault
  <2>2. faults' /= 0
    BY <1>f, <2>1
  <2>3. apc' = "spool" => apc = "spool" /\ UNCHANGED <<aid, temps>>
    BY <1>10 DEF FailWrite, CollectReadFails, TakeReadFails, FailResult, KillExecutor,
       CrashAgent, Reboot, TmpfilesRuns, ClockBack, ClockMoves, AgentGone, spoolVars, agentVars
  <2>4. UNCHANGED <<written, request>>
    BY <1>10 DEF FailWrite, CollectReadFails, TakeReadFails, FailResult, KillExecutor,
       CrashAgent, Reboot, TmpfilesRuns, ClockBack, ClockMoves, historyVars
  <2>5. QED
    BY <1>i, <1>s, <2>2, <2>3, <2>4 DEF KeptInv
<1>11. CASE \/ BeginCollect \/ Start \/ Refuse \/ Run \/ RunEnds \/ Exit \/ Tick
            \/ UNCHANGED vars
  <2>1. UNCHANGED <<requests, temps, results, ahold, held, batch, current, written,
                    request, collected, dropped, faults>>
    BY <1>11 DEF BeginCollect, Start, Refuse, Run, RunEnds, Exit, Tick,
       ClockMoves, vars, spoolVars, agentVars,
       executorVars, machineVars, historyVars
  <2>2. apc' = "spool" => apc = "spool" /\ aid' = aid
    BY <1>11 DEF BeginCollect, Start, Refuse, Run, RunEnds, Exit, Tick,
       ClockMoves, vars, agentVars
  <2>3. epc' = "chown" => epc = "chown"
    BY <1>11 DEF BeginCollect, Start, Refuse, Run, RunEnds, Exit, Tick,
       ClockMoves, vars, executorVars
  <2>4. ASSUME NEW c \in Copies, Kept(c) PROVE Kept(c)'
    <3>1. Reissued(c) => Reissued(c)'
      BY <2>1, ReissuedStays
    <3>2. QED
      BY <2>1, <2>4, <3>1 DEF Kept
  <2>5. QED
    BY <1>q, <2>1, <2>2, <2>3, <2>4
<1>12. QED
  BY <1>1, <1>2, <1>3, <1>4, <1>5, <1>6, <1>7, <1>8, <1>9, <1>10, <1>11
  DEF Next, AgentStep, ExecutorStep, MachineStep

\* As long as nothing fails, a written request is on its way, answered, written
\* twice, or was dropped over the cap or as an unreadable result (spool.go:162-168,
\* 252-257): no interleaving of the two processes loses one anywhere else.
THEOREM NothingEverVanishes == Spec => []NothingVanishes
<1>1. Init => KeptInv
  BY DEF Init, KeptInv
<1>2. SafeInv /\ KeptInv => NothingVanishes
  <2>1. SUFFICES ASSUME SafeInv, KeptInv, faults = 0, NEW c \in 1..written
                 PROVE  InFlight(c) \/ c \in collected \/ Reissued(c) \/ c \in dropped
    BY DEF NothingVanishes
  <2>2. Kept(c) \/ c = current
    BY <2>1 DEF KeptInv
  <2>3. QED
    BY <2>2 DEF Kept, InFlight
<1>3. QED
  BY SafeInvInit, SafeInvStep, AnswerInit, AnswerStep, <1>1, <1>2, KeptStep, PTL
  DEF Spec
============================================================================
