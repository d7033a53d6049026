--------------------------- MODULE CarryOutProofs ---------------------------
(***************************************************************************)
(* Proofs about CarryOut, for any swap areas, bounds and batches.          *)
(***************************************************************************)
EXTENDS CarryOut, TLAPS

\* An outcome is added only as its request is taken off the batch.
LEMMA SaysKeepsTypes ==
    ASSUME TypeOK, todo /= <<>>, NEW verdict \in Verdicts, Says(verdict)
    PROVE  /\ todo' \in Seq(Keys) /\ said' \in Seq(Verdicts)
           /\ Len(said') + Len(todo') <= MaxBatch
           /\ pc' = "plan" /\ limit' \in Nat /\ spent' \in 0..StartTimeout
           /\ elapsed' \in 0..StartTimeout /\ starts' \in 0..MaxStarts
           /\ cut' \in BOOLEAN
<1>1. /\ todo' \in Seq(Keys) /\ Len(todo') = Len(todo) - 1
  BY DEF TypeOK, Says
<1>2. /\ said' \in Seq(Verdicts) /\ Len(said') = Len(said) + 1
  BY DEF TypeOK, Says
<1>3. Len(said') + Len(todo') <= MaxBatch
  BY <1>1, <1>2, CarryOutAssumption DEF TypeOK
<1>4. /\ pc' = "plan" /\ limit' \in Nat /\ spent' \in 0..StartTimeout
      /\ elapsed' \in 0..StartTimeout /\ starts' \in 0..MaxStarts
      /\ cut' \in BOOLEAN
  BY DEF TypeOK, Says
<1> QED
  BY <1>1, <1>2, <1>3, <1>4

\* A program runs only for a request of the batch, and no longer than the unit.
Busy ==
    pc \notin {"idle", "plan"} => /\ todo /= <<>>
                                 /\ spent <= elapsed

TypeInv == TypeOK /\ Busy

\* The unit starts out idle, with all of the swap in use.
LEMMA InitTypes == Init => TypeInv
<1> SUFFICES ASSUME Init PROVE TypeInv
  OBVIOUS
<1> USE CarryOutAssumption DEF Init
<1>1. todo \in Seq(Keys) /\ said \in Seq(Verdicts) /\ Len(said) + Len(todo) <= MaxBatch
  <2>1. <<>> \in Seq(Keys) /\ <<>> \in Seq(Verdicts) /\ Len(<<>>) = 0
    OBVIOUS
  <2>2. todo = <<>> /\ said = <<>>
    OBVIOUS
  <2> QED
    BY <2>1, <2>2
<1>2. /\ limit \in Nat /\ spent \in 0..StartTimeout
      /\ elapsed \in 0..StartTimeout /\ starts \in 0..MaxStarts
  OBVIOUS
<1>3. on \subseteq Areas /\ cut \in BOOLEAN
  OBVIOUS
<1> QED
  BY <1>1, <1>2, <1>3 DEF TypeInv, TypeOK, Busy

\* One step keeps the types, with the two facts that make them inductive.
LEMMA StepKeepsTypes ==
    ASSUME TypeInv, [Next]_vars
    PROVE  TypeInv'
<1> USE CarryOutAssumption DEF TypeInv, Busy, Purging
<1>1. ASSUME NEW batch \in Batches, Start(batch)
      PROVE  TypeInv'
  <2>1. batch \in Seq(Keys) /\ Len(batch) <= MaxBatch
    BY DEF Batches
  <2> QED
    BY <1>1, <2>1 DEF Start, TypeOK
<1>2. ASSUME NEW verdict \in Verdicts, todo /= <<>>, Says(verdict),
             on' \subseteq Areas, excuse' \in {"none", "said", "ignored", "killed"}
      PROVE  TypeInv'
  BY <1>2, SaysKeepsTypes DEF TypeOK
<1>3. CASE Refuse
  BY <1>2, <1>3 DEF Refuse, TypeOK, Verdicts
<1>4. CASE ChangeSettings
  BY <1>2, <1>4 DEF ChangeSettings, TypeOK, Verdicts
<1>5. CASE ExecEnds
  BY <1>2, <1>5 DEF ExecEnds, TypeOK, Verdicts
<1>6. CASE GiveUp
  BY <1>2, <1>6 DEF GiveUp, TypeOK, Verdicts
<1>7. CASE Rearm
  BY <1>2, <1>7 DEF Rearm, TypeOK, Verdicts
<1>8. CASE SwaponDone
  BY <1>2, <1>8 DEF SwaponDone, TypeOK, Verdicts
<1>9. CASE SwaponFails
  BY <1>2, <1>9 DEF SwaponFails, TypeOK, Verdicts
<1>10. ASSUME NEW kind, NEW step \in {"run", "swapoff"}, Begin(kind, step)
       PROVE  TypeInv'
  <2>1. \A command \in Plan(Head(todo)) : command.limit \in Nat
    <3>1. Head(todo) \in Keys
      BY <1>10 DEF Begin, TypeOK
    <3> QED
      BY <3>1 DEF Keys, Plan, PlanRestart, PlanFreeDiskSpace, PlanDBMaintain,
         PlanEnableRequestMetrics, PlanEnableDBMetrics, Refusal, Settings, Exec
  <2>2. limit' \in Nat
    BY <1>10, <2>1 DEF Begin
  <2> QED
    BY <1>10, <2>2 DEF Begin, TypeOK
<1>11. CASE BeginExec
  BY <1>10, <1>11 DEF BeginExec
<1>12. CASE BeginPurge
  BY <1>10, <1>12 DEF BeginPurge
<1>13. ASSUME NEW a \in Areas, AreaOff(a)
       PROVE  TypeInv'
  BY <1>13 DEF AreaOff, TypeOK
<1>14. CASE SwapoffEnds
  BY <1>14 DEF SwapoffEnds, TypeOK
<1>15. CASE SwapoffFails
  BY <1>15 DEF SwapoffFails, TypeOK
<1>16. CASE Exit
  BY <1>16 DEF Exit, TypeOK
<1>17. CASE Kill
  BY <1>17 DEF Kill, TypeOK
<1>18. CASE Tick
  BY <1>18 DEF Tick, TypeOK
<1>19. CASE SwaponByHand
  BY <1>19 DEF SwaponByHand, TypeOK
<1>20. CASE UNCHANGED vars
  BY <1>20 DEF vars, TypeOK
<1> QED
  BY <1>1, <1>3, <1>4, <1>5, <1>6, <1>7, <1>8, <1>9, <1>11, <1>12, <1>13,
     <1>14, <1>15, <1>16, <1>17, <1>18, <1>19, <1>20
     DEF Next, ExecutorStep

\* Every variable keeps its type; in particular no request of a batch gets two
\* outcomes (execute.go:66-71) and no command outlives the unit.
THEOREM TypeCorrect == Spec => []TypeOK
<1>1. TypeInv => TypeOK
  BY DEF TypeInv
<1> QED
  BY <1>1, InitTypes, StepKeepsTypes, PTL DEF Spec

\* One step of the executor, of systemd or of the owner keeps the account of
\* the reserve.
LEMMA StepKeepsAccount ==
    ASSUME ReserveAccountedFor, [Next]_vars
    PROVE  ReserveAccountedFor'
<1> USE DEF ReserveAccountedFor, Purging
<1>1. ASSUME NEW batch \in Batches, Start(batch)
      PROVE  ReserveAccountedFor'
  BY <1>1 DEF Start
<1>2. CASE Refuse
  BY <1>2 DEF Refuse
<1>3. CASE ChangeSettings
  BY <1>3 DEF ChangeSettings
<1>4. CASE BeginExec
  BY <1>4 DEF BeginExec, Begin
<1>5. CASE ExecEnds
  BY <1>5 DEF ExecEnds
<1>6. CASE GiveUp
  BY <1>6 DEF GiveUp
<1>7. CASE BeginPurge
  BY <1>7 DEF BeginPurge, Begin
<1>8. ASSUME NEW a \in Areas, AreaOff(a)
      PROVE  ReserveAccountedFor'
  BY <1>8 DEF AreaOff
<1>9. CASE SwapoffEnds
  BY <1>9 DEF SwapoffEnds
<1>10. CASE SwapoffFails
  BY <1>10 DEF SwapoffFails
<1>11. CASE Rearm
  BY <1>11 DEF Rearm
<1>12. CASE SwaponDone
  BY <1>12 DEF SwaponDone
<1>13. CASE SwaponFails
  BY <1>13 DEF SwaponFails
<1>14. CASE Exit
  BY <1>14 DEF Exit
<1>15. CASE Kill
  BY <1>15 DEF Kill
<1>16. CASE Tick
  BY <1>16 DEF Tick
<1>17. CASE SwaponByHand
  BY <1>17 DEF SwaponByHand
<1>18. CASE UNCHANGED vars
  BY <1>18 DEF vars
<1> QED
  BY <1>1, <1>2, <1>3, <1>4, <1>5, <1>6, <1>7, <1>8, <1>9, <1>10, <1>11,
     <1>12, <1>13, <1>14, <1>15, <1>16, <1>17, <1>18
     DEF Next, ExecutorStep

\* Whatever swapoff and swapon do, and whenever systemd ends the executor, the
\* machine is without part of its swap outside a purge only where the outcome
\* says so, the purge was killed, or the unchecked swapon failed
\* (execute.go:234-253).
THEOREM ReserveIsAccountedFor == Spec => []ReserveAccountedFor
<1>1. Init => ReserveAccountedFor
  BY DEF Init, ReserveAccountedFor
<1>2. ReserveAccountedFor /\ [Next]_vars => ReserveAccountedFor'
  BY StepKeepsAccount
<1> QED
  BY <1>1, <1>2, PTL DEF Spec
=============================================================================
