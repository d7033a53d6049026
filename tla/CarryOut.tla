------------------------------ MODULE CarryOut ------------------------------
(***************************************************************************)
(* What the executor does with a batch of requests, against two clocks:    *)
(* the bound each plan puts on its command, and systemd's bound on the     *)
(* whole unit.  The commands are the machine's and may take any time; the  *)
(* one that is followed step by step is the purge of swap, which takes the *)
(* machine's reserve away before it gives it back.                         *)
(*                                                                         *)
(* How a batch gets to the executor, and its outcomes back, is Handoff's.  *)
(***************************************************************************)
EXTENDS Integers, Sequences, FiniteSets

CONSTANTS
    Areas,             \* swap areas of the machine, all of them listed in fstab
    CommandTimeout,    \* commandTimeout
    MaintainTimeout,   \* of planDBMaintain
    CleanTimeout,      \* of planFreeDiskSpace
    PurgeTimeout,      \* of a purge of swap
    StartTimeout,      \* TimeoutStartSec
    MaxBatch,          \* bound: requests in a batch
    MaxStarts          \* bound: starts of the unit

ASSUME CarryOutAssumption ==
    /\ CommandTimeout \in Nat \ {0} /\ MaintainTimeout \in Nat \ {0}
    /\ CleanTimeout \in Nat \ {0} /\ PurgeTimeout \in Nat \ {0}
    /\ StartTimeout \in Nat \ {0} /\ MaxBatch \in Nat /\ MaxStarts \in Nat

Keys == {"restart_service", "db_maintain", "free_disk_space", "purge_swap",
         "enable_request_metrics", "enable_db_metrics",
         "disable_request_metrics", "disable_db_metrics"}

VARIABLES
    todo,          \* the keys of the requests not yet carried out
    pc,
    limit,         \* the bound on the command being run
    spent,         \* time since it was started
    elapsed,       \* time since the unit was started
    on,            \* swap areas in use
    \* history
    starts,
    said,          \* the outcome of each request of this batch
    excuse,        \* why the reserve may not be complete
    cut            \* a command whose own bound exceeds the unit's was stopped at that

vars == <<todo, pc, limit, spent, elapsed, on, starts, said, excuse, cut>>

Purging == {"swapoff", "rearm", "swapon"}
Verdicts == {"refused", "done", "failed", "gave up", "rearmed", "no reserve"}

TypeOK ==
    /\ todo \in Seq(Keys)
    /\ pc \in {"idle", "plan", "run"} \cup Purging
    /\ limit \in Nat /\ spent \in 0..StartTimeout /\ elapsed \in 0..StartTimeout
    /\ on \subseteq Areas
    /\ starts \in 0..MaxStarts
    /\ said \in Seq(Verdicts) /\ Len(said) + Len(todo) <= MaxBatch
    /\ excuse \in {"none", "said", "ignored", "killed"}
    /\ cut \in BOOLEAN

Init ==
    /\ todo = <<>> /\ pc = "idle" /\ limit = 0 /\ spent = 0 /\ elapsed = 0
    /\ on = Areas
    /\ starts = 0 /\ said = <<>> /\ excuse = "none" /\ cut = FALSE

----------------------------------------------------------------------------
(* fixes.Plan: what an action may resolve to on some machine. *)

Refusal == [kind |-> "refusal", limit |-> 0]
Settings == [kind |-> "settings", limit |-> 0]
Exec(bound) == [kind |-> "exec", limit |-> bound]

PlanRestart == {Refusal, Exec(CommandTimeout)}
PlanFreeDiskSpace == {Refusal, Exec(CleanTimeout)}
PlanDBMaintain == {Refusal, Exec(MaintainTimeout)}
PlanEnableRequestMetrics == {Refusal, Settings}
PlanEnableDBMetrics == {Refusal, Settings}

Plan(key) ==
    CASE key = "restart_service"         -> PlanRestart
      [] key = "enable_request_metrics"  -> PlanEnableRequestMetrics
      [] key = "enable_db_metrics"       -> PlanEnableDBMetrics
      [] key = "db_maintain"             -> PlanDBMaintain
      [] key = "free_disk_space"         -> PlanFreeDiskSpace
      [] key = "disable_request_metrics" -> {Settings}
      [] key = "disable_db_metrics"      -> {Refusal, Settings}
      [] key = "purge_swap"              -> {[kind |-> "purge", limit |-> PurgeTimeout]}

\* SwapPurgeVerdict says no of a machine without swap in use, and may say no of
\* any other.
VerdictAllows == on /= {}

----------------------------------------------------------------------------
(* runExecutor and carryOut *)

Start(batch) ==
    /\ pc = "idle" /\ starts < MaxStarts
    /\ starts' = starts + 1
    /\ todo' = batch /\ said' = <<>>
    /\ elapsed' = 0
    /\ pc' = "plan"
    /\ UNCHANGED <<limit, spent, on, excuse, cut>>

\* Mutant: the loop carries out the first request again.
SaysAndStays(verdict) ==
    /\ said' = Append(said, verdict)
    /\ pc' = "plan"
    /\ UNCHANGED <<todo, limit, spent, elapsed, starts, cut>>

\* carryOut returns, and the loop goes on with the next request.
Says(verdict) ==
    /\ said' = Append(said, verdict)
    /\ todo' = Tail(todo)
    /\ pc' = "plan"
    /\ UNCHANGED <<limit, spent, elapsed, starts, cut>>

\* The request is stale, Plan says no, or the guard of the purge does.
Refuse ==
    /\ pc = "plan" /\ todo /= <<>>
    /\ Says("refused")
    /\ UNCHANGED <<on, excuse>>

\* A settings file is written or removed, which runs no program.
ChangeSettings ==
    /\ pc = "plan" /\ todo /= <<>> /\ Settings \in Plan(Head(todo))
    /\ \E verdict \in {"done", "failed"} : Says(verdict)
    /\ UNCHANGED <<on, excuse>>

\* A program is started, with the plan's own bound or the default one.
Begin(kind, step) ==
    /\ pc = "plan" /\ todo /= <<>>
    /\ \E command \in Plan(Head(todo)) :
         command.kind = kind /\ limit' = command.limit
    /\ spent' = 0
    /\ pc' = step
    /\ UNCHANGED <<todo, elapsed, on, starts, said, excuse, cut>>

BeginExec == Begin("exec", "run")

ExecEnds ==
    /\ pc = "run" /\ spent < limit
    /\ \E verdict \in {"done", "failed"} : Says(verdict)
    /\ UNCHANGED <<on, excuse>>

\* The bound has passed.  However the command ended, it counts as given up on.
GiveUp ==
    /\ pc = "run" /\ spent >= limit
    /\ Says("gave up")
    /\ UNCHANGED <<on, excuse>>

----------------------------------------------------------------------------
(* executePurgeSwap *)

BeginPurge == VerdictAllows /\ Begin("purge", "swapoff")

\* swapoff -a empties one area after the other.
AreaOff(a) ==
    /\ pc = "swapoff" /\ a \in on
    /\ on' = on \ {a}
    /\ UNCHANGED <<todo, pc, limit, spent, elapsed, starts, said, excuse, cut>>

SwapoffEnds ==
    /\ pc = "swapoff" /\ on = {} /\ spent < limit
    /\ pc' = "swapon"
    /\ UNCHANGED <<todo, limit, spent, elapsed, on, starts, said, excuse, cut>>

\* Mutant: a failed swapoff is reported at once.
SwapoffFailsAndReports ==
    /\ pc = "swapoff"
    /\ Says("failed")
    /\ UNCHANGED <<on, excuse>>

\* It fails partway, or is stopped at the bound.
SwapoffFails ==
    /\ pc = "swapoff"
    /\ pc' = "rearm"
    /\ UNCHANGED <<todo, limit, spent, elapsed, on, starts, said, excuse, cut>>

\* The result of this swapon is not looked at, and it has no bound of its own.
Rearm ==
    /\ pc = "rearm"
    /\ \E back \in SUBSET Areas :
         /\ on' = on \cup back
         /\ excuse' = IF on' = Areas THEN "none" ELSE "ignored"
    /\ Says("rearmed")

SwaponDone ==
    /\ pc = "swapon" /\ spent < limit
    /\ on' = Areas
    /\ Says("done")
    /\ excuse' = "none"

\* It fails, or the bound has passed, and the owner is told of it.
SwaponFails ==
    /\ pc = "swapon"
    /\ \E back \in SUBSET Areas : on' = on \cup back
    /\ Says("no reserve")
    /\ excuse' = "said"

Exit ==
    /\ pc = "plan" /\ todo = <<>>
    /\ pc' = "idle"
    /\ UNCHANGED <<todo, limit, spent, elapsed, on, starts, said, excuse, cut>>

----------------------------------------------------------------------------
(* systemd *)

\* At TimeoutStartSec the unit is stopped with everything it runs.
Kill ==
    /\ pc /= "idle" /\ elapsed = StartTimeout
    /\ pc' = "idle"
    /\ todo' = <<>>
    /\ cut' = (cut \/ (/\ pc \in {"run", "swapoff", "swapon"}
                       /\ spent = StartTimeout /\ spent < limit))
    /\ excuse' = IF pc \in Purging THEN "killed" ELSE excuse
    /\ UNCHANGED <<limit, spent, elapsed, on, starts, said>>

\* The unit does not outlive its bound, so time stops there until it is killed.
Tick ==
    /\ pc /= "idle" /\ elapsed < StartTimeout
    /\ elapsed' = elapsed + 1
    /\ spent' = IF pc = "plan" THEN spent ELSE spent + 1
    /\ UNCHANGED <<todo, pc, limit, on, starts, said, excuse, cut>>

\* The owner turns swap back on by hand.
SwaponByHand ==
    /\ pc \notin Purging /\ on /= Areas
    /\ on' = Areas /\ excuse' = "none"
    /\ UNCHANGED <<todo, pc, limit, spent, elapsed, starts, said, cut>>

----------------------------------------------------------------------------
Batches == UNION {[1..n -> Keys] : n \in 1..MaxBatch}

ExecutorStep ==
    \/ Refuse \/ ChangeSettings \/ BeginExec \/ ExecEnds \/ GiveUp
    \/ BeginPurge \/ \E a \in Areas : AreaOff(a)
    \/ SwapoffEnds \/ SwapoffFails \/ Rearm \/ SwaponDone \/ SwaponFails
    \/ Exit

Next ==
    \/ \E batch \in Batches : Start(batch)
    \/ ExecutorStep
    \/ Kill \/ Tick
    \/ SwaponByHand

Spec == Init /\ [][Next]_vars

----------------------------------------------------------------------------
\* Outside a purge all of the swap is in use, unless the owner was told that it
\* is not, the executor was killed in the middle of a purge, or the one swapon
\* whose result is ignored failed (execute.go:234-253).
ReserveAccountedFor ==
    (pc \notin Purging /\ on /= Areas) => excuse /= "none"

\* A plan's own bound is the bound on its command: "Database maintenance on a
\* large cluster legitimately outlives the 60 seconds a restart is allowed"
\* (fixes.go:238-240).  So a command that was given longer than TimeoutStartSec,
\* and has had the unit's whole time, is not stopped for having used it up.
NotCutShort == ~cut
=============================================================================
