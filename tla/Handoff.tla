------------------------------ MODULE Handoff ------------------------------
(***************************************************************************)
(* The handoff between the agent and the privileged executor: the two      *)
(* spool directories under /run/onserva, the unprivileged agent that       *)
(* writes requests and collects results, and the one-shot executor that    *)
(* systemd starts whenever a request file exists.                          *)
(*                                                                         *)
(* One action is one file-system call, because that is the grain at which  *)
(* the two processes interleave.  A request file is named after its        *)
(* authorisation id, so ids are numbers in directory order; every call of  *)
(* spool.Write makes a new copy, numbered in order of writing, and file    *)
(* contents are copy numbers (None for no file).                           *)
(***************************************************************************)
EXTENDS Integers, FiniteSets

CONSTANTS
    Ids,          \* authorisation ids, ordered as their file names sort
    MaxPending,   \* spool.maxPending
    MaxAge,       \* spool.MaxAge, in clock units
    MaxWrites,    \* bound: calls of spool.Write
    MaxNow,       \* bound: the wall clock
    MaxFaults     \* bound: kills, crashes, reboots, clock steps, failed calls

ASSUME IdsAssumption == Ids \subseteq Nat \ {0} /\ IsFiniteSet(Ids)
ASSUME BoundsAssumption ==
    /\ MaxPending \in Nat
    /\ MaxAge \in Nat
    /\ MaxWrites \in Nat
    /\ MaxNow \in Nat
    /\ MaxFaults \in Nat

None == 0
Copies == 1..MaxWrites
CopyOrNone == 0..MaxWrites

VARIABLES
    \* the spool, on tmpfs
    requests,     \* requests/<id>.json: the copy in the file, or None
    temps,        \* requests/<id>.json.tmp
    results,      \* results/<id>.json: the copy whose outcome it holds
    readable,     \* results/<id>.json belongs to the agent's group
    shared,       \* results/ lets the agent remove files: mode 0770, not 0750
    \* the agent
    apc,          \* what the agent is doing with the spool
    aid,          \* the id spool.Write is writing
    atodo,        \* entries TakeResults listed and has not yet removed
    ahold,        \* the outcome read and not yet removed
    \* the executor
    epc,
    todo,         \* entries TakeRequests listed and has not yet removed
    over,         \* those of them beyond maxPending in the listing
    held,         \* the request read and not yet removed
    batch,        \* requests taken and not yet carried out, by id
    current,      \* the request being carried out
    clocks,       \* what the clock read while the next request's turn had come
    \* the machine
    now, boot, faults,
    \* history
    written,      \* copies written so far
    request,      \* what each copy says, and the boot it was written in
    runs,         \* how often each copy's action was started
    outcome,      \* what carryOut said of each copy
    collected,    \* copies whose outcome TakeResults returned
    retold,       \* those it returned more than once
    kept,         \* those it returned and was not allowed to remove
    lost,         \* copies the executor had taken when it was ended
    dropped       \* copies or outcomes removed from the spool and not passed on

spoolVars == <<requests, temps, results, readable, shared>>
agentVars == <<apc, aid, atodo, ahold>>
executorVars == <<epc, todo, over, held, batch, current, clocks>>
machineVars == <<now, boot, faults>>
toldVars == <<collected, retold, kept, lost>>
historyVars == <<written, request, runs, outcome, toldVars, dropped>>
vars == <<spoolVars, agentVars, executorVars, machineVars, historyVars>>

Requests == [id : Ids \cup {None}, at : 0..MaxNow, boot : Nat]
Outcomes == {"none", "refused", "done", "failed"}

SpoolTypeOK ==
    /\ requests \in [Ids -> CopyOrNone]
    /\ temps \in [Ids -> CopyOrNone]
    /\ results \in [Ids -> CopyOrNone]
    /\ readable \in [Ids -> BOOLEAN]
    /\ shared \in BOOLEAN

AgentTypeOK ==
    /\ apc \in {"idle", "spool", "read", "unlink"}
    /\ aid \in Ids \cup {None}
    /\ atodo \in SUBSET Ids
    /\ ahold \in CopyOrNone

ExecutorTypeOK ==
    /\ epc \in {"idle", "take", "unlink", "carry", "plan", "run", "rename", "chown"}
    /\ todo \in SUBSET Ids
    /\ over \in SUBSET Ids
    /\ held \in CopyOrNone
    /\ batch \in [Ids -> CopyOrNone]
    /\ current \in CopyOrNone
    /\ clocks \in SUBSET (0..MaxNow)

MachineTypeOK ==
    /\ now \in 0..MaxNow
    /\ boot \in Nat
    /\ faults \in 0..MaxFaults

HistoryTypeOK ==
    /\ written \in CopyOrNone
    /\ request \in [Copies -> Requests]
    /\ runs \in [Copies -> Nat]
    /\ outcome \in [Copies -> Outcomes]
    /\ collected \in SUBSET Copies /\ retold \in SUBSET Copies
    /\ kept \in SUBSET Copies /\ lost \in SUBSET Copies
    /\ dropped \in SUBSET Copies

\* Every variable has its type; each file holds a copy the agent wrote, or none.
TypeOK ==
    SpoolTypeOK /\ AgentTypeOK /\ ExecutorTypeOK /\ MachineTypeOK /\ HistoryTypeOK

NoFiles == [id \in Ids |-> None]

Init ==
    /\ requests = NoFiles /\ temps = NoFiles /\ results = NoFiles
    /\ readable = [id \in Ids |-> FALSE] /\ shared = FALSE
    /\ apc = "idle" /\ aid = None /\ atodo = {} /\ ahold = None
    /\ epc = "idle" /\ todo = {} /\ over = {} /\ held = None
    /\ batch = NoFiles /\ current = None /\ clocks = {}
    /\ now = 0 /\ boot = 0 /\ faults = 0
    /\ written = 0
    /\ request = [c \in Copies |-> [id |-> None, at |-> 0, boot |-> 0]]
    /\ runs = [c \in Copies |-> 0]
    /\ outcome = [c \in Copies |-> "none"]
    /\ collected = {} /\ retold = {} /\ kept = {} /\ lost = {} /\ dropped = {}

Present(files) == {id \in Ids : files[id] /= None}

\* os.ReadDir returns its entries sorted by name.
Least(S) == CHOOSE id \in S : \A other \in S : id <= other

Fault == faults < MaxFaults /\ faults' = faults + 1

----------------------------------------------------------------------------
(* The agent: spool.Write and spool.TakeResults.                           *)

\* Write stamps the request and writes it under a temporary name.
BeginWrite(id) ==
    /\ apc = "idle" /\ written < MaxWrites
    /\ written' = written + 1
    /\ request' = [request EXCEPT ![written + 1] =
                     [id |-> id, at |-> now, boot |-> boot]]
    /\ temps' = [temps EXCEPT ![id] = written + 1]
    /\ apc' = "spool" /\ aid' = id
    /\ UNCHANGED <<requests, results, readable, shared, atodo, ahold, executorVars,
                   machineVars, runs, outcome, toldVars, dropped>>

\* The rename makes it a request, replacing an older one of the same id.
FinishWrite ==
    /\ apc = "spool"
    /\ requests' = [requests EXCEPT ![aid] = temps[aid]]
    /\ temps' = [temps EXCEPT ![aid] = None]
    /\ apc' = "idle" /\ aid' = None
    /\ UNCHANGED <<results, readable, shared, atodo, ahold, executorVars,
                   machineVars, historyVars>>

\* writeAtomic fails: a failed WriteFile leaves the temporary file behind, a
\* failed Chmod or Rename removes it.
FailWrite ==
    /\ apc = "spool" /\ Fault
    /\ \/ temps' = temps
       \/ temps' = [temps EXCEPT ![aid] = None]
    /\ apc' = "idle" /\ aid' = None
    /\ UNCHANGED <<requests, results, readable, shared, atodo, ahold, executorVars,
                   now, boot, historyVars>>

\* TakeResults lists the results directory, on every tick of the agent.
BeginCollect ==
    /\ apc = "idle"
    /\ atodo' = Present(results)
    /\ apc' = IF atodo' = {} THEN "idle" ELSE "read"
    /\ UNCHANGED <<spoolVars, aid, ahold, executorVars, machineVars, historyVars>>

\* Mutant: a failed open yields an empty Result instead of being skipped.
CollectReadZeroResult ==
    /\ apc = "read"
    /\ LET id == Least(atodo)
       IN  ahold' = IF readable[id] THEN results[id] ELSE -1
    /\ apc' = "unlink"
    /\ UNCHANGED <<spoolVars, aid, atodo, executorVars, machineVars, historyVars>>

\* The open fails on a file still owned by root:root with mode 0640.
CollectRead ==
    /\ apc = "read"
    /\ LET id == Least(atodo)
       IN  ahold' = IF readable[id] THEN results[id] ELSE None
    /\ apc' = "unlink"
    /\ UNCHANGED <<spoolVars, aid, atodo, executorVars, machineVars, historyVars>>

\* The result cannot be read or decoded.
CollectReadFails ==
    /\ apc = "read" /\ Fault
    /\ ahold' = None
    /\ apc' = "unlink"
    /\ UNCHANGED <<spoolVars, aid, atodo, executorVars, now, boot, historyVars>>

\* The outcome read, if any, is passed on.
Tell(told) ==
    /\ collected' = collected \cup told
    /\ retold' = retold \cup (told \cap collected)

\* Mutant: the result stays in the spool after it is read.
CollectUnlinkKeeping ==
    /\ apc = "unlink"
    /\ atodo' = atodo \ {Least(atodo)}
    /\ Tell({ahold} \ {None})
    /\ ahold' = None
    /\ apc' = IF atodo' = {} THEN "idle" ELSE "read"
    /\ UNCHANGED <<spoolVars, aid, executorVars, machineVars,
                   written, request, runs, outcome, kept, lost, dropped>>

\* Mutant: a result that could not be read is left for the next tick.
CollectUnlinkIfRead ==
    /\ apc = "unlink"
    /\ LET id == Least(atodo) IN
       /\ results' = IF ahold = None THEN results
                     ELSE [results EXCEPT ![id] = None]
       /\ atodo' = atodo \ {id}
    /\ Tell({ahold} \ {None})
    /\ ahold' = None
    /\ apc' = IF atodo' = {} THEN "idle" ELSE "read"
    /\ UNCHANGED <<requests, temps, readable, shared, aid, executorVars, machineVars,
                   written, request, runs, outcome, kept, lost, dropped>>

\* The removal is tried whether or not the read succeeded, and removes whatever
\* file has the name by now.  Its error is ignored: where the directory does not
\* let the agent remove, the outcome is returned all the same and the file stays.
CollectUnlink ==
    /\ apc = "unlink"
    /\ LET id == Least(atodo)
           told == {ahold} \ {None}
       IN
       /\ IF shared
          THEN /\ dropped' = dropped \cup ({results[id]} \ {ahold, None})
               /\ results' = [results EXCEPT ![id] = None]
               /\ readable' = [readable EXCEPT ![id] = FALSE]
               /\ UNCHANGED kept
          ELSE /\ kept' = kept \cup told
               /\ UNCHANGED <<dropped, results, readable>>
       /\ Tell(told)
       /\ atodo' = atodo \ {id}
    /\ ahold' = None
    /\ apc' = IF atodo' = {} THEN "idle" ELSE "read"
    /\ UNCHANGED <<requests, temps, shared, aid, executorVars, machineVars,
                   written, request, runs, outcome, lost>>

----------------------------------------------------------------------------
(* The executor: runExecutor, spool.TakeRequests, carryOut and             *)
(* spool.WriteResult, started by onserva-fix.path.                         *)

\* The position of <id>.json in the sorted listing; temporaries count too.
ListingIndex(id) ==
    Cardinality({j \in Present(requests) : j < id})
      + Cardinality({j \in Present(temps) : j < id})

\* PathExistsGlob is level-triggered: the unit is started whenever it is not
\* running and a request file exists.  The executor gives the directories the
\* modes of spool.Ensure (if that fails it returns, and nothing has changed) and
\* lists the requests.
Start ==
    /\ epc = "idle"
    /\ Present(requests) /= {}
    /\ todo' = Present(requests)
    /\ over' = {id \in Present(requests) : ListingIndex(id) >= MaxPending}
    /\ epc' = "take"
    /\ shared' = TRUE
    /\ UNCHANGED <<requests, temps, results, readable, agentVars, held, batch,
                   current, clocks, machineVars, historyVars>>

TakeRead ==
    /\ epc = "take"
    /\ held' = requests[Least(todo)]
    /\ epc' = "unlink"
    /\ UNCHANGED <<spoolVars, agentVars, todo, over, batch, current, clocks,
                   machineVars, historyVars>>

\* The request cannot be read or decoded.
TakeReadFails ==
    /\ epc = "take" /\ Fault
    /\ held' = None
    /\ epc' = "unlink"
    /\ UNCHANGED <<spoolVars, agentVars, todo, over, batch, current, clocks, now,
                   boot, historyVars>>

\* Mutant: the request is taken but its file is not removed.
TakeUnlinkKeeping ==
    /\ epc = "unlink"
    /\ batch' = [batch EXCEPT ![Least(todo)] = held]
    /\ todo' = todo \ {Least(todo)}
    /\ held' = None
    /\ epc' = IF todo' = {} THEN "carry" ELSE "take"
    /\ clocks' = IF todo' = {} THEN {now} ELSE {}
    /\ UNCHANGED <<spoolVars, agentVars, over, current, machineVars, historyVars>>

\* The name is removed whatever happens next; an entry beyond the cap is
\* discarded.  The agent may have renamed a newer copy over the one just read.
\* Root's removal of a name from a tmpfs is taken not to fail (its error is
\* ignored as well).
TakeUnlink ==
    /\ epc = "unlink"
    /\ LET id == Least(todo)
           taken == IF id \in over THEN None ELSE held
       IN
       /\ dropped' = dropped \cup ({held, requests[id]} \ {taken, None})
       /\ requests' = [requests EXCEPT ![id] = None]
       /\ batch' = [batch EXCEPT ![id] = taken]
       /\ todo' = todo \ {id}
    /\ held' = None
    /\ epc' = IF todo' = {} THEN "carry" ELSE "take"
    /\ clocks' = IF todo' = {} THEN {now} ELSE {}
    /\ UNCHANGED <<temps, results, readable, shared, agentVars, over, current,
                   machineVars, written, request, runs, outcome, toldVars>>

\* Mutant: a request from the future counts as fresh.
FreshIfNotOld(c) == now - request[c].at <= MaxAge

\* Request.Fresh: neither too old nor from the future.
Fresh(c) == now - request[c].at \in 0..MaxAge

UpNext(c) == Present(batch) /= {} /\ c = batch[Least(Present(batch))]

\* carryOut comes to a request that is stale by now and refuses it.
Lapse ==
    /\ epc = "carry"
    /\ \E c \in Copies :
         /\ UpNext(c)
         /\ ~Fresh(c)
         /\ current' = c
         /\ outcome' = [outcome EXCEPT ![c] = "refused"]
    /\ batch' = [batch EXCEPT ![Least(Present(batch))] = None]
    /\ epc' = "rename" /\ clocks' = {}
    /\ UNCHANGED <<spoolVars, agentVars, todo, over, held, machineVars,
                   written, request, runs, toldVars, dropped>>

\* Mutant: a request stays in the batch until its action has succeeded.
TakeUpKeeping ==
    /\ epc = "carry"
    /\ \E c \in Copies :
         /\ UpNext(c)
         /\ Fresh(c)
         /\ current' = c
    /\ epc' = "plan"
    /\ UNCHANGED <<spoolVars, agentVars, todo, over, held, batch, clocks,
                   machineVars, historyVars>>

\* The request is fresh when its turn has come, and fixes.Plan looks at it.  Plan
\* asks systemctl and docker, without a bound: time passes before it answers.
TakeUp ==
    /\ epc = "carry"
    /\ \E c \in Copies :
         /\ UpNext(c)
         /\ Fresh(c)
         /\ current' = c
    /\ batch' = [batch EXCEPT ![Least(Present(batch))] = None]
    /\ epc' = "plan"
    /\ UNCHANGED <<spoolVars, agentVars, todo, over, held, clocks, machineVars,
                   historyVars>>

\* Plan, or the purge's guard, says no.
Refuse ==
    /\ epc = "plan"
    /\ outcome' = [outcome EXCEPT ![current] = "refused"]
    /\ epc' = "rename" /\ clocks' = {}
    /\ UNCHANGED <<spoolVars, agentVars, todo, over, held, batch, current,
                   machineVars, written, request, runs, toldVars, dropped>>

\* The planned action is started.
Run ==
    /\ epc = "plan"
    /\ runs' = [runs EXCEPT ![current] = @ + 1]
    /\ epc' = "run" /\ clocks' = {}
    /\ UNCHANGED <<spoolVars, agentVars, todo, over, held, batch, current,
                   machineVars, written, request, outcome, toldVars, dropped>>

\* The action succeeds, fails, or is given up on after its timeout.
RunEnds ==
    /\ epc = "run"
    /\ \E verdict \in {"done", "failed"} :
         outcome' = [outcome EXCEPT ![current] = verdict]
    /\ epc' = "rename"
    /\ UNCHANGED <<spoolVars, agentVars, todo, over, held, batch, current, clocks,
                   machineVars, written, request, runs, toldVars, dropped>>

\* WriteResult: the rename makes the result visible, as root:root 0640 ...
RenameResult ==
    /\ epc = "rename"
    /\ LET id == request[current].id IN
       /\ results' = [results EXCEPT ![id] = current]
       /\ readable' = [readable EXCEPT ![id] = FALSE]
    /\ epc' = "chown"
    /\ UNCHANGED <<requests, temps, shared, agentVars, todo, over, held, batch,
                   current, clocks, machineVars, historyVars>>

\* Mutant: the executor returns after its first result.
ChownResultAndReturn ==
    /\ epc = "chown"
    /\ LET id == request[current].id IN
         readable' = [readable EXCEPT ![id] = (results[id] /= None)]
    /\ current' = None
    /\ epc' = "idle" /\ batch' = NoFiles
    /\ UNCHANGED <<requests, temps, results, shared, agentVars, todo, over, held,
                   clocks, machineVars, historyVars>>

\* ... and the chown hands the file, if it is still there, to the agent.
ChownResult ==
    /\ epc = "chown"
    /\ LET id == request[current].id IN
         readable' = [readable EXCEPT ![id] = (results[id] /= None)]
    /\ current' = None
    /\ epc' = "carry" /\ clocks' = {now}
    /\ UNCHANGED <<requests, temps, results, shared, agentVars, todo, over, held,
                   batch, machineVars, historyVars>>

\* Mutant: the executor returns when it cannot record an outcome.
FailResultReturns ==
    /\ epc \in {"rename", "chown"} /\ Fault
    /\ current' = None
    /\ epc' = "idle" /\ batch' = NoFiles /\ over' = {}
    /\ UNCHANGED <<spoolVars, agentVars, todo, held, clocks, now, boot,
                   historyVars>>

\* Either call fails: logged, and the next request is carried out.
FailResult ==
    /\ epc \in {"rename", "chown"} /\ Fault
    /\ current' = None
    /\ epc' = "carry" /\ clocks' = {now}
    /\ UNCHANGED <<spoolVars, agentVars, todo, over, held, batch, now, boot,
                   historyVars>>

\* The loop over the batch is done and the one-shot exits.
Exit ==
    /\ epc = "carry"
    /\ Present(batch) = {}
    /\ epc' = "idle" /\ over' = {} /\ clocks' = {}
    /\ UNCHANGED <<spoolVars, agentVars, todo, held, batch, current,
                   machineVars, historyVars>>

----------------------------------------------------------------------------
(* The machine.                                                            *)

\* What the executor had taken off the spool and not answered goes with it.
ExecutorGone ==
    /\ epc' = "idle" /\ todo' = {} /\ over' = {} /\ held' = None
    /\ batch' = NoFiles /\ current' = None /\ clocks' = {}
    /\ lost' = lost \cup ({held, current} \ {None})
                     \cup {batch[id] : id \in Present(batch)}

AgentGone == apc' = "idle" /\ aid' = None /\ atodo' = {} /\ ahold' = None

\* systemd kills the unit at TimeoutStartSec, or the action takes it down.
KillExecutor ==
    /\ epc /= "idle" /\ Fault
    /\ ExecutorGone
    /\ UNCHANGED <<spoolVars, agentVars, now, boot, written, request, runs,
                   outcome, collected, retold, kept, dropped>>

\* The agent dies in the middle of a call; Restart=always brings it back.
CrashAgent ==
    /\ apc /= "idle" /\ Fault
    /\ AgentGone
    /\ UNCHANGED <<spoolVars, executorVars, now, boot, historyVars>>

\* /run is a tmpfs: a reboot empties both directories, and systemd-tmpfiles makes
\* them again with the modes of onserva-tmpfiles.conf.
Reboot ==
    /\ Fault
    /\ boot' = boot + 1
    /\ requests' = NoFiles /\ temps' = NoFiles /\ results' = NoFiles
    /\ readable' = [id \in Ids |-> FALSE] /\ shared' = FALSE
    /\ ExecutorGone /\ AgentGone
    /\ UNCHANGED <<now, written, request, runs, outcome, collected, retold, kept,
                   dropped>>

\* systemd-tmpfiles is run again, as by an upgrade: results/ is 0750 once more,
\* until the executor's next start.
TmpfilesRuns ==
    /\ shared /\ Fault
    /\ shared' = FALSE
    /\ UNCHANGED <<requests, temps, results, readable, agentVars, executorVars,
                   now, boot, historyVars>>

\* While the turn of a request has come, the readings of the clock are noted.
ClockMoves ==
    /\ clocks' = IF epc = "carry" THEN clocks \cup {now'} ELSE clocks
    /\ UNCHANGED <<spoolVars, agentVars, epc, todo, over, held, batch, current,
                   boot, historyVars>>

Tick ==
    /\ now < MaxNow
    /\ now' = now + 1
    /\ ClockMoves
    /\ UNCHANGED faults

\* The wall clock is stepped back.
ClockBack ==
    /\ now > 0 /\ Fault
    /\ now' = now - 1
    /\ ClockMoves

----------------------------------------------------------------------------
AgentStep == FinishWrite \/ BeginCollect \/ CollectRead \/ CollectUnlink

ExecutorStep ==
    \/ Start \/ TakeRead \/ TakeUnlink
    \/ Lapse \/ TakeUp \/ Refuse \/ Run \/ RunEnds
    \/ RenameResult \/ ChownResult \/ Exit

MachineStep ==
    \/ FailWrite \/ CollectReadFails \/ TakeReadFails \/ FailResult
    \/ KillExecutor \/ CrashAgent \/ Reboot \/ TmpfilesRuns
    \/ Tick \/ ClockBack

Next ==
    \/ \E id \in Ids : BeginWrite(id)
    \/ AgentStep
    \/ ExecutorStep
    \/ MachineStep

\* The agent's loop never blocks on the spool, systemd starts a unit whose path
\* condition holds, and an action runs under a timeout.  What Plan asks does not:
\* if it hangs, systemd ends the unit (KillExecutor).
Fairness == WF_vars(AgentStep) /\ WF_vars(ExecutorStep)

Spec == Init /\ [][Next]_vars

FairSpec == Spec /\ Fairness

----------------------------------------------------------------------------
(* Safety.                                                                 *)

\* An authorised action is started at most once per request written, whatever
\* is killed, crashes or reboots in between (TakeRequests, spool.go:162-168).
AtMostOnce == \A c \in Copies : runs[c] <= 1

\* Once an action has started, no file and no list of taken requests still
\* holds its request: a command that takes the machine down cannot be replayed
\* (spool.go:24-25).
NotReplayable ==
    \A c \in Copies : runs[c] > 0 =>
        \A id \in Ids : c \notin {requests[id], batch[id], temps[id]}

\* What the agent collects is true: "done" or "failed" only of an action that was
\* started, "refused" only of one that never was and never will be.  And it
\* collects an outcome once, but for one it was not allowed to remove when it
\* collected it before: os.Remove's error is ignored (spool.go:274), and results/
\* is 0750, "NOT write", in onserva-tmpfiles.conf:11-16 until the executor starts
\* and makes it 0770 (spool.go:102-104).  Only that repeats an outcome, no kill,
\* crash or race of the two processes (spool.go:252-257).
HonestOutcomes ==
    /\ retold \subseteq kept
    /\ \A c \in collected :
         /\ outcome[c] \in {"done", "failed"} <=> runs[c] > 0
         /\ outcome[c] /= "none"

\* An action starts only in the boot its request was written in, and only if the
\* request was at most MaxAge old, and not from the future, by the clock after the
\* request before it was done with, however long that took (execute.go:83,
\* spool.go:10-12).  What Plan's commands take after that is not counted: they run
\* without a bound (fixes.go:522, 531) and the age is not looked at again.
TimelyRun ==
    [][\A c \in Copies : runs'[c] > runs[c] =>
         /\ request[c].boot = boot
         /\ \E t \in clocks : t - request[c].at \in 0..MaxAge]_vars

\* Where a written request can be while it is still on its way to an answer.
InFlight(c) ==
    \/ c \in {held, current, ahold}
    \/ \E id \in Ids : c \in {requests[id], temps[id], batch[id], results[id]}

\* Another copy of the same authorisation: the one it replaced in the spool, or
\* the one that replaced it.
Reissued(c) ==
    \E d \in Copies : d /= c /\ d <= written /\ request[d].id = request[c].id

\* As long as nothing fails, a written request is on its way, answered, written
\* twice under one id, or was dropped at one of the two places the code drops
\* files: over the cap, or removed as a result the agent could not read.
NothingVanishes ==
    faults = 0 =>
      \A c \in 1..written :
         InFlight(c) \/ c \in collected \/ Reissued(c) \/ c \in dropped

\* What the comments say of an outcome: "Every refusal is reported rather than
\* swallowed" (execute.go:77).  With no fault at all, an outcome the executor
\* has finished recording is in the spool, with the agent, or collected.
EveryOutcomeReported ==
    faults = 0 =>
      \A c \in Copies : outcome[c] /= "none" =>
         \/ InFlight(c)
         \/ c \in collected
         \/ Reissued(c)

----------------------------------------------------------------------------
(* Liveness, under FairSpec.                                               *)

\* Neither directory keeps a file: the path unit is level-triggered, so a request
\* that arrives while the executor runs, or that a kill leaves behind, starts it
\* again (onserva-fix.path), and a result is unlinked also when it cannot be read,
\* or it would be "re-report forever" (spool.go:103-105), as long as the agent may
\* write the directory.
SpoolDrains ==
    \A id \in Ids :
      /\ requests[id] /= None ~> requests[id] = None
      /\ results[id] /= None ~> (results[id] = None \/ ~shared)

\* A request the executor took gets an outcome, whatever became of the ones
\* before it and of the recording of theirs, unless the executor was ended while
\* it had it (runExecutor, execute.go:66-71).
EveryBatchAnswered ==
    \A c \in Copies :
        (\E id \in Ids : batch[id] = c) ~> (outcome[c] /= "none" \/ c \in lost)
============================================================================
