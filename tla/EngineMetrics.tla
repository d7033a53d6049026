---------------------------- MODULE EngineMetrics ----------------------------
(***************************************************************************)
(* Database monitoring: the set of engines the executor keeps in the       *)
(* settings file, the sampler that adopts it once per tick, and the rates  *)
(* it makes of counters that engines lose when they restart and processes  *)
(* take with them when they exit.                                          *)
(*                                                                         *)
(* A unit of an engine's work costs one jiffy and counts as one operation. *)
(* The machine has one processor: its total of jiffies is its uptime.      *)
(* Rates are kept as the two differences the code divides; the operation   *)
(* count stands for the three counters of a visit, which reset together.   *)
(*                                                                         *)
(* A sample takes time: its stamp is taken first, the processes and the    *)
(* total are read some time later, and the sockets one after the other     *)
(* after that, while the machine goes on.                                  *)
(***************************************************************************)
EXTENDS Integers, FiniteSets

CONSTANTS
    Engines,       \* ids in the compiled-in table
    WordSize,      \* 2^64: counters are uint64
    MaxLag,        \* the longest from a sample's stamp to its last reading
    MaxNow,        \* bound: the clock
    MaxSwitches,   \* bound: engines switched on or off
    MaxEvents      \* bound: engines stopping, processes exiting, failed reads

ASSUME EngineMetricsAssumption ==
    /\ WordSize \in Nat \ {0} /\ MaxLag \in Nat
    /\ MaxNow \in Nat \ {0} /\ MaxSwitches \in Nat /\ MaxEvents \in Nat

VARIABLES
    setting,       \* the engines the settings file names
    enabled,       \* Collector.enabled
    pc,
    prevTotal,     \* Collector.prevTotalJiffies
    prevProc,      \* Collector.prevProcJiffies, for the engines in it
    prevDeep,      \* Collector.prevDeep, likewise
    unreachable,   \* Collector.unreachable
    stamp,         \* now of collect.Sample
    procs,         \* scanProcesses' counts, for the engines it found
    total,         \* totalJiffies of Collector.Sample
    todo,          \* enabled engines not yet visited by this sample
    readings,      \* this tick's Metrics
    \* the machine
    now,           \* time, and the machine's jiffies
    socket,        \* each engine's socket: absent, refusing us or answering
    running,       \* engines with processes
    spent,         \* work each engine has ever done
    base,          \* the part of it done before it was last started
    gone,          \* the part since then done by processes that have exited
    \* history
    told,          \* engines the journal last called unreadable
    repeated,      \* the journal was told the same thing twice in a row
    since,         \* when each engine was last adopted
    asked,         \* engines the owner last asked for and was told are monitored
    pending,       \* engines switched, or missed by a failed read, since the last adoption
    damaged,       \* engines a change that could not read the settings got wrong
    switches, events

keptVars == <<prevTotal, prevProc, prevDeep, unreachable>>
sampleVars == <<stamp, procs, total, todo>>
samplerVars == <<enabled, keptVars, sampleVars>>
machineVars == <<now, socket, running, spent, base, gone>>
ownerVars == <<asked, pending, damaged>>
historyVars == <<told, repeated, since, ownerVars, switches, events>>
vars == <<setting, pc, samplerVars, readings, machineVars, historyVars>>

None == [seen |-> FALSE]
Rate(delta, over, truth) == [seen |-> TRUE, delta |-> delta, over |-> over, truth |-> truth]

\* What /proc and the engine itself would say now.
Jiffies(e) == spent[e] - base[e] - gone[e]
Operations(e) == spent[e] - base[e]

TypeOK ==
    /\ setting \in SUBSET Engines /\ enabled \in SUBSET Engines
    /\ pc \in {"idle", "scan", "visit", "apply"}
    /\ prevTotal \in 0..MaxNow /\ total \in 0..MaxNow /\ stamp \in 0..MaxNow
    /\ todo \subseteq enabled /\ DOMAIN procs \subseteq enabled
    /\ DOMAIN prevProc \subseteq Engines /\ DOMAIN prevDeep \subseteq Engines
    /\ \A e \in DOMAIN prevProc : prevProc[e].jiffies \in 0..MaxNow
    /\ \A e \in DOMAIN prevDeep : prevDeep[e].ops \in 0..MaxNow
    /\ unreachable \in SUBSET Engines
    /\ DOMAIN readings \subseteq enabled
    /\ now \in 0..MaxNow
    /\ socket \in [Engines -> {"absent", "refusing", "answering"}]
    /\ running \in SUBSET Engines
    /\ \A e \in Engines : Jiffies(e) >= 0
    /\ told \in SUBSET Engines /\ repeated \in BOOLEAN
    /\ asked \in SUBSET Engines /\ pending \in SUBSET Engines /\ damaged \in SUBSET Engines
    /\ switches \in 0..MaxSwitches /\ events \in 0..MaxEvents

Init ==
    /\ setting \in SUBSET Engines /\ enabled = setting
    /\ pc = "idle"
    /\ prevTotal = 0 /\ prevProc = <<>> /\ prevDeep = <<>> /\ unreachable = {}
    /\ stamp = 0 /\ procs = <<>> /\ total = 0 /\ todo = {} /\ readings = <<>>
    /\ now = 1
    /\ socket \in [Engines -> {"refusing", "answering"}]
    /\ running = Engines
    /\ spent = [e \in Engines |-> 0] /\ base = spent /\ gone = spent
    /\ told = {} /\ repeated = FALSE /\ since = [e \in Engines |-> 0]
    /\ asked = setting /\ pending = {} /\ damaged = {}
    /\ switches = 0 /\ events = 0

----------------------------------------------------------------------------
(* The machine *)

Event == events < MaxEvents /\ events' = events + 1

Sampling == pc \in {"scan", "visit"}

\* Time passes and at most one engine works.  A sample takes MaxLag at most: its
\* reads of /proc do not wait, and a visit is bounded (StatsSession).
Elapse(busy) ==
    /\ now < MaxNow /\ (Sampling => now < stamp + MaxLag)
    /\ busy \subseteq running /\ Cardinality(busy) <= 1
    /\ now' = now + 1
    /\ spent' = [e \in Engines |-> spent[e] + IF e \in busy THEN 1 ELSE 0]
    /\ UNCHANGED <<setting, pc, samplerVars, readings, socket, running, base, gone,
                   historyVars>>

StopEngine(e) ==
    /\ Event /\ e \in running
    /\ running' = running \ {e}
    /\ socket' = [socket EXCEPT ![e] = "absent"]
    /\ base' = [base EXCEPT ![e] = spent[e]] /\ gone' = [gone EXCEPT ![e] = 0]
    /\ UNCHANGED <<setting, pc, samplerVars, readings, now, spent, told, repeated,
                   since, ownerVars, switches>>

\* Started again, with its counters at zero and some kind of socket.
StartEngine(e) ==
    /\ e \notin running
    /\ running' = running \cup {e}
    /\ \E s \in {"absent", "refusing", "answering"} : socket' = [socket EXCEPT ![e] = s]
    /\ UNCHANGED <<setting, pc, samplerVars, readings, now, spent, base, gone, historyVars>>

\* One of its processes exits and takes its jiffies along.
WorkerExits(e) ==
    /\ Event /\ e \in running /\ Jiffies(e) > 0
    /\ gone' = [gone EXCEPT ![e] = @ + 1]
    /\ UNCHANGED <<setting, pc, samplerVars, readings, now, socket, running, spent,
                   base, told, repeated, since, ownerVars, switches>>

\* The monitoring role is granted or revoked.
GrantChanges(e) ==
    /\ Event /\ socket[e] /= "absent"
    /\ socket' = [socket EXCEPT ![e] =
                    IF @ = "refusing" THEN "answering" ELSE "refusing"]
    /\ UNCHANGED <<setting, pc, samplerVars, readings, now, running, spent, base, gone,
                   told, repeated, since, ownerVars, switches>>

----------------------------------------------------------------------------
(* The executor: dbstat.Enable and dbstat.Disable, which rewrite the set. *)

Switch == switches < MaxSwitches /\ switches' = switches + 1

\* Mutant: the file names one choice, as that of the request metrics does.
EnableEngineAlone(e, set) ==
    /\ Switch
    /\ setting' = {e}
    /\ asked' = asked \cup {e}
    /\ pending' = pending \cup {e}
    /\ UNCHANGED <<pc, samplerVars, readings, machineVars, told, repeated, since>>

\* set is what enabledSet made of the file.
EnableEngine(e, set) ==
    /\ Switch
    /\ setting' = set \cup {e}
    /\ asked' = asked \cup {e}
    /\ pending' = pending \cup {e}
    /\ UNCHANGED <<pc, samplerVars, readings, machineVars, told, repeated, since>>

\* Of an engine that is not in the set nothing is written.
DisableEngine(e, set) ==
    /\ Switch
    /\ setting' = IF e \in set THEN set \ {e} ELSE setting
    /\ asked' = asked \ {e}
    /\ pending' = pending \cup {e}
    /\ UNCHANGED <<pc, samplerVars, readings, machineVars, told, repeated, since>>

Change(e) ==
    /\ EnableEngine(e, setting) \/ DisableEngine(e, setting)
    /\ damaged' = damaged \ {e}
    /\ UNCHANGED events

\* The file cannot be read, and counts as empty: the others are dropped when one
\* is enabled, and one that is disabled stays although the owner is told it is off.
ChangeBlind(e) ==
    /\ Event
    /\ \/ EnableEngine(e, {}) /\ damaged' = (damaged \cup asked) \ {e}
       \/ DisableEngine(e, {}) /\ damaged' = damaged \cup {e}

----------------------------------------------------------------------------
(* The sampler *)

\* The engine's share of the processor since the last visit, if there was one
\* and both counters moved forwards.
CpuOf(e) ==
    IF /\ e \in DOMAIN procs /\ e \in DOMAIN prevProc
       /\ prevTotal > 0 /\ total > prevTotal
       /\ procs[e].jiffies >= prevProc[e].jiffies
    THEN Rate((procs[e].jiffies - prevProc[e].jiffies) % WordSize, total - prevTotal,
              [work |-> procs[e].spent - prevProc[e].spent,
               from |-> prevProc[e].at, to |-> procs[e].at])
    ELSE None

\* Mutant: counters that went backwards are subtracted all the same.
OpsOfUnguarded(e, door) ==
    IF door = "answering" /\ e \in DOMAIN prevDeep /\ stamp > prevDeep[e].at
    THEN Rate((Operations(e) - prevDeep[e].ops) % WordSize, stamp - prevDeep[e].at,
              [work |-> spent[e] - prevDeep[e].spent,
               from |-> prevDeep[e].read, to |-> now])
    ELSE None

\* Operations per second since the last visit that was answered, by the stamps of
\* the two samples.
OpsOf(e, door) ==
    IF /\ door = "answering" /\ e \in DOMAIN prevDeep
       /\ stamp > prevDeep[e].at /\ Operations(e) >= prevDeep[e].ops
    THEN Rate((Operations(e) - prevDeep[e].ops) % WordSize, stamp - prevDeep[e].at,
              [work |-> spent[e] - prevDeep[e].spent,
               from |-> prevDeep[e].read, to |-> now])
    ELSE None

\* Mutant: an engine without processes keeps its last count.
KeepProcStale(e) ==
    prevProc' = [x \in DOMAIN prevProc \cup ({e} \cap DOMAIN procs) |->
                   IF x = e /\ e \in DOMAIN procs THEN procs[e] ELSE prevProc[x]]

\* The engine's count is renewed, or deleted if it has no processes.
KeepProc(e) ==
    prevProc' = [x \in (DOMAIN prevProc \ {e}) \cup ({e} \cap DOMAIN procs) |->
                   IF x = e THEN procs[e] ELSE prevProc[x]]

\* Mutant: the difference to the last visit is kept instead of the counter.
KeepDeepDelta(e, door) ==
    prevDeep' = [x \in CASE door = "answering" -> DOMAIN prevDeep \cup {e}
                         [] door = "refusing"  -> DOMAIN prevDeep \ {e}
                         [] door = "absent"    -> DOMAIN prevDeep |->
                   IF x = e /\ door = "answering"
                   THEN [ops |-> IF e \in DOMAIN prevDeep
                                 THEN Operations(e) - prevDeep[e].ops ELSE Operations(e),
                         spent |-> spent[e], at |-> stamp, read |-> now]
                   ELSE prevDeep[x]]

\* A socket that answers renews the counters, one that does not deletes them,
\* and without a socket they stay as they are.
KeepDeep(e, door) ==
    prevDeep' = [x \in CASE door = "answering" -> DOMAIN prevDeep \cup {e}
                         [] door = "refusing"  -> DOMAIN prevDeep \ {e}
                         [] door = "absent"    -> DOMAIN prevDeep |->
                   IF x = e /\ door = "answering"
                   THEN [ops |-> Operations(e), spent |-> spent[e], at |-> stamp,
                         read |-> now]
                   ELSE prevDeep[x]]

\* Mutant: an engine that answers again is still noted as unreachable.
NotesSticky(e, door) ==
    LET failing == {x \in {e} : door = "refusing"} \ unreachable
        back == {x \in {e} : door = "answering"} \cap unreachable
    IN
    /\ unreachable' = unreachable \cup failing
    /\ repeated' = (repeated \/ failing \cap told /= {} \/ back \ told /= {})
    /\ told' = (told \cup failing) \ back

\* One line in the journal when an engine stops answering, one when it is back.
Notes(e, door) ==
    LET failing == {x \in {e} : door = "refusing"} \ unreachable
        back == {x \in {e} : door = "answering"} \cap unreachable
    IN
    /\ unreachable' = (unreachable \cup failing) \ back
    /\ repeated' = (repeated \/ failing \cap told /= {} \/ back \ told /= {})
    /\ told' = (told \cup failing) \ back

\* Sample with nothing enabled returns before it looks at anything.
SampleNothing ==
    /\ pc = "idle" /\ enabled = {}
    /\ readings' = <<>>
    /\ pc' = "apply"
    /\ UNCHANGED <<setting, samplerVars, machineVars, historyVars>>

\* collect.Sample takes the time first, and then reads the machine's own files.
BeginSample ==
    /\ pc = "idle" /\ enabled /= {}
    /\ stamp' = now
    /\ pc' = "scan"
    /\ UNCHANGED <<setting, enabled, keptVars, procs, total, todo, readings,
                   machineVars, historyVars>>

\* The walk of /proc and the machine's count of jiffies, 0 when it cannot be read.
ScanProcesses(jiffies) ==
    /\ pc = "scan"
    /\ procs' = [e \in enabled \cap running |->
                   [jiffies |-> Jiffies(e), spent |-> spent[e], at |-> now]]
    /\ total' = jiffies
    /\ todo' = enabled
    /\ pc' = "visit"
    /\ UNCHANGED <<setting, enabled, keptVars, stamp, readings, machineVars, told,
                   repeated, since, ownerVars, switches>>

Scan == ScanProcesses(now) /\ UNCHANGED events
ScanBlind == Event /\ ScanProcesses(0)

\* One engine of the loop, at the moment its counters are read; door is what its
\* socket comes to.
Visit(e, door) ==
    /\ pc = "visit" /\ e \in todo
    /\ readings' = [x \in DOMAIN readings \cup {e} |->
                      IF x = e THEN [cpu |-> CpuOf(e), ops |-> OpsOf(e, door),
                                     door |-> door, adopted |-> since[e]]
                      ELSE readings[x]]
    /\ KeepProc(e) /\ KeepDeep(e, door) /\ Notes(e, door)
    /\ todo' = todo \ {e}
    /\ UNCHANGED <<setting, pc, enabled, prevTotal, stamp, procs, total, machineVars,
                   since, ownerVars, switches>>

VisitEngine(e) == Visit(e, socket[e]) /\ UNCHANGED events

\* It lets us in, but hangs, hangs up or is too slow before all is read.
VisitFails(e) == Event /\ socket[e] = "answering" /\ Visit(e, "refusing")

\* The total is kept last, and the sample's locals are gone.
EndSample ==
    /\ pc = "visit" /\ todo = {}
    /\ prevTotal' = total
    /\ stamp' = 0 /\ procs' = <<>> /\ total' = 0
    /\ pc' = "apply"
    /\ UNCHANGED <<setting, enabled, prevProc, prevDeep, unreachable, todo, readings,
                   machineVars, historyVars>>

\* The set is replaced; nothing is forgotten of an engine that leaves it.
SetEnabled(ids) == enabled' = ids

\* applyDBMetricsSetting, later in the tick.
Adopt(ids) ==
    /\ pc = "apply"
    /\ SetEnabled(ids)
    /\ since' = [e \in Engines |-> IF e \in ids \ enabled THEN now ELSE since[e]]
    /\ readings' = <<>>
    /\ pc' = "idle"
    /\ UNCHANGED <<setting, keptVars, sampleVars, machineVars, told, repeated, asked,
                   damaged, switches>>

ApplySetting == Adopt(setting) /\ pending' = {} /\ UNCHANGED events

\* The settings file cannot be read: for a tick nothing is monitored.
ApplySettingFails == Event /\ Adopt({}) /\ pending' = Engines

TickStep ==
    \/ SampleNothing \/ BeginSample \/ Scan \/ \E e \in Engines : VisitEngine(e)
    \/ EndSample \/ ApplySetting

Next ==
    \/ \E busy \in SUBSET Engines : Elapse(busy)
    \/ \E e \in Engines : StopEngine(e) \/ StartEngine(e) \/ WorkerExits(e) \/ GrantChanges(e)
    \/ \E e \in Engines : Change(e) \/ ChangeBlind(e)
    \/ TickStep
    \/ ScanBlind \/ ApplySettingFails \/ \E e \in Engines : VisitFails(e)

Spec == Init /\ [][Next]_vars

----------------------------------------------------------------------------
Rates(e) == {r \in {readings[e].cpu, readings[e].ops} : r.seen}

\* No rate claims more work than the engine did in the time between the two
\* visits, whatever restarted or exited in between: a counter that went backwards
\* is never subtracted (collect.go:114-118, 208-219).
NeverMoreThanTheWork ==
    \A e \in DOMAIN readings : \A r \in Rates(e) : r.delta <= r.truth.work

\* The work a rate is made of and the time it is divided by span one window, also
\* after an engine stopped, a total could not be read or a socket refused.  For
\* operations up to MaxLag: they are divided by the time between the stamps of two
\* samples, but read later (collect.go:225, dbstat/collect.go:157-177).  The share
\* of the processor is excepted where the earlier count is from before the engine
\* was last switched on: it is made although "the first sample after enabling [...]
\* withholds the rates" (dbstat/collect.go:45-47), over the others' window.
OneWindow ==
    \A e \in DOMAIN readings :
      LET cpu == readings[e].cpu
          ops == readings[e].ops
      IN
      /\ ops.seen => (ops.truth.to - ops.truth.from) - ops.over \in -MaxLag..MaxLag
      /\ (cpu.seen /\ cpu.truth.from >= readings[e].adopted)
           => cpu.over = cpu.truth.to - cpu.truth.from

\* A tick reads exactly the engines the owner asked for, whatever was switched in
\* between, except one switched since the last adoption (or missed by it) and one
\* a change got wrong that could not read the settings: the answer to a switch is
\* that "the state already holds" (state.go:60-62, 117-119).
ReadsWhatWasAsked ==
    pc = "apply" =>
      \A e \in Engines \ (pending \cup damaged) : e \in DOMAIN readings <=> e \in asked

\* The journal's last word on an engine is what its socket did at the last visit,
\* and is never repeated: "one line per engine per state change" (collect.go:55).
JournalIsCurrent ==
    /\ ~repeated
    /\ \A e \in DOMAIN readings :
         /\ readings[e].door = "refusing" => e \in told
         /\ readings[e].door = "answering" => e \notin told
=============================================================================
