---------------------------- MODULE MachineRates ----------------------------
(***************************************************************************)
(* The machine's own reading: processor, network and disk rates made of    *)
(* the kernel's running totals, and each container's share of the          *)
(* processor made of those of its processes.  Interfaces and block devices *)
(* come and go with their counters, processes exit with theirs, the        *)
(* kernel's iowait may go backwards, and every file read may fail.         *)
(*                                                                         *)
(* The machine has one processor and time is counted in its jiffies.  One  *)
(* counter stands for each pair (in and out, reads and writes) and for the *)
(* errors and drops, which are handled alike; a rate is kept as the two    *)
(* numbers the code divides.  A process holds one unit of memory.          *)
(***************************************************************************)
EXTENDS Integers, Sequences, FiniteSets, SequencesExt, FiniteSetsExt

CONSTANTS
    Links,         \* network interfaces that are counted
    Disks,         \* block devices that are counted
    Procs,         \* processes in containers
    Home,          \* the container of each process, an ordered id
    MaxReported,   \* maxReported
    WordSize,      \* 2^64: counters are uint64
    MaxNow,        \* bound: the clock
    MaxEvents,     \* bound: resets, exits and starts
    MaxFaults      \* bound: failed reads and restarts of the agent

Boxes == {Home[p] : p \in Procs}

ASSUME MachineRatesAssumption ==
    /\ Home \in [Procs -> Nat] /\ IsFiniteSet(Procs)
    /\ IsFiniteSet(Links) /\ IsFiniteSet(Disks)
    /\ {"idle", "iowait"} \cap Procs = {}
    /\ MaxReported \in Nat \ {0} /\ MaxNow \in Nat \ {0} /\ MaxEvents \in Nat
    /\ MaxFaults \in Nat
    /\ WordSize \in Nat /\ MaxNow < WordSize

VARIABLES
    prev,          \* Collector.prevCPU, prevNet, prevDisk and prevTime
    prevBox,       \* containers.Collector.prevTotalJiffies and prevJiffies
    report,        \* the last sample, and what it should have said
    \* the machine
    now, busy, iowait, idle,
    link,          \* the counter of each interface there is
    disk,          \* the counter of each block device there is
    proc,          \* jiffies of each process there is
    \* history
    net, ops,      \* traffic and disk operations there ever were
    boxWork,       \* jiffies ever spent in each container
    mark,          \* the same at the last sample,
    boxMark,       \*   and at the last walk of /proc
    diskMark,      \*   at the last read of the disk counters: ops, and went back since
    resets,        \* totals that went back since the last sample
    events, faults

kept == <<prev, prevBox>>
machineVars == <<now, busy, iowait, idle, link, disk, proc>>
truthVars == <<net, ops, boxWork>>
markVars == <<mark, boxMark, diskMark, resets>>
vars == <<kept, report, machineVars, truthVars, markVars, events, faults>>

Sum(f) == MapThenSumSet(LAMBDA x : f[x], DOMAIN f)

\* Mutant: iowait is added to the total a second time, as part of idle.
ReadCPUTimesTwice == [busy |-> busy, iowait |-> iowait, total |-> busy + 2 * iowait + idle]

\* What the kernel says: /proc/stat, /proc/net/dev summed over the interfaces and
\* /proc/diskstats over the devices there are, /proc/stat once more for the
\* containers, where a failure counts as 0, and /proc/<pid>/stat summed over the
\* processes of a container.
ReadCPUTimes == [busy |-> busy, iowait |-> iowait, total |-> busy + iowait + idle]
ReadNetCounters == Sum(link)
ReadDiskOps == Sum(disk)
ReadTotalJiffies(reads) == IF reads THEN ReadCPUTimes.total ELSE 0
Living(c) == {p \in DOMAIN proc : Home[p] = c}
BoxJiffies(c) == MapThenSumSet(LAMBDA p : proc[p], Living(c))
Present == {c \in Boxes : Living(c) /= {}}

TypeOK ==
    /\ prev.cpu.total \in 0..prev.time /\ prev.time \in 0..now
    /\ prev.net \in 0..net /\ prev.disk \in 0..ops
    /\ prevBox.total \in 0..now /\ DOMAIN prevBox.jiffies \subseteq Boxes
    /\ now \in 1..MaxNow
    /\ busy \in Nat /\ iowait \in Nat /\ idle \in Nat /\ busy + iowait + idle <= now
    /\ DOMAIN link \subseteq Links /\ DOMAIN disk \subseteq Disks
    /\ DOMAIN proc \subseteq Procs
    /\ ReadNetCounters <= net /\ ReadDiskOps <= ops
    /\ \A c \in Boxes : BoxJiffies(c) <= boxWork[c]
    /\ resets \subseteq {"net", "iowait"} /\ diskMark.back \in BOOLEAN
    /\ events \in 0..MaxEvents /\ faults \in 0..MaxFaults

Fault == faults < MaxFaults /\ faults' = faults + 1
Event == events < MaxEvents /\ events' = events + 1

----------------------------------------------------------------------------
(* The machine *)

\* One jiffy passes: a process works, or the processor waits or idles, while one
\* interface or one device, or none, gets something done.
Elapse(on, by) ==
    /\ now < MaxNow /\ now' = now + 1
    /\ busy' = busy + IF on \in DOMAIN proc THEN 1 ELSE 0
    /\ iowait' = iowait + IF on = "iowait" THEN 1 ELSE 0
    /\ idle' = idle + IF on = "idle" THEN 1 ELSE 0
    /\ proc' = [p \in DOMAIN proc |-> proc[p] + IF p = on THEN 1 ELSE 0]
    /\ boxWork' = [c \in Boxes |->
                     boxWork[c] + IF on \in DOMAIN proc /\ Home[on] = c THEN 1 ELSE 0]
    /\ link' = [l \in DOMAIN link |-> link[l] + IF l = by THEN 1 ELSE 0]
    /\ net' = net + IF by \in DOMAIN link THEN 1 ELSE 0
    /\ disk' = [d \in DOMAIN disk |-> disk[d] + IF d = by THEN 1 ELSE 0]
    /\ ops' = ops + IF by \in DOMAIN disk THEN 1 ELSE 0
    /\ UNCHANGED <<kept, report, markVars, events, faults>>

LinkGoes(l) ==
    /\ Event /\ l \in DOMAIN link
    /\ link' = [k \in DOMAIN link \ {l} |-> link[k]]
    /\ resets' = resets \cup {"net"}
    /\ UNCHANGED <<kept, report, now, busy, iowait, idle, disk, proc, truthVars, mark,
                   boxMark, diskMark, faults>>

\* A new interface counts from zero.
LinkComes(l) ==
    /\ Event /\ l \notin DOMAIN link
    /\ link' = [k \in DOMAIN link \cup {l} |-> IF k = l THEN 0 ELSE link[k]]
    /\ UNCHANGED <<kept, report, now, busy, iowait, idle, disk, proc, truthVars, markVars,
                   faults>>

\* A detached device takes its count away; an attached one counts from zero.
DiskGoes(d) ==
    /\ Event /\ d \in DOMAIN disk
    /\ disk' = [e \in DOMAIN disk \ {d} |-> disk[e]]
    /\ diskMark' = [diskMark EXCEPT !.back = TRUE]
    /\ UNCHANGED <<kept, report, now, busy, iowait, idle, link, proc, truthVars, mark,
                   boxMark, resets, faults>>

DiskComes(d) ==
    /\ Event /\ d \notin DOMAIN disk
    /\ disk' = [e \in DOMAIN disk \cup {d} |-> IF e = d THEN 0 ELSE disk[e]]
    /\ UNCHANGED <<kept, report, now, busy, iowait, idle, link, proc, truthVars, markVars,
                   faults>>

ProcExits(p) ==
    /\ Event /\ p \in DOMAIN proc
    /\ proc' = [q \in DOMAIN proc \ {p} |-> proc[q]]
    /\ boxMark' = [boxMark EXCEPT !.steady = @ \ {Home[p]}]
    /\ UNCHANGED <<kept, report, now, busy, iowait, idle, link, disk, truthVars, mark,
                   diskMark, resets, faults>>

ProcStarts(p) ==
    /\ Event /\ p \notin DOMAIN proc
    /\ proc' = [q \in DOMAIN proc \cup {p} |-> IF q = p THEN 0 ELSE proc[q]]
    /\ UNCHANGED <<kept, report, now, busy, iowait, idle, link, disk, truthVars, markVars,
                   faults>>

\* The kernel's iowait is an estimate and is known to decrease.
IowaitBack ==
    /\ Event /\ iowait > 0
    /\ iowait' = iowait - 1
    /\ resets' = resets \cup {"iowait"}
    /\ boxMark' = [boxMark EXCEPT !.steady = {}]
    /\ UNCHANGED <<kept, report, now, busy, idle, link, disk, proc, truthVars, mark,
                   diskMark, faults>>

----------------------------------------------------------------------------
(* Rates *)

Minus(a, b) == (a - b) % WordSize

\* ratePerSecond and throughputKbps: a counter that went backwards makes zero.
RatePerSecond(from, to, elapsed) ==
    IF elapsed <= 0 \/ to < from THEN 0 ELSE Minus(to, from)

\* cpuPercent and iowaitPercent: a part of the whole, at most all of it.
Share(part, whole) == [part |-> Min({part, whole}), whole |-> whole]
NoShare == [part |-> 0, whole |-> 1]

CpuPercent(from, to) ==
    IF to.total <= from.total \/ to.busy < from.busy THEN NoShare
    ELSE Share(Minus(to.busy, from.busy), Minus(to.total, from.total))

IowaitPercent(from, to) ==
    IF to.total <= from.total \/ to.iowait < from.iowait THEN NoShare
    ELSE Share(Minus(to.iowait, from.iowait), Minus(to.total, from.total))

----------------------------------------------------------------------------
(* Containers *)

\* A container's share of the machine since the last walk, if both its processes'
\* and the machine's jiffies moved forwards; total is 0 if /proc/stat failed.
BoxShare(c, total) ==
    IF /\ c \in DOMAIN prevBox.jiffies /\ prevBox.total > 0
       /\ total > prevBox.total /\ BoxJiffies(c) >= prevBox.jiffies[c]
    THEN <<Share(Minus(BoxJiffies(c), prevBox.jiffies[c]), Minus(total, prevBox.total))>>
    ELSE <<>>

\* Heaviest first by memory, by id under equal load, and not more than MaxReported.
Heaviest ==
    LET heavier(c, d) ==
            \/ Cardinality(Living(c)) > Cardinality(Living(d))
            \/ Cardinality(Living(c)) = Cardinality(Living(d)) /\ c < d
    IN  SubSeq(SetToSortSeq(Present, heavier), 1, Min({MaxReported, Cardinality(Present)}))

\* Each container with its share, and what it should be.
BoxStats(total) ==
    [i \in 1..Len(Heaviest) |->
       LET c == Heaviest[i] IN
       [id |-> c, cpu |-> BoxShare(c, total),
        truth |-> [work |-> boxWork[c] - boxMark.work[c], time |-> now - boxMark.at,
                   steady |-> c \in boxMark.steady /\ total > 0]]]

BoxTruth(total) ==
    boxMark' = [at |-> now, work |-> boxWork, steady |-> IF total > 0 THEN Present ELSE {}]

\* Mutant: only the containers reported are remembered.
KeepBoxesReported(total) ==
    /\ prevBox' = [total |-> total, jiffies |-> [c \in ToSet(Heaviest) |-> BoxJiffies(c)]]
    /\ BoxTruth(total)

\* The walk's counts replace the last walk's, both of them at once.
KeepBoxes(total) ==
    /\ prevBox' = [total |-> total, jiffies |-> [c \in Present |-> BoxJiffies(c)]]
    /\ BoxTruth(total)

----------------------------------------------------------------------------
(* The collector *)

\* The time the processor ever spent waiting, whatever the kernel says of it now.
Waited == now - busy - idle

Truth == [at |-> now, busy |-> busy, waited |-> Waited, net |-> net]

\* New primes the counters; disk counters it cannot read are taken as zero, so that
\* the next figure counts from when the devices there are were attached.
New(seesDisk) ==
    /\ prev' = [cpu |-> ReadCPUTimes, net |-> ReadNetCounters,
                disk |-> IF seesDisk THEN ReadDiskOps ELSE 0, time |-> now]
    /\ prevBox' = [total |-> 0, jiffies |-> <<>>]
    /\ mark' = Truth /\ boxMark' = [at |-> now, work |-> boxWork, steady |-> {}]
    /\ diskMark' = [ops |-> IF seesDisk THEN ops ELSE ops - ReadDiskOps, back |-> FALSE]
    /\ resets' = {}
    /\ report' = <<>>

\* Mutant: the counters are kept before the reading is known to be complete.
SampleFailsHalfway ==
    /\ Fault
    /\ prev' = [prev EXCEPT !.cpu = ReadCPUTimes]
    /\ UNCHANGED <<prevBox, report, machineVars, truthVars, markVars, events>>

\* A required file cannot be read: no reading, and the counters held stay.
SampleFails ==
    /\ Fault
    /\ UNCHANGED <<kept, report, machineVars, truthVars, markVars, events>>

\* Disk counters that could not be read stay the old ones.
KeepDisk(seesDisk) == IF seesDisk THEN ReadDiskOps ELSE prev.disk

\* Sample: the rates since the last one, then the containers.  total is the jiffies
\* the containers' own read of /proc/stat finds.
SampleReads(seesDisk, walks, total) ==
    LET elapsed == now - prev.time IN
    /\ now > prev.time
    /\ report' = <<[cpu |-> CpuPercent(prev.cpu, ReadCPUTimes),
                    iowait |-> IowaitPercent(prev.cpu, ReadCPUTimes),
                    net |-> RatePerSecond(prev.net, ReadNetCounters, elapsed),
                    disk |-> IF seesDisk THEN RatePerSecond(prev.disk, ReadDiskOps, elapsed) ELSE 0,
                    elapsed |-> elapsed,
                    boxes |-> IF walks THEN BoxStats(total) ELSE <<>>,
                    truth |-> [time |-> now - mark.at, busy |-> busy - mark.busy,
                               waited |-> Waited - mark.waited, net |-> net - mark.net,
                               disk |-> ops - diskMark.ops, sawDisk |-> seesDisk,
                               diskBack |-> diskMark.back, resets |-> resets]]>>
    /\ prev' = [cpu |-> ReadCPUTimes, net |-> ReadNetCounters,
                disk |-> KeepDisk(seesDisk), time |-> now]
    /\ mark' = Truth /\ resets' = {}
    /\ diskMark' = IF seesDisk THEN [ops |-> ops, back |-> FALSE] ELSE diskMark
    /\ IF walks THEN KeepBoxes(total) ELSE UNCHANGED <<prevBox, boxMark>>
    /\ UNCHANGED <<machineVars, truthVars, events>>

Sample == SampleReads(TRUE, TRUE, ReadTotalJiffies(TRUE)) /\ UNCHANGED faults

\* The best-effort files, one at a time: /proc/diskstats, the walk of /proc, the
\* containers' /proc/stat.
SampleWithout(what) ==
    /\ Fault
    /\ SampleReads(what /= "diskstats", what /= "proc", ReadTotalJiffies(what /= "stat"))

Restart(seesDisk) ==
    /\ Fault
    /\ New(seesDisk)
    /\ UNCHANGED <<machineVars, truthVars, events>>

\* A machine that has been up for a while when the agent starts.
Init ==
    /\ now = 1 /\ busy = 0 /\ iowait = 1 /\ idle = 0
    /\ link = [l \in Links |-> 0] /\ disk = [d \in Disks |-> 0]
    /\ proc = [p \in Procs |-> 0]
    /\ net = 0 /\ ops = 0 /\ boxWork = [c \in Boxes |-> 0]
    /\ prev = [cpu |-> ReadCPUTimes, net |-> 0, disk |-> 0, time |-> 1]
    /\ prevBox = [total |-> 0, jiffies |-> <<>>]
    /\ mark = Truth /\ boxMark = [at |-> 1, work |-> boxWork, steady |-> {}]
    /\ diskMark = [ops |-> 0, back |-> FALSE] /\ resets = {}
    /\ report = <<>> /\ events = 0 /\ faults = 0

Next ==
    \/ \E on \in DOMAIN proc \cup {"idle", "iowait"}, by \in DOMAIN link \cup DOMAIN disk \cup {"none"} :
         Elapse(on, by)
    \/ \E l \in Links : LinkGoes(l) \/ LinkComes(l)
    \/ \E d \in Disks : DiskGoes(d) \/ DiskComes(d)
    \/ \E p \in Procs : ProcExits(p) \/ ProcStarts(p)
    \/ IowaitBack
    \/ Sample \/ SampleFails
    \/ \E what \in {"diskstats", "proc", "stat"} : SampleWithout(what)
    \/ \E seesDisk \in BOOLEAN : Restart(seesDisk)

Spec == Init /\ [][Next]_vars

----------------------------------------------------------------------------
Said == report /= <<>>
R == report[1]

\* What a reading says was done is what was done since the last one, however many
\* failed in between, and never more after an interface or a device took its
\* counter away or iowait went back (collect.go:421-470).  A share is then of no
\* more time than passed, which may be less: the processor looks busier than it
\* was.  The disk figure covers what was done since its counters were last read,
\* over however many readings, or since the devices were attached if New could not
\* read them, though it is divided by the time of one reading (collect.go:262-270).
RatesAreExact ==
    Said =>
      /\ R.elapsed = R.truth.time
      /\ R.net <= R.truth.net
      /\ "net" \notin R.truth.resets => R.net = R.truth.net
      /\ R.truth.sawDisk =>
           /\ R.disk <= R.truth.disk
           /\ ~R.truth.diskBack => R.disk = R.truth.disk
      /\ R.cpu.part <= R.truth.busy /\ R.iowait.part <= R.truth.waited
      /\ \A s \in {R.cpu, R.iowait} : s.part <= s.whole /\ s.whole <= R.truth.time
      /\ "iowait" \notin R.truth.resets =>
           /\ R.cpu = [part |-> R.truth.busy, whole |-> R.truth.time]
           /\ R.iowait = [part |-> R.truth.waited, whole |-> R.truth.time]

\* A container that lost no process since the last walk has exactly its share,
\* whether it was reported then or not; no other is said to have worked more than
\* it did between the two walks (containers.go:100-115).
BoxSharesAreExact ==
    Said => \A i \in 1..Len(R.boxes) :
      LET cpu == R.boxes[i].cpu
          truth == R.boxes[i].truth
      IN
      /\ cpu /= <<>> => cpu[1].part <= truth.work /\ cpu[1].whole <= truth.time
      /\ truth.steady => cpu = <<[part |-> truth.work, whole |-> truth.time]>>
=============================================================================
