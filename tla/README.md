# onserva-agent in TLA+

A verification project for the agent in `src/`: TLA+ modules of its parts, TLC
configurations that check them on small instances, and TLAPS proofs of the
results that matter most. Line numbers are those of `src/`.

    tlc -workers 2 -config MCHandoff.cfg MCHandoff
    tlapm HandoffProofs.tla

## 1. The system

Two processes run on a monitored server and never share memory.

* The **agent** (`onserva-agent.service`, unprivileged) takes a reading each
  tick, sends it to the platform, and receives authorised actions in the reply.
* The **executor** (`onserva-fix.service`, root, no network) is a one-shot that
  `onserva-fix.path` starts whenever a request file exists. It carries out what
  its own table allows, records the outcomes and exits.

They meet in three places on disk: the two spool directories on tmpfs under
`/run/onserva`, the settings file for request metrics and the one for database
monitoring, both in `/var/lib/onserva`. The executor writes the settings; the
agent reads them once per tick.

| Component | State it keeps | Operations | What is hard | What makes it correct | Module |
|---|---|---|---|---|---|
| spool (`internal/spool`) | request and result files, temporary files, their group | `Write`, `TakeRequests`, `WriteResult`, `TakeResults` | two processes interleave at each file-system call; kills, reboots, clock steps | an action starts at most once, in its boot, if fresh when its turn comes; outcomes are true and told once | `Handoff` |
| executor (`execute.go`, `fixes`, unit files) | the batch, the running command, swap | `runExecutor`, `carryOut`, `executePurgeSwap`, `Plan` | two bounds on time; a purge takes the reserve away first | the reserve is given back or its loss is said; a command has the time its plan gives it | `Handoff`, `CarryOut` |
| agent loop (`main.go`, `buffer.go`, `config`) | buffer, pending outcomes and surveys, backoff, cadence | `tick`, `flush`, `handleSendError`, `onSuccess` | lost replies, refusals and overflow while a backlog is out | in order, once, newest kept, outcomes told, never silent | `Uplink`, `Reporting` |
| transport (`internal/transport`) | none | `Send` | what an answer means | each answer has the right consequence | `Reporting` |
| access-log tailer (`httplog/tail.go`) | handle, identity, offset, partial line | `ensureOpen`, `readLines` | rotation, truncation and half-written lines at any point | no line twice, none overlooked, never stuck | `LogTail` |
| request metrics (`httplog/collector.go`, `state.go`) | the window, the sites, the setting | `Ingest`, `Sample`, `Health`, `Enable`, `Disable` | client-chosen names against two caps; a setting that changes mid-tick | rows add up; the setting wins | `RequestMetrics` |
| latency histogram (`httplog/histogram.go`) | buckets, extremes | `observe`, `reset`, `quantile` | durations on a bound, past the last one, a window after another | a percentile in the bucket of the true one | `Histogram` |
| database monitoring (`internal/dbstat`) | previous counters, enabled set, journal notes | `Sample`, `SetEnabled`, `Enable`, `Disable` | counters that reset or vanish, read seconds after their stamp; two clocks per rate; a settings file that cannot be read | no rate exceeds the work done; what was asked for is read | `EngineMetrics` |
| wire protocols (`pg.go`, `mysql.go`, `redis.go`) | one session | a probe or a deep sample | slow, silent and late answers; errors half way | a visit is bounded; figures are filed under their own question | `StatsSession` |
| machine metrics, containers (`internal/collect`, `containers`) | previous kernel counters, the time of the last sample | `New`, `Sample` | counters that vanish with an interface, a device or a process, or go backwards; one of several reads failing | a figure is what was done since the last reading, and never more | `MachineRates` |
| backup survey (`internal/backupstat`) | none | `Detect` | caps on a walk; stamps ahead of the clock; a place that is a link | never fresher than the files | `BackupSurvey`, `Survey` |
| log parsing, survey of logs | none | parsers, a table of paths | text | | not modelled |

`PROJECT.json` lists every component with what is left out of it, and the hazards
at their lines with the properties that watch them.

## 2. The modules

Actions are named after the functions they translate; `PROJECT.json` "map" gives
the lines. A definition whose comment begins with "Mutant" is a plausible bug
that no specification uses; it is there to show that a property can fail.

**Handoff.** One action is one file-system call. A file's content is the number
of the copy that `spool.Write` made of a request (0 for no file), ids are numbers
in directory order. `BeginWrite`/`FinishWrite`/`FailWrite` are `writeAtomic`,
called for the actions of a reply (`spoolAuthorised`, main.go:476-493);
`BeginCollect`, `CollectRead`, `CollectUnlink` are `TakeResults`, whose removal
fails, unnoticed, while the directory does not let the agent write (`shared`;
`kept` and `retold` are the outcomes it could not remove and those it returned
again); `Start`, `TakeRead`, `TakeUnlink` are the path unit and `TakeRequests`,
with the cap on pending requests as an index into a listing that holds temporary
files too (as root on tmpfs its removals do not fail). `carryOut` is three steps:
the age is judged and the request refused for it (`Lapse`) or taken up
(`TakeUp`), `Plan`'s own commands run while time goes on and end in a refusal
(`Refuse`) or in the start of the action (`Run`), and the action ends (`RunEnds`).
`RenameResult`, `ChownResult` are `WriteResult`. `KillExecutor`, `CrashAgent`,
`Reboot`, `ClockBack`, `TmpfilesRuns` (the directory's mode is reset) and the
failing calls are faults. A `spool.Ensure` that fails is a start that does not
happen.

**CarryOut.** What happens inside a start: the table of `fixes.Plan` as the set
of what each action may resolve to on some machine, the command against its own
bound, and the purge of swap one swap area at a time, all under systemd's bound
on the unit. Commands may end, fail or hang.

**Uplink** is the loop; each kind of answer to a send is one action, and what the
platform does with it is left to the composing module. **Reporting** composes it
with a platform and a network that accept, lose the reply, fail or refuse, and
with the process dying. **Feed** is the abstract specification: a numbered series
of readings with a window of the newest, which leaves the window oldest first,
stored, or refused or lost with the process and then on record as `gone`; so a
loop that quietly discards a reading does not implement it.

**LogTail.** One action is one system call on the log. A line is two halves, the
second of which carries the newline, so a read can fall inside a line; proxy and
logrotate write, rename, create, reopen and truncate at any point.

**RequestMetrics.** The tick of `Collector.Ingest`, `Sample`, `Health` and
`applyRequestMetricsSetting`, with the executor switching at any moment. What the
tailer returns is any sequence of lines. `Enable` and `Disable` write a temporary
file and rename it, or remove the file; for a reader that is one step. What
becomes of the durations is in **Histogram**, the operators `observe`, `reset` and
`quantile` of the collector's histogram and of each site's, with a fraction where
the code has a float. A float may round `p * total` across a whole number; the
fractions do not.

**EngineMetrics.** Counters are modelled modulo a word, so a subtraction that
goes below zero wraps as `uint64` does. A sample takes time: `BeginSample` takes
the stamp, `Scan` reads the processes and the machine's total, `Visit` reads one
engine's socket after the other, `EndSample` keeps the total, and the machine works
in between, for `MaxLag` at most from the stamp to the last reading (in the code the
sum of the visits' waits, which `VisitIsBounded` bounds). Each rate keeps next to it
what really happened between the two readings. Engines are those with a deep sampler
(PostgreSQL, MySQL, Redis). `Change` and `ChangeBlind` are the executor's `Enable`
and `Disable` with a settings file that can and cannot be read, `ApplySetting` and
`ApplySettingFails` the agent's adoption of it; `asked` is what the owner was told.

**StatsSession.** One visit over one engine's socket, message by message, for the
probe and the deep sample of each of the three clients: connect, greeting, then
`query` per question with its deadline. The engine keeps to its protocol and may
refuse, be slow, fall silent or hang up anywhere; what it was asked it answers in
order, so an answer the client no longer waits for still arrives. EngineMetrics
uses the outcome of a visit as one step.

**MachineRates.** `collect.New` and `Sample` and `containers.Collector.Sample`
against the kernel's running totals: interfaces, block devices and processes come
and go with their counters and the estimate of iowait decreases at any point, and each file read may fail, the
required ones (no reading at all) and the best-effort ones (`SampleWithout`).
Differences are taken modulo a word. Next to each figure the model keeps what the
machine really did since the last reading, or since the disk counters were last
read (`diskMark`). `time.Now` is monotonic, so time only
moves forwards.

**BackupSurvey.** One place of `Detect`, and `scan` entry by entry over a tree
that is made up as the walk goes; a place that is a symbolic link passes `os.Stat`
and is one entry to `WalkDir` (`BeginLink`). **Survey** composes it with StatsSession: the
agent's loop is one thread, so a visit and a walk take turns (`surveyLogs`).

## 3. The runs

Every property of a passing run has a mutant in `PROJECT.json` under which TLC
finds it violated.

| Run | Bounds | What it shows |
|---|---|---|
| `handoff` | 2 ids, 3 writes, cap 2, clock 0..1 with `MaxAge` 0, 1 fault | `AtMostOnce`, `NotReplayable`, `HonestOutcomes`, `NothingVanishes`, `TimelyRun` |
| `handoff_live` | 2 ids, 2 writes, 2 faults | `EveryBatchAnswered`, `SpoolDrains` |
| `handoff_outcome` | 1 id, no fault | `EveryOutcomeReported` is violated (section 6) |
| `carry_out` | 2 swap areas, batches of 1 or 2 of all eight actions, 2 starts, default bound < unit's < the other plans' | `ReserveAccountedFor` |
| `carry_out_bound` | the same | `NotCutShort` is violated (section 6) |
| `reporting` | buffer 3, 2 sends a tick, 5 readings, 2 outcomes, 2 lost replies, 1 restart | `StoredInOrder`, `OutcomesAreTold`, `BackoffEnds`, `ImplementsFeed` |
| `log_tail` | 3 files, 3 lines, reads of 3 halves, 1 truncation, 1 failed call | `CountedOnceInOrder`, `NoLineOverlooked`, `CatchesUp` |
| `request_window` | 4 hosts, 3 tracked, 2 reported, 4 lines of 14 kinds a window, 3 bucket bounds, 7 durations | `RowsAreExact`, `BusiestFirst`, `PercentilesAreHonest` |
| `request_setting` | 2 candidates, 3 switches, 2 faults | `StopsWhenAsked`, `FollowsTheSetting`, `SkipsAreSaid` |
| `engine_rates` | 2 engines, clock to 3, a lag of 1, 2 switches, 1 event; symmetric engines | `NeverMoreThanTheWork`, `OneWindow`, `JournalIsCurrent`, `ReadsWhatWasAsked` |
| `survey` | waits of 2, 2 messages read past; trees of 4 entries, walk cut at 4, depth 2, links of any age; any number of visits and walks | `VisitIsBounded`, `FiguresAreTheirOwn`, `DegradesOnItsOwn`, `NeverFresherThanTheFiles` |
| `machine` | 1 interface, 1 block device, 3 processes in 2 containers (two of them symmetric), 1 reported, clock to 4, 2 events, 1 fault | `RatesAreExact`, `BoxSharesAreExact` |

Why the bounds are enough for the cases that matter:

* `handoff`: the third write puts a second copy under an id that is being taken
  or carried out; cap 2 is exceeded by two requests and a temporary file; a
  clock of two values separates fresh, stale and future, and moves at every step,
  also between the judgement of a request and its start; the single fault falls
  at every one of the steps. What it means for more is proved (section 5).
* `reporting`: five readings overflow a buffer of three while its head is being
  retried; the second lost reply repeats a repeat. `RetryAfters` holds a value
  above `MaxBackoff`, `Wishes` one above `MaxInterval`.
* `log_tail`: three files are two rotations in a row; a read limit of three
  halves makes a skip land inside a line.
* `request_window`: four names overflow a map of three, and three names a report of
  two, so both overflows meet in one row, next to two rows that have an order. The durations lie below, on and between
  the bounds, past the last and below zero. The kinds of line are chosen so that
  one site has three durations and none, and the whole has all of them.
* `request_setting`: three switches allow off and on again within one tick.
* `engine_rates`: the event is a restart, an exit, a refusal or a failed read, at any
  point of a sample; two switches are off and on again. A lag of one lets counters be
  read at their stamp or after it, at each of the two readings of a rate. Two events
  in one behaviour are left to the proofs, which hold for any number. A word of 16 is
  larger than any true counter, so a wrapped difference stands out.
* `carry_out`: in a batch of two, the second request finds what the first left of
  the swap; the second start finds what a kill left.
* `survey`: a wait of two separates an answer in time from one that trickles, two
  messages read past make the sum of the waits for one answer exceed it; trees of
  four entries behind the root exceed a walk of four.
* `machine`: two containers with one reported change places when a process exits;
  four ticks hold two readings with a failed one, or an event, in between. One
  device that is detached and attached again makes the sum go back, and so does one
  interface; how sums over several move is proved.

Deadlock is checked in every run but those of `CarryOut`, whose starts are bounded
and whose unit may stay idle, and of `MachineRates`, whose clock ends.

## 4. Fairness

* `Handoff`: weak fairness of the agent's steps (its loop never blocks on the
  spool) and of the executor's (systemd starts a unit whose path condition holds;
  an action ends by itself or by its bound). `Plan`'s commands have no bound: one
  that hangs is ended with the unit by `TimeoutStartSec`, which is `KillExecutor`
  at that moment, and the requests it had are `lost`. A start that repeatedly dies could
  reach systemd's limit on trigger rates; two faults cannot, and the model has no
  such limit.
* `LogTail`, `RequestMetrics`: weak fairness of the steps of a tick, since the
  ticker keeps ticking and a tick is finite. Nothing is assumed of the proxy, of
  logrotate or of whoever changes the setting.

## 5. What is proved

Each theorem holds for every value of the constants the ASSUMEs allow. Those say
that bounds and timeouts are naturals (positive where the code's are), that sets
of ids, interfaces, devices and processes are finite, and that ids, readings and files are
numbered in the order in which they are listed, taken and created, and that the
bounds of the latency buckets are positive and rise, as `bucketBoundsMs` does
(histogram.go:16-19). One says more:
in `MachineRates` the counters of a machine stay below the word
(`MaxNow < WordSize`), since a `uint64` of jiffies or bytes does not wrap in the
life of a machine. `EngineMetrics` needs no such assumption.

All 30 invariants of the passing runs are theorems, and so are the three
action properties `TimelyRun`, `BackoffEnds` and `DegradesOnItsOwn` and the
refinement `ImplementsFeed`. Most are not inductive: a figure or an outcome is
right because of what was remembered, taken or read several steps before. What
each needs, with the names it has in the proofs:

* **HandoffProofs**: `TypeCorrect`, `RunsAtMostOnce`, `RunsAreNotReplayable`,
  `RunsAreTimely`, `OutcomesAreHonest`, `NothingEverVanishes`. At most once needs
  to know where a copy can be. `SafeInv` adds to the types that every file and
  batch entry holds a copy written under its own id (`Placed`), that the three
  places of an id never hold the same copy (`Apart`), that `TakeRequests` has not
  yet taken what it has still to read and holds a copy only between read and unlink
  (`Taking`), that a copy that was run is in none of them (`Spent`), and neither is
  the one whose plan is being made, which was not run yet (`Planned`). The
  argument is the one of spool.go:162-168: the file is removed before the batch is
  carried out, and a copy only moves from temporary file to request file to batch
  to run. Timeliness adds that every copy in the spool or a batch is of this boot
  (`ThisBoot`), because a reboot empties both, and that the copy being planned was
  fresh by one of the clock's readings of its turn (`Judged`). On the way back, a copy with an
  outcome is nowhere it could be run from (`Decided`), the copy being carried out
  gets its outcome before its result is named (`Carrying`), and what is on its way
  has an outcome, and was collected already only if it could not be removed then
  (`ComingBack`). Nothing vanishes because
  a copy is let go of only once it is kept elsewhere (`KeptInv`).
* **CarryOutProofs**: `TypeCorrect`, `ReserveIsAccountedFor`. The types need that
  a program runs only for a request of the batch and never longer than the unit
  (`Busy`). `ReserveAccountedFor` is inductive as it stands.
* **ReportingProofs**: `TypeCorrect`, `OldestFirst`, `OutcomesReachThePlatform`,
  `BackoffAlwaysEnds`, `ImplementsTheFeed`. `OrderInv` says that the buffer holds
  consecutive numbers up to the newest reading (`Window`) and that what is stored
  lies behind it, except for a head whose reply was lost (`Behind`). An outcome
  that is still waiting was told at most once per lost reply (`Waiting`). The
  refinement rests on `Window` and `Behind` again: what is outstanding is an
  interval that begins at the head of the buffer or behind it, and what was refused
  or forgotten lies before it (`GoneBehind`); every action of the loop is then a
  `Take`, `Store` or `GiveUp` of the feed or leaves the mapped variables alone.
* **LogTailProofs**: `TailTypeCorrect`, `LinesCountedOnceInOrder`,
  `LinesAreNeverOverlooked`. Halves of lines only grow along a file and from one
  file to a younger one (`DiskOK`), the handle is that of the file followed
  (`Following`), so everything still to be read lies above everything read
  (`Ordered`). While no file was emptied a file holds its lines without a gap
  (`WithoutGaps`), and what is held back is the end of what was read and begins
  behind a newline or a skip (`HeldBack`), so the read that ends a line counts it.
  That `LinesOf` returns the whole lines of a buffer in its order is an induction
  over the buffer.
* **EngineMetricsProofs**: `TypeCorrect`, `RatesNeverExceedTheWork`,
  `RatesSpanOneWindow`, `JournalStaysCurrent`, `WhatWasAskedIsRead`. How the
  counters remembered stand to those of the machine, with what restarts and exits
  took away in between (`RememberedProc`, `RememberedDeep`, and `Scanned` for the
  counts of the walk under way), when they were taken (`Aligned`, with the old total
  for the engines still to visit and the new one for those visited) and how far from
  their stamp (`Timed`, `RememberedDeep`), which engines sampler, settings and owner agree about (`Followed`),
  and that the journal was told what the sampler noted (`Journal`).
* **MachineRatesProofs**: `MachineTypeCorrect`, `RatesSayWhatWasDone`,
  `SharesSayWhatWasUsed`. The difference between what is read and what is held is
  never more than what was done since the mark, and is exactly that if nothing went
  back (`CountersHeld`, `DiskHeld` with a mark of its own, and `BoxesHeld` for each
  container). The totals are sums over the interfaces, devices and processes there are: how such a sum changes when one of
  its numbers grows, leaves or joins is proved by induction over finite sets.
* **SurveyProofs**: `VisitTypeCorrect`, `WedgedEngineCostsAReading`,
  `FiguresStayTheirOwn`, `OptionalFiguresAreOptional`, `BackupsNeverLookFresher`. What
  a client will read, arrived or still to be sent, is the rest of one greeting or of
  one answer to the present question, but for the wait that was given up and the
  connection used on (`Connection`); a figure belongs to a question that was put, and
  only the longest query can hold another's, the size's (`Pertinent`); what became of
  the questions before (`Progress`); each wait has a deadline of its own (`InTime`). The walk has seen the
  whole tree as long as it was not cut, and the newest time is that of a file it saw,
  or the link's if the place is one (`WalkInv`).
* **RequestMetricsProofs**: `NobodyIsReadUnasked`, `TypesHold`, `NoTrafficIsLost`,
  `TheBusiestAreReported`, `PercentilesInTheirBucket`. After a report nobody asked
  for, the tick is at its end and the log is neither the one named nor none, so that
  whatever the adoption reads it lets go of it (`AskedInv`). The other four are about
  a report, made in one step of a window that many steps filled, so the invariant is
  about the window (`WindowInv`): each counter is the tally of its lines, that of
  "(other)" of the lines whose name is not tracked (`WindowCounts`); the names tracked
  are no more than `MaxTracked`, and one that is not was heard of only after
  `MaxTracked` others (`WindowNames`); each histogram counts in every bucket the
  durations that belong there and holds the least and the greatest of them
  (`WindowDurations`, with `HistogramOf`). Closing the window makes the rest. The
  number of busier sites tells the sites apart and takes every value below their
  number, so the ranking exists and lists each once, busiest first (`Places`,
  `RankedSites`). What is cut off is a sum of tallies of disjoint sets of lines, and
  with the shared window that of all lines no row names (`SumOfParts`, `CutOffLines`,
  `TogetherTallies`). The running sums of the buckets are the numbers of durations up
  to each bound (`SumOfBuckets`), so the first bucket that reaches the rank is that
  of the nearest-rank percentile (`ExactRank`, `RankReached`). Interpolation lands
  above that bucket's lower bound and not above its upper (`Between`), and the clamp
  keeps the figure there, since the true percentile lies between the least and the
  greatest duration too (`QuantileIsHonest`).

Induction over data is done in the form the provers can use: the set of numbers for
which a fact holds contains zero and with each number the next (`FromZeroUp`, from
the well-foundedness of the naturals).

Only model-checked is what needs fairness: `EveryBatchAnswered`, `SpoolDrains`,
`CatchesUp`, `FollowsTheSetting` and `SkipsAreSaid`. The prover has
no reasoning about it.

No liveness is stated of the loop: `BackoffEnds` says instead that a wait is
bounded and shrinks with every tick, so an agent that ticks comes to send again.

## 6. Where code and comments disagree

Shown by runs that expect a violation:

* `handoff_outcome`: `WriteResult` renames a result into place before it hands it
  to the agent's group (spool.go:241, 245); a tick in between cannot read it and
  removes it (spool.go:273-277). "Every refusal is reported rather than
  swallowed" (execute.go:77).
* `carry_out_bound`: `TimeoutStartSec=120` (onserva-fix.service:51) ends commands
  whose plans allow ten or fifteen minutes (fixes.go:300, 373, 491, 507) when they
  have had those 120 s, and the request gets no outcome.

Met while modelling and visible in the models, without a run of their own:

* requests over the cap are removed without an outcome, and temporary files count
  towards it (spool.go:190; `dropped` in `NothingVanishes`);
* onserva-tmpfiles.conf:11-16 makes `results/` 0750, "the agent may read
  and list, NOT write"; spool.go:103-105 makes it 0770 when the executor starts,
  since `"take" without unlink is "re-report forever"`. Until then, and again after
  systemd-tmpfiles has run, `TakeResults` ignores that it cannot remove a result
  (spool.go:274) and returns it every tick (`kept`, `retold` in `HonestOutcomes`,
  `shared` in `SpoolDrains`);
* a request is judged for its age before `Plan` runs commands without a bound
  (execute.go:83; fixes.go:522, 531), so it may be older than `MaxAge` when its
  action starts (execute.go:176; `TimelyRun` speaks of the judgement);
* after a lost reply outcomes are told again (`OutcomesAreTold` bounds it);
* lines written to the old log between the last read and a rotation are lost
  (tail.go:129): they lie ahead of the position, where `NoLineOverlooked` does not
  look;
* when PostgreSQL takes longer than `probeTimeout` over the size question, the
  connection is used on and its late answer is filed as `longestQueryS`
  (pg.go:266-277; `Overtaken`), or costs that figure, although `query` takes care
  not to "desynchronise the next query on this connection" (pg.go:133-135) and
  "each degrades to absent on its own" (pg.go:228-229);
* a backup place that is a symbolic link to a directory passes `os.Stat`
  (backupstat.go:72) and is one entry to `filepath.WalkDir` (106): it is reported
  as one file with the link's own time, which may be fresher than any file behind
  it, where lines 6-8 promise "the age of the newest file in each";
* counters behind a socket are stamped with the time a sample began and read up to
  several timeouts later (collect.go:225, dbstat/collect.go:157-177), so a rate's
  operations and its seconds span windows that differ by as much (`MaxLag` in
  `OneWindow`);
* a failed read of `/proc/diskstats` is reported as no disk operations, and the
  next reading divides those of two windows, or all since boot when it failed at
  the start, by one (collect.go:262-270; `diskMark`), against "a false zero on the
  owner's graphs, which is worse than a missing point" (collect.go:221-222);
* `Enable` and `Disable` of an engine take settings they cannot read as empty: the
  other engines are switched off, or the one to be disabled stays on and the
  answer is success (dbstat/state.go:72, 126; `damaged` in `ReadsWhatWasAsked`),
  where lines 117-119 say "the state already holds";
* a backup survey that is cut costs more than "a truncated count"
  (backupstat.go:61-62): the walk goes by name, so of dated files the newest are
  the ones not seen and the age reported is too old; files stamped more than an
  hour ahead, if there are no others, are reported as centuries old, since
  `Sub` of the zero time saturates (backupstat.go:84-89);
* a rotation between `Stat` and `Open` lets a file be counted twice
  (tail.go:114-156; `swapped` in `CountedOnceInOrder`);
* a log that cannot be opened is reported as zero requests per second
  (collect.go:277-281), where collector.go:285-286 says "blank";
* after an engine is switched off and on, its first share of the processor is made,
  over two different windows (dbstat/collect.go:71-84; excepted in `OneWindow`),
  where lines 45-47 say that the first sample after enabling "withholds the rates";
* an iowait that went back makes the total smaller too, so the share of the processor
  is of less time than passed and the machine looks busier than it was
  (collect.go:422-433; the bounds of `RatesAreExact`);
* `Retry-After` is not cut to `maxBackoff` (main.go:507-508; the second disjunct of
  `BackoffEnds`);
* the `swapon` after a failed `swapoff` is not checked and is reported as
  re-armed (execute.go:238-242; `excuse = "ignored"`).

## 7. What is left out, and the plan

Not modelled, and why: the parsing of access-log lines, `/proc` files, cgroups and
the bytes of the wire protocols, and the tables of paths, are text without state,
for which the repository's own tests are the better tool; gauges that keep nothing
between readings (memory, load, disk usage, TCP counts) are passed through;
start-up checks (`config.Load`, `--check`) happen once, before anything runs; the
wording of the journal. That an inode number is given out again while the
tailer still holds the old one (tail.go:125) is assumed not to happen, and a line
cut before its quoted request, whose tail would parse (parse.go:139-164), is taken
as none. Which unit or container a name resolves to, and the
arithmetic of the purge's guard, are choices in `CarryOut`.

Next, in this order:

1. `FixRoundTrip`: `Reporting` and `Handoff` composed, from an authorisation in
   a reply to its outcome at the platform, across crashes of either process.
2. The liveness of the loop on its own against a platform that accepts again and
   again.
