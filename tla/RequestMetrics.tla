--------------------------- MODULE RequestMetrics ---------------------------
(***************************************************************************)
(* Request metrics: the setting the executor writes, the agent that adopts *)
(* it once per tick, and the collector that turns access-log lines into    *)
(* one report per tick, in total and broken down by site.  What the tailer *)
(* hands over is any sequence of lines, a skip, or a failure; LogTail has  *)
(* the tailer itself.                                                      *)
(*                                                                         *)
(* Site names are numbers in the order strings compare, Nameless for a     *)
(* line without a host and Other for the shared overflow row.  A report    *)
(* holds counts, each of which the code divides by the same elapsed time,  *)
(* and percentiles of the durations, a negative one standing for none.     *)
(***************************************************************************)
EXTENDS Integers, Sequences, FiniteSets, FiniteSetsExt, Functions, Histogram

CONSTANTS
    Hosts,         \* normalised host names
    Lines,         \* bound: the lines that can be in a log: host, class, duration
    MaxTracked,    \* maxTrackedSites
    MaxReported,   \* maxReportedSites
    Candidates,    \* ids in the compiled-in table of access logs
    MaxLines,      \* bound: lines parsed in a window
    MaxSwitches,   \* bound: changes of the setting
    MaxFaults      \* bound: failed readings, failed settings reads, restarts

ASSUME RequestMetricsAssumption ==
    /\ Hosts \subseteq Nat \ {0} /\ IsFiniteSet(Hosts)
    /\ \A l \in Lines : l.host \in Hosts \cup {0} /\ l.ms \in Int
    /\ MaxTracked \in Nat \ {0} /\ MaxReported \in Nat \ {0}
    /\ MaxLines \in Nat /\ MaxSwitches \in Nat /\ MaxFaults \in Nat

Nameless == 0
Other == -1
Nothing == "nothing"     \* no candidate
Unknown == "unknown"     \* an id this build does not have, or a broken file
Env == "env"             \* the log named by ONSERVA_ACCESS_LOG
Classes == {"fine", "4xx", "5xx"}
Counts == [requests : Nat, status4xx : Nat, status5xx : Nat]
Zero == [requests |-> 0, status4xx |-> 0, status5xx |-> 0]

VARIABLES
    setting,       \* the candidate the settings file names
    env,           \* ONSERVA_ACCESS_LOG is set
    pc,            \* where the tick is
    source,        \* the log being read: agent.accessLogID, or Env
    open,          \* tailer.file is not nil
    total,         \* Collector.requests, status4xx, status5xx
    histogram,     \* Collector.histogram
    sites,         \* Collector.sites
    siteHistogram, \* the histogram of each site's window
    skipped,       \* Collector.skippedBytes is not 0
    warned,        \* Collector.warnedUnreadable
    report,        \* the request metrics of this tick's sample
    \* history
    lines,         \* the lines parsed since the last report
    reported,      \* the lines the report is about
    unasked,       \* reports of the source since the setting last stopped naming it
    switches, faults

windowVars == <<total, histogram, sites, siteHistogram>>
collectorVars == <<open, windowVars, skipped, warned>>
historyVars == <<lines, reported, unasked, switches, faults>>
vars == <<setting, env, pc, source, collectorVars, report, historyVars>>

Blank == [shown |-> FALSE, total |-> Zero, percentiles |-> NoPercentiles, rows |-> <<>>]

TypeOK ==
    /\ setting \in Candidates \cup {Nothing, Unknown}
    /\ env \in BOOLEAN
    /\ pc \in {"idle", "parse", "apply"}
    /\ source \in Candidates \cup {Nothing, Env}
    /\ open \in BOOLEAN /\ skipped \in BOOLEAN /\ warned \in BOOLEAN
    /\ total \in Counts
    /\ DOMAIN sites \subseteq Hosts \cup {Other} /\ \A h \in DOMAIN sites : sites[h] \in Counts
    /\ DOMAIN siteHistogram = DOMAIN sites
    /\ report.shown \in BOOLEAN /\ report.total \in Counts
    /\ \A i \in 1..Len(report.rows) : report.rows[i].count \in Counts
    /\ Len(lines) <= MaxLines /\ Len(reported) <= MaxLines
    /\ unasked \in Nat /\ switches \in 0..MaxSwitches /\ faults \in 0..MaxFaults

----------------------------------------------------------------------------
(* httplog.Collector *)

NewCollector ==
    /\ open' = FALSE /\ total' = Zero /\ sites' = <<>>
    /\ histogram' = NewHistogram /\ siteHistogram' = <<>>
    /\ skipped' = FALSE /\ warned' = FALSE
    /\ lines' = <<>>

Bump(count, class) ==
    [requests  |-> count.requests + 1,
     status4xx |-> count.status4xx + IF class = "4xx" THEN 1 ELSE 0,
     status5xx |-> count.status5xx + IF class = "5xx" THEN 1 ELSE 0]

\* siteFor: a site already tracked keeps its window; once MaxTracked names are
\* held, a new one is counted in the shared one.
SiteFor(host) ==
    IF host \in DOMAIN sites \/ Cardinality(DOMAIN sites) < MaxTracked
    THEN host ELSE Other

\* The body of Ingest's loop, for a line that parsed.
Count(host, class, ms) ==
    /\ total' = Bump(total, class)
    /\ histogram' = Observe(histogram, ms)
    /\ IF host = Nameless THEN UNCHANGED <<sites, siteHistogram>>
       ELSE LET site == SiteFor(host)
                known == site \in DOMAIN sites
                count == IF known THEN sites[site] ELSE Zero
                latency == IF known THEN siteHistogram[site] ELSE NewHistogram
            IN  /\ sites' = [h \in DOMAIN sites \cup {site} |->
                               IF h = site THEN Bump(count, class) ELSE sites[h]]
                /\ siteHistogram' = [h \in DOMAIN sites \cup {site} |->
                               IF h = site THEN Observe(latency, ms) ELSE siteHistogram[h]]

\* Mutant: the sites are sorted by name only.
BusierByName(g, h) == g < h

\* The order of the report: busiest first, by name under equal load.
Busier(g, h) ==
    \/ sites[g].requests > sites[h].requests
    \/ sites[g].requests = sites[h].requests /\ g < h

\* The sites of the window in that order, those without a name of their own apart.
Ranked ==
    LET named == DOMAIN sites \ {Other} IN
    [i \in 1..Cardinality(named) |->
       CHOOSE h \in named : Cardinality({g \in named : Busier(g, h)}) = i - 1]

Sum(list) == Cumulative(list)[Len(list)]

Together(hs) ==
    [requests  |-> Sum([i \in 1..Len(hs) |-> sites[hs[i]].requests]),
     status4xx |-> Sum([i \in 1..Len(hs) |-> sites[hs[i]].status4xx]),
     status5xx |-> Sum([i \in 1..Len(hs) |-> sites[hs[i]].status5xx])]

Row(h) == [host |-> h, count |-> sites[h], percentiles |-> Percentiles(siteHistogram[h])]

\* The row of the sites that have none, when there are any.
OverflowRow(hs) ==
    IF hs = <<>> THEN <<>>
    ELSE <<[host |-> Other, count |-> Together(hs), percentiles |-> NoPercentiles]>>

Reported == Min({MaxReported, Len(Ranked)})
SharedWindow == IF Other \in DOMAIN sites THEN <<Other>> ELSE <<>>

\* Mutant: the sites past the cut are dropped instead of summed.
SampleSitesCutting ==
    [i \in 1..Reported |-> Row(Ranked[i])] \o OverflowRow(SharedWindow)

\* sampleSites: the busiest MaxReported sites, and one row for all the others.
SampleSites ==
    [i \in 1..Reported |-> Row(Ranked[i])]
      \o OverflowRow(SharedWindow \o SubSeq(Ranked, Reported + 1, Len(Ranked)))

\* Mutant: as long as the log is unreadable, no other news is said.
HealthOneNews ==
    /\ warned' = ~open
    /\ skipped' = (skipped /\ ~open)

\* Health, called after every sample: an unreadable log is said once, and hides
\* news of a skip until the next call.
Health ==
    /\ warned' = ~open
    /\ skipped' = (skipped /\ ~open /\ ~warned)

----------------------------------------------------------------------------
(* The executor: httplog.Enable and httplog.Disable. *)

Fault == faults < MaxFaults /\ faults' = faults + 1

\* The settings file is renamed into place, or removed.
Switch(to) ==
    /\ switches < MaxSwitches /\ to /= setting
    /\ switches' = switches + 1
    /\ setting' = to
    /\ unasked' = IF to = source THEN 0 ELSE unasked
    /\ UNCHANGED <<env, pc, source, collectorVars, report, lines, reported, faults>>

----------------------------------------------------------------------------
(* The tick *)

\* The machine's own statistics cannot be read: the tick does nothing at all.
ReadingFails ==
    /\ pc = "idle" /\ Fault
    /\ UNCHANGED <<setting, env, pc, source, collectorVars, report, lines,
                   reported, unasked, switches>>

SampleWithoutLog ==
    /\ pc = "idle" /\ source = Nothing
    /\ report' = Blank /\ reported' = <<>>
    /\ pc' = "apply"
    /\ UNCHANGED <<setting, env, source, collectorVars, lines, unasked,
                   switches, faults>>

\* The tailer has the log open, or not; either way bytes may have been skipped
\* first if there was a file.
ReadLog(opened, skips) ==
    /\ pc = "idle" /\ source /= Nothing
    /\ open' = opened
    /\ skipped' = (skipped \/ skips)
    /\ pc' = "parse"
    /\ UNCHANGED <<setting, env, source, windowVars, warned, report,
                   historyVars>>

\* Lines come only out of an open file.  One that does not parse is passed over.
ParseLine(line) ==
    /\ pc = "parse" /\ open /\ Len(lines) < MaxLines
    /\ Count(line.host, line.class, line.ms)
    /\ lines' = Append(lines, line)
    /\ UNCHANGED <<setting, env, pc, source, open, skipped, warned, report,
                   reported, unasked, switches, faults>>

Asked == IF env THEN source = Env ELSE source = setting

\* Sample closes the window, whatever became of the reading, and Health is asked.
CloseWindow ==
    /\ pc = "parse"
    /\ report' = [shown |-> TRUE, total |-> total,
                  percentiles |-> Percentiles(histogram), rows |-> SampleSites]
    /\ total' = Zero /\ histogram' = Reset(histogram)
    /\ sites' = <<>> /\ siteHistogram' = <<>>
    /\ reported' = lines /\ lines' = <<>>
    /\ Health
    /\ unasked' = IF Asked THEN 0 ELSE unasked + 1
    /\ pc' = "apply"
    /\ UNCHANGED <<setting, env, source, open, switches, faults>>

\* No time has passed since the last window closed: it stays open.
TooSoon ==
    /\ pc = "parse"
    /\ report' = Blank /\ reported' = <<>>
    /\ Health
    /\ pc' = "apply"
    /\ UNCHANGED <<setting, env, source, open, windowVars, lines, unasked,
                   switches, faults>>

\* The sample is with the buffer by now.
TickEnds == pc' = "idle" /\ report' = Blank /\ reported' = <<>>

Adopt(enabled) ==
    IF env \/ enabled = source THEN UNCHANGED <<source, collectorVars, lines, unasked>>
    ELSE source' = enabled /\ NewCollector /\ unasked' = 0

\* Mutant: the id in the file is not looked up in the table.
EnabledUnchecked == setting

\* What httplog.Enabled makes of the settings file.
Enabled == IF setting = Unknown THEN Nothing ELSE setting

\* Mutant: the settings file is consulted only while nothing is being read.
ApplySettingOnce ==
    /\ pc = "apply"
    /\ IF source = Nothing THEN Adopt(Enabled)
       ELSE UNCHANGED <<source, collectorVars, lines, unasked>>
    /\ TickEnds
    /\ UNCHANGED <<setting, env, switches, faults>>

\* Mutant: one log being read, a switch to another is not noticed.
ApplySettingOnOff ==
    /\ pc = "apply"
    /\ IF source = Nothing \/ Enabled = Nothing THEN Adopt(Enabled)
       ELSE UNCHANGED <<source, collectorVars, lines, unasked>>
    /\ TickEnds
    /\ UNCHANGED <<setting, env, switches, faults>>

\* applyRequestMetricsSetting: the environment wins; otherwise a change of the
\* settings file replaces the collector.
ApplySetting ==
    /\ pc = "apply"
    /\ Adopt(Enabled)
    /\ TickEnds
    /\ UNCHANGED <<setting, env, switches, faults>>

\* The settings file cannot be read: for this tick nothing is enabled.
ApplySettingFails ==
    /\ pc = "apply" /\ Fault
    /\ Adopt(Nothing)
    /\ TickEnds
    /\ UNCHANGED <<setting, env, switches>>

\* The agent is started again, and reads the setting as main does.
Restart ==
    /\ Fault
    /\ source' = IF env THEN Env ELSE Enabled
    /\ NewCollector
    /\ unasked' = 0
    /\ TickEnds
    /\ UNCHANGED <<setting, env, switches>>

Init ==
    /\ setting \in Candidates \cup {Nothing, Unknown}
    /\ env \in BOOLEAN
    /\ pc = "idle"
    /\ source = IF env THEN Env ELSE Enabled
    /\ open = FALSE /\ total = Zero /\ sites = <<>>
    /\ histogram = NewHistogram /\ siteHistogram = <<>>
    /\ skipped = FALSE /\ warned = FALSE
    /\ report = Blank
    /\ lines = <<>> /\ reported = <<>>
    /\ unasked = 0 /\ switches = 0 /\ faults = 0

TickStep ==
    \/ SampleWithoutLog
    \/ \E opened, skips \in BOOLEAN : ReadLog(opened, skips)
    \/ CloseWindow
    \/ ApplySetting

Next ==
    \/ \E to \in Candidates \cup {Nothing} : Switch(to)
    \/ TickStep
    \/ \E line \in Lines : ParseLine(line)
    \/ TooSoon
    \/ ReadingFails \/ ApplySettingFails \/ Restart

Spec == Init /\ [][Next]_vars

\* The ticker keeps ticking and a tick is a finite piece of work.
FairSpec == Spec /\ WF_vars(TickStep)

----------------------------------------------------------------------------
\* The lines of a window, by number: those of a site, those with a name that is
\* not among hs, their durations, and how many there are in all and of each class.
Named(ls, h) == {i \in 1..Len(ls) : ls[i].host = h}
NamedOtherThan(ls, hs) == {i \in 1..Len(ls) : ls[i].host \notin hs \cup {Nameless}}
Durations(ls, I) == [i \in I |-> ls[i].ms]
OfClass(ls, I, class) == {i \in I : ls[i].class = class}
Tally(ls, I) == [requests  |-> Cardinality(I),
                 status4xx |-> Cardinality(OfClass(ls, I, "4xx")),
                 status5xx |-> Cardinality(OfClass(ls, I, "5xx"))]

RowHosts == {report.rows[i].host : i \in 1..Len(report.rows)}
Unlisted == NamedOtherThan(reported, RowHosts)

\* A report accounts for the lines of its window, and no line of it is left over
\* for the next: the total counts all of them, a site's row all of that site's,
\* and "(other)" exactly the named rest, also when sites overflow both caps: a
\* breakdown loses no traffic (collector.go:211-214).
RowsAreExact ==
    report.shown =>
      /\ report.total = Tally(reported, 1..Len(reported))
      /\ \A i \in 1..Len(report.rows) :
           LET row == report.rows[i] IN
           row.count = Tally(reported, IF row.host = Other THEN Unlisted
                                       ELSE Named(reported, row.host))
      /\ Unlisted /= {} => Other \in RowHosts

\* The figures of the report, of a site and of the shared row are made of their
\* own lines of this window only: each is in the bucket of the true percentile,
\* however the durations fall on the bounds, and within what was seen; and there
\* are none without a duration, nor for "(other)" (histogram.go:13-14, 108,
\* collector.go:269-270).
PercentilesAreHonest ==
    report.shown => \A p \in Percents :
      /\ Honest(report.percentiles[p], p, Durations(reported, 1..Len(reported)))
      /\ \A i \in 1..Len(report.rows) :
           LET row == report.rows[i] IN
           Honest(row.percentiles[p], p,
                  Durations(reported, IF row.host = Other THEN {}
                                      ELSE Named(reported, row.host)))

\* The names heard of before a site's first request.
NamesBefore(ls, h) ==
    {ls[i].host : i \in {k \in 1..Len(ls) : \A j \in Named(ls, h) : k < j}} \ {Nameless}

\* However many names clients make up: a report has at most MaxReported sites,
\* busiest first, and one "(other)", never two rows of one name (collector.go:216-219);
\* and none is left out for a quieter one unless MaxTracked other names had been
\* seen before its first request (collector.go:55-60).
BusiestFirst ==
    LET listed == {i \in 1..Len(report.rows) : report.rows[i].host /= Other}
        Requests(i) == report.rows[i].count.requests
    IN
    /\ \A i, j \in 1..Len(report.rows) : report.rows[i].host = report.rows[j].host => i = j
    /\ Cardinality(listed) <= MaxReported
    /\ Cardinality(DOMAIN sites \ {Other}) <= MaxTracked
    /\ \A i \in listed :
         /\ \A j \in listed : j < i => Requests(j) >= Requests(i)
         /\ \A h \in Hosts \ RowHosts :
              Cardinality(Named(reported, h)) > Requests(i) =>
                Cardinality(NamesBefore(reported, h)) >= MaxTracked

\* A log is reported on at most once more after the setting stopped naming it:
\* nobody has "asked us to read" it since (main.go:337-338).
StopsWhenAsked == unasked <= 1

\* The setting decides in the end, also when it changed during a tick or came
\* and went between two; ONSERVA_ACCESS_LOG beats it (main.go:197-200, 322-342).
FollowsTheSetting ==
    \A c \in Candidates :
      <>[](setting = c) => <>[](source = IF env THEN Env ELSE c)

\* A skip is said in the journal, unless its collector is replaced first: "skips
\* ahead and says so in the journal" (README.md:114-115).
SkipsAreSaid == skipped ~> ~skipped
=============================================================================
