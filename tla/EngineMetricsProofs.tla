------------------------ MODULE EngineMetricsProofs ------------------------
(***************************************************************************)
(* Theorems about database monitoring, for every set of engines, every     *)
(* word size, every lag and every bound.  What a reading says follows from *)
(* what the sampler remembers of the visit before, so the invariant is     *)
(* about the remembered counters: how they stand to the counters of the    *)
(* machine (RememberedProc, RememberedDeep) and to those of the sample     *)
(* under way (Scanned), when they were taken (Timed, Aligned), which       *)
(* engines are read (Followed), and what the journal was told (Journal).   *)
(***************************************************************************)
EXTENDS EngineMetrics, TLAPS

\* The machine's counters: the work since the start is part of all work, which
\* took time.
Counters ==
    /\ now \in 0..MaxNow
    /\ spent \in [Engines -> Nat] /\ base \in [Engines -> Nat] /\ gone \in [Engines -> Nat]
    /\ \A e \in Engines : base[e] + gone[e] <= spent[e] /\ spent[e] <= now

ScalarsOK ==
    /\ setting \in SUBSET Engines /\ enabled \in SUBSET Engines
    /\ pc \in {"idle", "scan", "visit", "apply"}
    /\ unreachable \in SUBSET Engines
    /\ socket \in [Engines -> {"absent", "refusing", "answering"}]
    /\ running \in SUBSET Engines
    /\ told \in SUBSET Engines /\ repeated \in BOOLEAN
    /\ asked \in SUBSET Engines /\ pending \in SUBSET Engines /\ damaged \in SUBSET Engines
    /\ switches \in 0..MaxSwitches /\ events \in 0..MaxEvents

\* A sample's stamp and total are from the last MaxLag, and its other locals are
\* empty outside the loop over the engines.
Timed ==
    /\ stamp \in 0..now /\ total \in 0..now
    /\ Sampling => now <= stamp + MaxLag
    /\ todo \subseteq enabled
    /\ pc /= "visit" => todo = {} /\ DOMAIN procs = {}

\* Whatever was lost to a restart or an exit since the last visit is counted in
\* base and gone by now.
RememberedProc ==
    /\ DOMAIN prevProc \subseteq Engines
    /\ \A e \in DOMAIN prevProc :
         /\ prevProc[e].jiffies \in 0..MaxNow
         /\ prevProc[e].spent \in Nat /\ prevProc[e].at \in 0..now
         /\ prevProc[e].spent - prevProc[e].jiffies <= base[e] + gone[e]

\* The same of the counters behind a socket, which were read within MaxLag of the
\* time they are stamped with.
RememberedDeep ==
    /\ DOMAIN prevDeep \subseteq Engines
    /\ \A e \in DOMAIN prevDeep :
         /\ prevDeep[e].ops \in 0..MaxNow
         /\ prevDeep[e].spent \in Nat
         /\ prevDeep[e].at \in Nat /\ prevDeep[e].read \in 0..now
         /\ prevDeep[e].at <= prevDeep[e].read /\ prevDeep[e].read <= prevDeep[e].at + MaxLag
         /\ prevDeep[e].spent - prevDeep[e].ops <= base[e]

\* The counts of the walk under way are as good as remembered ones, are from the
\* moment of the total, and had lost at least what the remembered ones had.
Scanned ==
    /\ DOMAIN procs \subseteq enabled
    /\ \A e \in DOMAIN procs :
         /\ procs[e].jiffies \in 0..MaxNow
         /\ procs[e].spent \in Nat /\ procs[e].at \in 0..now
         /\ procs[e].spent - procs[e].jiffies <= base[e] + gone[e]
         /\ total > 0 => procs[e].at = total
         /\ (e \in todo /\ e \in DOMAIN prevProc) =>
              prevProc[e].spent - prevProc[e].jiffies <= procs[e].spent - procs[e].jiffies

\* The total was remembered no earlier than any engine's jiffies, and together
\* with those of an engine that was monitored ever since.  In the loop this holds
\* of the old total for the engines still to visit, and of the new one for those
\* already visited.
Aligned ==
    /\ prevTotal \in 0..now
    /\ since \in [Engines -> Nat] /\ \A e \in Engines : since[e] <= now
    /\ prevTotal > 0 =>
         \A e \in DOMAIN prevProc : (pc /= "visit" \/ e \in todo) =>
           /\ prevProc[e].at <= prevTotal
           /\ (e \in enabled /\ prevProc[e].at >= since[e]) => prevProc[e].at = prevTotal
    /\ (pc = "visit" /\ total > 0) =>
         \A e \in DOMAIN prevProc :
           /\ prevProc[e].at <= total
           /\ e \in enabled \ todo => prevProc[e].at = total

\* The settings, the sampler and the owner agree about every engine that nothing
\* excuses.
Followed ==
    /\ \A e \in Engines \ damaged : e \in setting <=> e \in asked
    /\ \A e \in Engines \ (pending \cup damaged) : e \in enabled <=> e \in asked
    /\ pc \in {"idle", "scan"} => DOMAIN readings = {}
    /\ pc \in {"visit", "apply"} => DOMAIN readings = enabled \ todo

Journal == told = unreachable

Remembered == Timed /\ RememberedProc /\ RememberedDeep /\ Scanned /\ Aligned

MetricsInv ==
    /\ Counters /\ ScalarsOK /\ Remembered /\ Followed /\ Journal
    /\ NeverMoreThanTheWork /\ OneWindow /\ JournalIsCurrent

LEMMA InvTyped == MetricsInv => TypeOK
<1> SUFFICES ASSUME MetricsInv PROVE TypeOK
  OBVIOUS
<1>1. /\ Counters /\ ScalarsOK /\ Timed /\ RememberedProc /\ RememberedDeep /\ Scanned
      /\ Aligned /\ Followed
  BY DEF MetricsInv, Remembered
<1>2. prevTotal \in 0..MaxNow /\ total \in 0..MaxNow /\ stamp \in 0..MaxNow
  BY <1>1, EngineMetricsAssumption DEF Counters, Aligned, Timed
<1>3. \A e \in Engines : Jiffies(e) >= 0
  BY <1>1 DEF Counters, Jiffies
<1>4. DOMAIN readings \subseteq enabled
  BY <1>1 DEF Followed, ScalarsOK
<1>5. QED
  BY <1>1, <1>2, <1>3, <1>4
  DEF TypeOK, Counters, ScalarsOK, Timed, Scanned, RememberedProc, RememberedDeep

LEMMA InvInit == Init => MetricsInv
<1> SUFFICES ASSUME Init PROVE MetricsInv
  OBVIOUS
<1>0. /\ DOMAIN readings = {} /\ DOMAIN prevProc = {} /\ DOMAIN prevDeep = {}
      /\ DOMAIN procs = {}
  BY DEF Init
<1>1. Counters /\ Aligned /\ Timed
  BY <1>0, EngineMetricsAssumption DEF Init, Counters, Aligned, Timed, Sampling
<1>2. ScalarsOK
  <2>1. socket \in [Engines -> {"absent", "refusing", "answering"}]
    BY DEF Init
  <2>2. repeated \in BOOLEAN
    BY DEF Init
  <2>3. QED
    BY <2>1, <2>2, EngineMetricsAssumption DEF Init, ScalarsOK
<1>3. RememberedProc /\ RememberedDeep /\ Scanned
  BY <1>0 DEF RememberedProc, RememberedDeep, Scanned
<1>4. Followed /\ Journal
  BY <1>0 DEF Init, Followed, Journal
<1>5. NeverMoreThanTheWork /\ OneWindow /\ JournalIsCurrent
  BY <1>0 DEF Init, NeverMoreThanTheWork, OneWindow, JournalIsCurrent
<1>6. QED
  BY <1>1, <1>2, <1>3, <1>4, <1>5 DEF MetricsInv, Remembered

\* The readings say the same as long as neither they nor the journal change.
LEMMA ReadingsUntouched ==
    ASSUME NeverMoreThanTheWork, OneWindow, JournalIsCurrent,
           UNCHANGED <<readings, told, repeated>>
    PROVE  NeverMoreThanTheWork' /\ OneWindow' /\ JournalIsCurrent'
<1>1. NeverMoreThanTheWork'
  BY DEF NeverMoreThanTheWork, Rates
<1>2. OneWindow'
  BY DEF OneWindow
<1>3. JournalIsCurrent'
  BY DEF JournalIsCurrent
<1>4. QED
  BY <1>1, <1>2, <1>3

\* Whatever happens on the machine, time goes forward and no counter forgets more
\* than base and gone say.
LEMMA MachineStep ==
    ASSUME MetricsInv,
           \/ \E busy \in SUBSET Engines : Elapse(busy)
           \/ \E e \in Engines :
                StopEngine(e) \/ StartEngine(e) \/ WorkerExits(e) \/ GrantChanges(e)
    PROVE  MetricsInv'
<1>0. /\ Counters /\ ScalarsOK /\ Timed /\ RememberedProc /\ RememberedDeep /\ Scanned
      /\ Aligned /\ Followed /\ Journal /\ NeverMoreThanTheWork /\ OneWindow /\ JournalIsCurrent
  BY DEF MetricsInv, Remembered
<1> USE EngineMetricsAssumption
<1>1. /\ UNCHANGED <<setting, pc, enabled, prevTotal, prevProc, prevDeep, unreachable,
                     stamp, procs, total, todo, readings, told, repeated, since, asked,
                     pending, damaged, switches>>
      /\ events' = events \/ (events < MaxEvents /\ events' = events + 1)
  BY DEF Elapse, StopEngine, StartEngine, WorkerExits, GrantChanges, Event, samplerVars,
     keptVars, sampleVars, ownerVars, historyVars
<1> DEFINE Forwards ==
      /\ Counters' /\ now' >= now
      /\ Sampling => now' <= stamp + MaxLag
      /\ \A e \in Engines : base'[e] >= base[e] /\ base'[e] + gone'[e] >= base[e] + gone[e]
<1>2. Forwards
  <2>1. ASSUME NEW busy \in SUBSET Engines, Elapse(busy) PROVE Forwards
    BY <1>0, <2>1 DEF Elapse, Counters, Timed
  <2>2. ASSUME NEW e \in Engines, StopEngine(e) PROVE Forwards
    BY <1>0, <2>2 DEF StopEngine, Counters, Timed
  <2>3. ASSUME NEW e \in Engines, StartEngine(e) \/ GrantChanges(e) PROVE Forwards
    BY <1>0, <2>3 DEF StartEngine, GrantChanges, Counters, Timed
  <2>4. ASSUME NEW e \in Engines, WorkerExits(e) PROVE Forwards
    BY <1>0, <2>4 DEF WorkerExits, Jiffies, Counters, Timed
  <2> HIDE DEF Forwards
  <2>5. QED
    BY <2>1, <2>2, <2>3, <2>4
<1>3. ScalarsOK'
  <2>1. running' \in SUBSET Engines
    BY <1>0 DEF Elapse, StopEngine, StartEngine, WorkerExits, GrantChanges, ScalarsOK
  <2>2. socket' \in [Engines -> {"absent", "refusing", "answering"}]
    BY <1>0 DEF Elapse, StopEngine, StartEngine, WorkerExits, GrantChanges, ScalarsOK
  <2>3. events' \in 0..MaxEvents
    BY <1>0, <1>1 DEF ScalarsOK
  <2>4. QED
    BY <1>0, <1>1, <2>1, <2>2, <2>3 DEF ScalarsOK
<1>4. RememberedProc'
  BY <1>0, <1>1, <1>2 DEF RememberedProc, Counters
<1>5. RememberedDeep'
  BY <1>0, <1>1, <1>2 DEF RememberedDeep, Counters
<1>6. Aligned' /\ Timed'
  <2>1. now \in Nat /\ now' \in Nat /\ now' >= now
    BY <1>0, <1>2 DEF Counters
  <2>2. Aligned'
    <3>1. prevTotal' \in 0..now' /\ \A e \in Engines : since'[e] <= now'
      BY <1>0, <1>1, <2>1 DEF Aligned
    <3>2. QED
      BY <1>0, <1>1, <3>1 DEF Aligned
  <2>3. Timed'
    <3>1. stamp' \in 0..now' /\ total' \in 0..now'
      BY <1>0, <1>1, <2>1 DEF Timed
    <3>2. Sampling' => now' <= stamp' + MaxLag
      BY <1>1, <1>2 DEF Sampling
    <3>3. QED
      BY <1>0, <1>1, <3>1, <3>2 DEF Timed
  <2>4. QED
    BY <2>2, <2>3
<1>7. Scanned'
  <2>1. enabled \subseteq Engines
    BY <1>0 DEF ScalarsOK
  <2>2. QED
    BY <1>0, <1>1, <1>2, <2>1 DEF Scanned, Counters
<1>8. Followed' /\ Journal'
  BY <1>0, <1>1 DEF Followed, Journal
<1>9. NeverMoreThanTheWork' /\ OneWindow' /\ JournalIsCurrent'
  BY <1>0, <1>1, ReadingsUntouched
<1>10. QED
  BY <1>2, <1>3, <1>4, <1>5, <1>6, <1>7, <1>8, <1>9 DEF MetricsInv, Remembered

\* A switch leaves the settings and the owner in agreement about every engine but
\* those it damages.
LEMMA OwnerStep ==
    ASSUME MetricsInv, NEW e \in Engines, Change(e) \/ ChangeBlind(e)
    PROVE  MetricsInv'
<1>0. /\ Counters /\ ScalarsOK /\ Timed /\ RememberedProc /\ RememberedDeep /\ Scanned
      /\ Aligned /\ Followed /\ Journal /\ NeverMoreThanTheWork /\ OneWindow /\ JournalIsCurrent
  BY DEF MetricsInv, Remembered
<1>1. /\ UNCHANGED <<pc, enabled, prevTotal, prevProc, prevDeep, unreachable, stamp,
                     procs, total, todo, readings, now, socket, running, spent, base, gone, told, repeated, since>>
      /\ pending' = pending \cup {e}
      /\ switches < MaxSwitches /\ switches' = switches + 1
      /\ events' = events \/ (events < MaxEvents /\ events' = events + 1)
  BY DEF Change, ChangeBlind, EnableEngine, DisableEngine, Switch, Event, samplerVars,
     keptVars, sampleVars, machineVars
<1>2. \/ /\ setting' = setting \cup {e} /\ asked' = asked \cup {e}
         /\ damaged' = damaged \ {e}
      \/ /\ setting' = (IF e \in setting THEN setting \ {e} ELSE setting)
         /\ asked' = asked \ {e} /\ damaged' = damaged \ {e}
      \/ /\ setting' = {e} /\ asked' = asked \cup {e}
         /\ damaged' = (damaged \cup asked) \ {e}
      \/ /\ setting' = setting /\ asked' = asked \ {e} /\ damaged' = damaged \cup {e}
  BY DEF Change, ChangeBlind, EnableEngine, DisableEngine
<1>3. ScalarsOK'
  <2>1. switches' \in 0..MaxSwitches /\ events' \in 0..MaxEvents
    BY <1>0, <1>1, EngineMetricsAssumption DEF ScalarsOK
  <2>2. /\ setting' \in SUBSET Engines /\ asked' \in SUBSET Engines
        /\ damaged' \in SUBSET Engines /\ pending' \in SUBSET Engines
    BY <1>0, <1>1, <1>2 DEF ScalarsOK
  <2>3. QED
    BY <1>0, <1>1, <2>1, <2>2 DEF ScalarsOK
<1>4. Followed'
  <2>1. \A x \in Engines \ damaged' : x \in setting' <=> x \in asked'
    BY <1>0, <1>2 DEF Followed
  <2>2. ASSUME NEW x \in Engines \ (pending' \cup damaged')
        PROVE  x \in enabled <=> x \in asked'
    <3>1. x /= e /\ x \notin pending /\ x \notin damaged'
      BY <1>1
    <3>2. x \notin damaged
      BY <1>2, <3>1
    <3>3. x \in asked <=> x \in asked'
      BY <1>2, <3>1
    <3>4. QED
      BY <1>0, <3>1, <3>2, <3>3 DEF Followed
  <2>3. QED
    BY <1>0, <1>1, <2>1, <2>2 DEF Followed
<1>5. Counters' /\ RememberedProc' /\ RememberedDeep' /\ Scanned' /\ Journal'
  BY <1>0, <1>1 DEF Counters, RememberedProc, RememberedDeep, Scanned, Journal
<1>6. Aligned' /\ Timed'
  BY <1>0, <1>1 DEF Aligned, Timed, Sampling
<1>7. NeverMoreThanTheWork' /\ OneWindow' /\ JournalIsCurrent'
  BY <1>0, <1>1, ReadingsUntouched
<1>8. QED
  BY <1>3, <1>4, <1>5, <1>6, <1>7 DEF MetricsInv, Remembered

LEMMA AdoptStep ==
    ASSUME MetricsInv, ApplySetting \/ ApplySettingFails
    PROVE  MetricsInv'
<1>0. /\ Counters /\ ScalarsOK /\ Timed /\ RememberedProc /\ RememberedDeep /\ Scanned
      /\ Aligned /\ Followed /\ Journal /\ JournalIsCurrent
  BY DEF MetricsInv, Remembered
<1>1. PICK ids \in {setting, {}} :
        /\ enabled' = ids
        /\ since' = [e \in Engines |-> IF e \in ids \ enabled THEN now ELSE since[e]]
        /\ (ids = setting /\ pending' = {}) \/ pending' = Engines
  BY DEF ApplySetting, ApplySettingFails, Adopt, SetEnabled
<1>2. /\ UNCHANGED <<setting, prevTotal, prevProc, prevDeep, unreachable, stamp, procs,
                     total, todo, now, socket, running, spent, base, gone, told,
                     repeated, asked, damaged, switches>>
      /\ readings' = <<>> /\ pc = "apply" /\ pc' = "idle"
      /\ events' = events \/ (events < MaxEvents /\ events' = events + 1)
  BY DEF ApplySetting, ApplySettingFails, Adopt, Event, keptVars, sampleVars,
     machineVars
<1>3. DOMAIN readings' = {}
  BY <1>2
<1>4. ScalarsOK'
  <2>1. events' \in 0..MaxEvents
    BY <1>0, <1>2, EngineMetricsAssumption DEF ScalarsOK
  <2>2. enabled' \in SUBSET Engines /\ pending' \in SUBSET Engines
    BY <1>0, <1>1 DEF ScalarsOK
  <2>3. QED
    BY <1>0, <1>2, <2>1, <2>2 DEF ScalarsOK
<1>5. Aligned'
  <2>1. since' \in [Engines -> Nat] /\ \A e \in Engines : since'[e] <= now
    BY <1>0, <1>1 DEF Aligned, Counters
  <2>2. ASSUME prevTotal > 0, NEW e \in DOMAIN prevProc, e \in ids,
               prevProc[e].at >= since'[e]
        PROVE  prevProc[e].at = prevTotal
    <3>1. e \in Engines /\ prevProc[e].at \in 0..now /\ prevProc[e].at <= prevTotal
      BY <1>0, <1>2, <2>2 DEF RememberedProc, Aligned
    <3>2. CASE e \in enabled
      <4>1. since'[e] = since[e]
        BY <1>1, <3>1, <3>2
      <4>2. QED
        BY <1>0, <1>2, <2>2, <3>2, <4>1 DEF Aligned
    <3>3. CASE e \notin enabled
      <4>1. since'[e] = now
        BY <1>1, <2>2, <3>1, <3>3
      <4>2. now \in Nat /\ prevTotal \in 0..now
        BY <1>0 DEF Counters, Aligned
      <4>3. QED
        BY <2>2, <3>1, <4>1, <4>2
    <3>4. QED
      BY <3>2, <3>3
  <2>3. QED
    BY <1>0, <1>1, <1>2, <2>1, <2>2 DEF Aligned
<1>6. Followed'
  BY <1>0, <1>1, <1>2, <1>3 DEF Followed
<1>7. Counters' /\ RememberedProc' /\ RememberedDeep' /\ Journal'
  BY <1>0, <1>2 DEF Counters, RememberedProc, RememberedDeep, Journal
<1>8. Timed' /\ Scanned'
  BY <1>0, <1>2 DEF Timed, Sampling, Scanned
<1>9. NeverMoreThanTheWork' /\ OneWindow' /\ JournalIsCurrent'
  BY <1>0, <1>2, <1>3 DEF NeverMoreThanTheWork, OneWindow, JournalIsCurrent
<1>10. QED
  BY <1>4, <1>5, <1>6, <1>7, <1>8, <1>9 DEF MetricsInv, Remembered

LEMMA SampleNothingStep ==
    ASSUME MetricsInv, SampleNothing
    PROVE  MetricsInv'
<1>0. /\ Counters /\ ScalarsOK /\ Timed /\ RememberedProc /\ RememberedDeep /\ Scanned
      /\ Aligned /\ Followed /\ Journal /\ JournalIsCurrent
  BY DEF MetricsInv, Remembered
<1>1. /\ UNCHANGED <<setting, enabled, prevTotal, prevProc, prevDeep, unreachable, stamp,
                     procs, total, todo, now, socket, running, spent, base, gone, told,
                     repeated, since, asked, pending, damaged, switches, events>>
      /\ readings' = <<>> /\ pc = "idle" /\ pc' = "apply" /\ enabled = {}
  BY DEF SampleNothing, samplerVars, keptVars, sampleVars, machineVars, historyVars, ownerVars
<1>2. DOMAIN readings' = {}
  BY <1>1
<1>3. Counters' /\ ScalarsOK' /\ Followed' /\ Journal'
  BY <1>0, <1>1, <1>2 DEF Counters, ScalarsOK, Followed, Journal
<1>4. Timed' /\ Aligned' /\ Scanned'
  BY <1>0, <1>1 DEF Timed, Sampling, Aligned, Scanned
<1>5. RememberedProc' /\ RememberedDeep'
  BY <1>0, <1>1 DEF RememberedProc, RememberedDeep
<1>6. NeverMoreThanTheWork' /\ OneWindow' /\ JournalIsCurrent'
  BY <1>0, <1>1, <1>2 DEF NeverMoreThanTheWork, OneWindow, JournalIsCurrent
<1>7. QED
  BY <1>3, <1>4, <1>5, <1>6 DEF MetricsInv, Remembered

LEMMA BeginSampleStep ==
    ASSUME MetricsInv, BeginSample
    PROVE  MetricsInv'
<1>0. /\ Counters /\ ScalarsOK /\ Timed /\ RememberedProc /\ RememberedDeep /\ Scanned
      /\ Aligned /\ Followed /\ Journal
      /\ NeverMoreThanTheWork /\ OneWindow /\ JournalIsCurrent
  BY DEF MetricsInv, Remembered
<1>1. /\ UNCHANGED <<setting, enabled, prevTotal, prevProc, prevDeep, unreachable, procs,
                     total, todo, readings, now, socket, running, spent, base, gone, told,
                     repeated, since, asked, pending, damaged, switches, events>>
      /\ stamp' = now /\ pc = "idle" /\ pc' = "scan"
  BY DEF BeginSample, keptVars, machineVars, historyVars, ownerVars
<1>2. Counters' /\ ScalarsOK' /\ Followed' /\ Journal'
  BY <1>0, <1>1 DEF Counters, ScalarsOK, Followed, Journal
<1>3. Timed' /\ Aligned' /\ Scanned'
  BY <1>0, <1>1, EngineMetricsAssumption DEF Timed, Sampling, Aligned, Scanned, Counters
<1>4. RememberedProc' /\ RememberedDeep'
  BY <1>0, <1>1 DEF RememberedProc, RememberedDeep
<1>5. NeverMoreThanTheWork' /\ OneWindow' /\ JournalIsCurrent'
  BY <1>0, <1>1, ReadingsUntouched
<1>6. QED
  BY <1>2, <1>3, <1>4, <1>5 DEF MetricsInv, Remembered

\* The walk of /proc takes every count at the moment of the total.
LEMMA ScanStep ==
    ASSUME MetricsInv, Scan \/ ScanBlind
    PROVE  MetricsInv'
<1>0. /\ Counters /\ ScalarsOK /\ Timed /\ RememberedProc /\ RememberedDeep /\ Scanned
      /\ Aligned /\ Followed /\ Journal
      /\ NeverMoreThanTheWork /\ OneWindow /\ JournalIsCurrent
  BY DEF MetricsInv, Remembered
<1>1. /\ total' \in {now, 0}
      /\ events' = events \/ (events < MaxEvents /\ events' = events + 1)
      /\ UNCHANGED <<setting, enabled, prevTotal, prevProc, prevDeep, unreachable, stamp,
                     readings, now, socket, running, spent, base, gone, told, repeated,
                     since, asked, pending, damaged, switches>>
      /\ todo' = enabled /\ pc = "scan" /\ pc' = "visit"
      /\ procs' = [e \in enabled \cap running |->
                     [jiffies |-> Jiffies(e), spent |-> spent[e], at |-> now]]
  BY DEF Scan, ScanBlind, ScanProcesses, Event, keptVars, machineVars, ownerVars
<1>2. /\ enabled \subseteq Engines /\ now \in Nat /\ now <= MaxNow /\ MaxNow \in Nat
      /\ \A e \in Engines :
           /\ spent[e] \in Nat /\ base[e] \in Nat /\ gone[e] \in Nat
           /\ base[e] + gone[e] <= spent[e] /\ spent[e] <= now
  BY <1>0, EngineMetricsAssumption DEF ScalarsOK, Counters
<1>3. Scanned'
  <2>1. DOMAIN procs' = enabled \cap running
    BY <1>1
  <2>2. ASSUME NEW e \in DOMAIN procs'
        PROVE  /\ procs'[e].jiffies \in 0..MaxNow
               /\ procs'[e].spent \in Nat /\ procs'[e].at = now
               /\ procs'[e].spent - procs'[e].jiffies = base[e] + gone[e]
    <3>1. e \in Engines
      BY <1>2, <2>1
    <3>2. procs'[e] = [jiffies |-> Jiffies(e), spent |-> spent[e], at |-> now]
      BY <1>1, <2>1
    <3>3. Jiffies(e) \in 0..MaxNow /\ spent[e] - Jiffies(e) = base[e] + gone[e]
      BY <1>2, <3>1 DEF Jiffies
    <3>4. QED
      BY <1>2, <3>1, <3>2, <3>3
  <2>3. ASSUME NEW e \in DOMAIN prevProc
        PROVE  prevProc[e].spent - prevProc[e].jiffies <= base[e] + gone[e]
    BY <1>0 DEF RememberedProc
  <2>4. \A e \in DOMAIN procs' : base[e] + gone[e] \in Nat
    BY <1>2, <2>1
  <2>5. QED
    BY <1>1, <1>2, <2>1, <2>2, <2>3, <2>4 DEF Scanned
<1>4. ScalarsOK'
  <2>1. events' \in 0..MaxEvents
    BY <1>0, <1>1, EngineMetricsAssumption DEF ScalarsOK
  <2>2. QED
    BY <1>0, <1>1, <2>1 DEF ScalarsOK
<1>5. Counters' /\ Followed' /\ Journal'
  BY <1>0, <1>1 DEF Counters, Followed, Journal
<1>6. Timed'
  BY <1>0, <1>1, <1>2 DEF Timed, Sampling
<1>7. Aligned'
  BY <1>0, <1>1, <1>2 DEF Aligned, RememberedProc
<1>8. RememberedProc' /\ RememberedDeep'
  BY <1>0, <1>1 DEF RememberedProc, RememberedDeep
<1>9. NeverMoreThanTheWork' /\ OneWindow' /\ JournalIsCurrent'
  BY <1>0, <1>1, ReadingsUntouched
<1>10. QED
  BY <1>3, <1>4, <1>5, <1>6, <1>7, <1>8, <1>9 DEF MetricsInv, Remembered

\* A difference that is not negative loses nothing but whole words when it is cut
\* to a word.
LEMMA CutDifference ==
    ASSUME NEW a \in Int, NEW b \in Int, a >= b
    PROVE  (a - b) % WordSize \in Nat /\ (a - b) % WordSize <= a - b
<1>1. a - b \in Nat /\ WordSize \in Nat \ {0}
  BY EngineMetricsAssumption
<1> DEFINE d == a - b
<1>2. d \in Nat
  BY <1>1
<1> HIDE DEF d
<1>3. d % WordSize \in 0..(WordSize - 1)
  BY <1>1, <1>2
<1>4. d < WordSize => d % WordSize = d
  BY <1>1, <1>2
<1>5. d % WordSize \in Nat /\ d % WordSize <= d
  BY <1>1, <1>2, <1>3, <1>4
<1>6. QED
  BY <1>5 DEF d

\* A rate is made only of counters that went forwards, and then its work is at
\* least the difference.
LEMMA CpuIsHonest ==
    ASSUME Counters, Timed, RememberedProc, Scanned, Aligned, NEW e \in todo, CpuOf(e).seen
    PROVE  /\ CpuOf(e).delta <= CpuOf(e).truth.work
           /\ CpuOf(e).truth.from >= since[e]
                => CpuOf(e).over = CpuOf(e).truth.to - CpuOf(e).truth.from
<1>1. /\ e \in DOMAIN procs /\ e \in DOMAIN prevProc /\ prevTotal > 0 /\ total > prevTotal
      /\ procs[e].jiffies >= prevProc[e].jiffies
      /\ CpuOf(e) =
           Rate((procs[e].jiffies - prevProc[e].jiffies) % WordSize, total - prevTotal,
                [work |-> procs[e].spent - prevProc[e].spent,
                 from |-> prevProc[e].at, to |-> procs[e].at])
  BY DEF CpuOf, None
<1>2. /\ procs[e].jiffies \in Nat /\ procs[e].spent \in Nat
      /\ prevProc[e].jiffies \in Nat /\ prevProc[e].spent \in Nat
      /\ prevProc[e].spent - prevProc[e].jiffies <= procs[e].spent - procs[e].jiffies
  BY <1>1 DEF Scanned, RememberedProc
<1> DEFINE cut == (procs[e].jiffies - prevProc[e].jiffies) % WordSize
<1>3. cut \in Nat /\ cut <= procs[e].jiffies - prevProc[e].jiffies
  <2>1. procs[e].jiffies \in Int /\ prevProc[e].jiffies \in Int
    BY <1>2
  <2>2. QED
    BY <1>1, <2>1, CutDifference, Zenon
<1>4. cut <= procs[e].spent - prevProc[e].spent
  <2> HIDE DEF cut
  <2> QED
    BY <1>2, <1>3
<1> HIDE DEF cut
<1>5. /\ CpuOf(e).delta = cut
      /\ CpuOf(e).over = total - prevTotal
      /\ CpuOf(e).truth.work = procs[e].spent - prevProc[e].spent
      /\ CpuOf(e).truth.from = prevProc[e].at /\ CpuOf(e).truth.to = procs[e].at
  BY <1>1 DEF Rate, cut
<1>6. ASSUME prevProc[e].at >= since[e]
      PROVE  total - prevTotal = procs[e].at - prevProc[e].at
  <2>1. total > 0
    BY <1>1 DEF Timed, Aligned, Counters
  <2>2. procs[e].at = total
    BY <1>1, <2>1 DEF Scanned
  <2>3. e \in enabled
    BY DEF Timed
  <2>4. prevProc[e].at = prevTotal
    BY <1>1, <1>6, <2>3 DEF Aligned
  <2>5. QED
    BY <2>2, <2>4
<1>7. QED
  BY <1>4, <1>5, <1>6

\* Between the two readings of a counter passes the time between the stamps, up to
\* the lag of either.
LEMMA OpsIsHonest ==
    ASSUME Counters, Timed, RememberedDeep, NEW e \in Engines, NEW door, pc = "visit",
           OpsOf(e, door).seen
    PROVE  /\ OpsOf(e, door).delta <= OpsOf(e, door).truth.work
           /\ (OpsOf(e, door).truth.to - OpsOf(e, door).truth.from) - OpsOf(e, door).over
                \in -MaxLag..MaxLag
<1>1. /\ e \in DOMAIN prevDeep /\ Operations(e) >= prevDeep[e].ops
      /\ OpsOf(e, door) =
           Rate((Operations(e) - prevDeep[e].ops) % WordSize, stamp - prevDeep[e].at,
                [work |-> spent[e] - prevDeep[e].spent,
                 from |-> prevDeep[e].read, to |-> now])
  BY DEF OpsOf, None
<1>2. /\ spent[e] \in Nat /\ base[e] \in Nat
      /\ prevDeep[e].ops \in Nat /\ prevDeep[e].spent \in Nat
      /\ prevDeep[e].spent - prevDeep[e].ops <= base[e]
  BY <1>1 DEF Counters, RememberedDeep
<1>3. /\ Operations(e) \in Int
      /\ Operations(e) - prevDeep[e].ops <= spent[e] - prevDeep[e].spent
  BY <1>2 DEF Operations
<1> DEFINE cut == (Operations(e) - prevDeep[e].ops) % WordSize
<1>4. cut \in Nat /\ cut <= Operations(e) - prevDeep[e].ops
  <2>1. Operations(e) \in Int /\ prevDeep[e].ops \in Int
    BY <1>2, <1>3
  <2>2. QED
    BY <1>1, <2>1, CutDifference, Zenon
<1>5. cut <= spent[e] - prevDeep[e].spent
  <2> HIDE DEF cut
  <2> QED
    BY <1>2, <1>3, <1>4
<1> HIDE DEF cut
<1>6. /\ OpsOf(e, door).delta = cut
      /\ OpsOf(e, door).over = stamp - prevDeep[e].at
      /\ OpsOf(e, door).truth.work = spent[e] - prevDeep[e].spent
      /\ OpsOf(e, door).truth.from = prevDeep[e].read /\ OpsOf(e, door).truth.to = now
  BY <1>1 DEF Rate, cut
<1>7. (now - prevDeep[e].read) - (stamp - prevDeep[e].at) \in -MaxLag..MaxLag
  <2>1. /\ now \in Nat /\ stamp \in Nat /\ stamp <= now /\ now <= stamp + MaxLag
        /\ prevDeep[e].at \in Nat /\ prevDeep[e].read \in Nat
        /\ prevDeep[e].at <= prevDeep[e].read /\ prevDeep[e].read <= prevDeep[e].at + MaxLag
    BY <1>1 DEF Counters, Timed, Sampling, RememberedDeep
  <2>2. QED
    BY <2>1, EngineMetricsAssumption
<1>8. QED
  BY <1>5, <1>6, <1>7

\* One engine of the loop: its reading is honest by the two lemmas, its own
\* counters are renewed or deleted, and nothing of another engine changes.
LEMMA VisitStep ==
    ASSUME MetricsInv, NEW e \in Engines, VisitEngine(e) \/ VisitFails(e)
    PROVE  MetricsInv'
<1>0. /\ Counters /\ ScalarsOK /\ Timed /\ RememberedProc /\ RememberedDeep /\ Scanned
      /\ Aligned /\ Followed /\ Journal
      /\ NeverMoreThanTheWork /\ OneWindow /\ JournalIsCurrent
  BY DEF MetricsInv, Remembered
<1>1. PICK door \in {"absent", "refusing", "answering"} :
        /\ Visit(e, door)
        /\ events' = events \/ (events < MaxEvents /\ events' = events + 1)
  BY <1>0 DEF VisitEngine, VisitFails, Event, ScalarsOK
<1>2. /\ UNCHANGED <<setting, pc, enabled, prevTotal, stamp, procs, total, now, socket,
                     running, spent, base, gone, since, asked, pending, damaged, switches>>
      /\ pc = "visit" /\ e \in todo /\ todo' = todo \ {e}
      /\ KeepProc(e) /\ KeepDeep(e, door) /\ Notes(e, door)
      /\ readings' = [x \in DOMAIN readings \cup {e} |->
                        IF x = e THEN [cpu |-> CpuOf(e), ops |-> OpsOf(e, door),
                                       door |-> door, adopted |-> since[e]]
                        ELSE readings[x]]
  BY <1>1 DEF Visit, machineVars, ownerVars
<1>3. /\ e \in enabled /\ now \in Nat /\ now <= MaxNow /\ MaxNow \in Nat
      /\ spent[e] \in Nat /\ base[e] \in Nat /\ gone[e] \in Nat
      /\ base[e] + gone[e] <= spent[e] /\ spent[e] <= now
  BY <1>0, <1>2, EngineMetricsAssumption DEF Timed, Counters
<1>4. Counters'
  BY <1>0, <1>2 DEF Counters
<1>5. Timed'
  BY <1>0, <1>2 DEF Timed, Sampling
<1>6. /\ DOMAIN prevProc' = (DOMAIN prevProc \ {e}) \cup ({e} \cap DOMAIN procs)
      /\ \A x \in DOMAIN prevProc' :
           prevProc'[x] = IF x = e THEN procs[e] ELSE prevProc[x]
  BY <1>2 DEF KeepProc
<1>7. RememberedProc'
  <2>1. DOMAIN prevProc' \subseteq Engines
    BY <1>0, <1>6 DEF RememberedProc
  <2>2. ASSUME NEW x \in DOMAIN prevProc'
        PROVE  /\ prevProc'[x].jiffies \in 0..MaxNow
               /\ prevProc'[x].spent \in Nat /\ prevProc'[x].at \in 0..now
               /\ prevProc'[x].spent - prevProc'[x].jiffies <= base[x] + gone[x]
    <3>1. CASE x = e
      <4>1. e \in DOMAIN procs /\ prevProc'[x] = procs[e]
        BY <1>6, <3>1
      <4>2. QED
        BY <1>0, <3>1, <4>1 DEF Scanned
    <3>2. CASE x /= e
      <4>1. x \in DOMAIN prevProc /\ prevProc'[x] = prevProc[x]
        BY <1>6, <3>2
      <4>2. QED
        BY <1>0, <4>1 DEF RememberedProc
    <3>3. QED
      BY <3>1, <3>2
  <2>3. QED
    BY <1>2, <2>1, <2>2 DEF RememberedProc
<1>8. RememberedDeep'
  <2>1. /\ DOMAIN prevDeep' \subseteq DOMAIN prevDeep \cup {e}
        /\ door /= "answering" => DOMAIN prevDeep' \subseteq DOMAIN prevDeep
        /\ \A x \in DOMAIN prevDeep' :
             prevDeep'[x] = IF x = e /\ door = "answering"
                            THEN [ops |-> Operations(e), spent |-> spent[e], at |-> stamp,
                                  read |-> now]
                            ELSE prevDeep[x]
    BY <1>1, <1>2 DEF KeepDeep
  <2>2. DOMAIN prevDeep' \subseteq Engines
    BY <1>0, <2>1 DEF RememberedDeep
  <2>3. ASSUME NEW x \in DOMAIN prevDeep'
        PROVE  /\ prevDeep'[x].ops \in 0..MaxNow
               /\ prevDeep'[x].spent \in Nat
               /\ prevDeep'[x].at \in Nat /\ prevDeep'[x].read \in 0..now
               /\ prevDeep'[x].at <= prevDeep'[x].read
               /\ prevDeep'[x].read <= prevDeep'[x].at + MaxLag
               /\ prevDeep'[x].spent - prevDeep'[x].ops <= base[x]
    <3>1. CASE x = e /\ door = "answering"
      <4>1. prevDeep'[x] = [ops |-> Operations(e), spent |-> spent[e], at |-> stamp,
                            read |-> now]
        BY <2>1, <3>1
      <4>2. Operations(e) \in 0..MaxNow /\ spent[e] - Operations(e) <= base[e]
        BY <1>3 DEF Operations
      <4>3. stamp \in Nat /\ stamp <= now /\ now <= stamp + MaxLag
        BY <1>0, <1>2, <1>3 DEF Timed, Sampling
      <4>4. QED
        BY <1>3, <3>1, <4>1, <4>2, <4>3
    <3>2. CASE ~(x = e /\ door = "answering")
      <4>1. x \in DOMAIN prevDeep /\ prevDeep'[x] = prevDeep[x]
        BY <2>1, <3>2
      <4>2. QED
        BY <1>0, <4>1 DEF RememberedDeep
    <3>3. QED
      BY <3>1, <3>2
  <2>4. QED
    BY <1>2, <2>2, <2>3 DEF RememberedDeep
<1>9. Scanned'
  <2>1. ASSUME NEW x \in DOMAIN procs, x \in todo', x \in DOMAIN prevProc'
        PROVE  x \in todo /\ x \in DOMAIN prevProc /\ prevProc'[x] = prevProc[x]
    BY <1>2, <1>6, <2>1
  <2>2. QED
    BY <1>0, <1>2, <2>1 DEF Scanned
<1>10. Aligned'
  <2>1. ASSUME NEW x \in DOMAIN prevProc', x \in todo'
        PROVE  x \in todo /\ x \in DOMAIN prevProc /\ prevProc'[x] = prevProc[x]
    BY <1>2, <1>6, <2>1
  <2>2. ASSUME total > 0, NEW x \in DOMAIN prevProc'
        PROVE  /\ prevProc'[x].at <= total
               /\ x \in enabled \ todo' => prevProc'[x].at = total
    <3>1. CASE x = e
      <4>1. e \in DOMAIN procs /\ prevProc'[x] = procs[e]
        BY <1>6, <3>1
      <4>2. procs[e].at = total /\ procs[e].at \in 0..now
        BY <1>0, <2>2, <4>1 DEF Scanned
      <4>3. QED
        BY <1>3, <4>1, <4>2
    <3>2. CASE x /= e
      <4>1. x \in DOMAIN prevProc /\ prevProc'[x] = prevProc[x]
        BY <1>6, <3>2
      <4>2. QED
        BY <1>0, <1>2, <2>2, <3>2, <4>1 DEF Aligned
    <3>3. QED
      BY <3>1, <3>2
  <2>3. QED
    BY <1>0, <1>2, <2>1, <2>2 DEF Aligned
<1>11. /\ DOMAIN readings' = DOMAIN readings \cup {e}
       /\ readings'[e] = [cpu |-> CpuOf(e), ops |-> OpsOf(e, door), door |-> door,
                          adopted |-> since[e]]
       /\ \A x \in DOMAIN readings \ {e} : readings'[x] = readings[x]
  BY <1>2
<1>12. DOMAIN readings' = enabled \ todo'
  BY <1>0, <1>2, <1>3, <1>11 DEF Followed
<1>13. Followed'
  BY <1>0, <1>2, <1>12 DEF Followed
<1> DEFINE failing == {x \in {e} : door = "refusing"} \ unreachable
           back == {x \in {e} : door = "answering"} \cap unreachable
<1>14. failing \subseteq {e} /\ failing \cap told = {} /\ back \subseteq {e} /\ back \subseteq told
  BY <1>0 DEF Journal
<1>15. /\ told' = (told \cup failing) \ back /\ unreachable' = told'
       /\ repeated' = FALSE
  <2>1. told' = (told \cup failing) \ back
    BY <1>2 DEF Notes
  <2>2. unreachable' = told'
    BY <1>0, <1>2 DEF Notes, Journal
  <2>3. repeated' = (repeated \/ failing \cap told /= {} \/ back \ told /= {})
    BY <1>2 DEF Notes
  <2>4. ~repeated
    BY <1>0 DEF JournalIsCurrent
  <2>5. repeated' = FALSE
    BY <1>0, <1>14, <2>3, <2>4 DEF ScalarsOK
  <2>6. QED
    BY <2>1, <2>2, <2>5
<1>16. ScalarsOK' /\ Journal'
  <2>1. events' \in 0..MaxEvents
    BY <1>0, <1>1, EngineMetricsAssumption DEF ScalarsOK
  <2>2. told' \in SUBSET Engines
    BY <1>0, <1>14, <1>15 DEF ScalarsOK
  <2>3. repeated' \in BOOLEAN
    BY <1>15
  <2>4. QED
    BY <1>0, <1>2, <1>15, <2>1, <2>2, <2>3 DEF ScalarsOK, Journal
<1>17. NeverMoreThanTheWork'
  <2>1. ASSUME NEW r \in {CpuOf(e), OpsOf(e, door)}, r.seen
        PROVE  r.delta <= r.truth.work
    <3>1. CASE r = CpuOf(e)
      BY <1>0, <1>2, <2>1, <3>1, CpuIsHonest
    <3>2. CASE r = OpsOf(e, door)
      BY <1>0, <1>2, <2>1, <3>2, OpsIsHonest
    <3>3. QED
      BY <2>1, <3>1, <3>2
  <2>2. readings'[e].cpu = CpuOf(e) /\ readings'[e].ops = OpsOf(e, door)
    BY <1>11
  <2>3. QED
    BY <1>0, <1>11, <2>1, <2>2 DEF NeverMoreThanTheWork, Rates
<1>18. OneWindow'
  <2>1. /\ readings'[e].cpu = CpuOf(e) /\ readings'[e].ops = OpsOf(e, door)
        /\ readings'[e].adopted = since[e]
    BY <1>11
  <2>2. OpsOf(e, door).seen =>
          (OpsOf(e, door).truth.to - OpsOf(e, door).truth.from) - OpsOf(e, door).over
            \in -MaxLag..MaxLag
    BY <1>0, <1>2, OpsIsHonest
  <2>3. (CpuOf(e).seen /\ CpuOf(e).truth.from >= since[e])
          => CpuOf(e).over = CpuOf(e).truth.to - CpuOf(e).truth.from
    BY <1>0, <1>2, CpuIsHonest
  <2>4. QED
    BY <1>0, <1>11, <2>1, <2>2, <2>3 DEF OneWindow
<1>19. JournalIsCurrent'
  <2>1. /\ door = "refusing" => e \in told'
        /\ door = "answering" => e \notin told'
    BY <1>0, <1>15 DEF Journal
  <2>2. \A x \in DOMAIN readings \ {e} : x \in told <=> x \in told'
    BY <1>14, <1>15
  <2>3. readings'[e].door = door
    BY <1>11
  <2>4. QED
    BY <1>0, <1>11, <1>15, <2>1, <2>2, <2>3 DEF JournalIsCurrent
<1>20. QED
  BY <1>4, <1>5, <1>7, <1>8, <1>9, <1>10, <1>13, <1>16, <1>17, <1>18, <1>19
  DEF MetricsInv, Remembered

LEMMA EndSampleStep ==
    ASSUME MetricsInv, EndSample
    PROVE  MetricsInv'
<1>0. /\ Counters /\ ScalarsOK /\ Timed /\ RememberedProc /\ RememberedDeep /\ Scanned
      /\ Aligned /\ Followed /\ Journal
      /\ NeverMoreThanTheWork /\ OneWindow /\ JournalIsCurrent
  BY DEF MetricsInv, Remembered
<1>1. /\ UNCHANGED <<setting, enabled, prevProc, prevDeep, unreachable, todo, readings,
                     now, socket, running, spent, base, gone, told, repeated, since,
                     asked, pending, damaged, switches, events>>
      /\ prevTotal' = total /\ stamp' = 0 /\ procs' = <<>> /\ total' = 0
      /\ todo = {} /\ pc = "visit" /\ pc' = "apply"
  BY DEF EndSample, machineVars, historyVars, ownerVars
<1>2. DOMAIN procs' = {}
  BY <1>1
<1>3. Counters' /\ ScalarsOK' /\ Followed' /\ Journal'
  BY <1>0, <1>1 DEF Counters, ScalarsOK, Followed, Journal
<1>4. Timed' /\ Scanned'
  BY <1>0, <1>1, <1>2 DEF Timed, Sampling, Scanned, Counters
<1>5. Aligned'
  BY <1>0, <1>1 DEF Aligned, Timed
<1>6. RememberedProc' /\ RememberedDeep'
  BY <1>0, <1>1 DEF RememberedProc, RememberedDeep
<1>7. NeverMoreThanTheWork' /\ OneWindow' /\ JournalIsCurrent'
  BY <1>0, <1>1, ReadingsUntouched
<1>8. QED
  BY <1>3, <1>4, <1>5, <1>6, <1>7 DEF MetricsInv, Remembered

LEMMA InvStep == MetricsInv /\ [Next]_vars => MetricsInv'
<1> SUFFICES ASSUME MetricsInv, [Next]_vars PROVE MetricsInv'
  OBVIOUS
<1>1. CASE UNCHANGED vars
  <2>1. /\ Counters /\ ScalarsOK /\ Timed /\ RememberedProc /\ RememberedDeep /\ Scanned
        /\ Aligned /\ Followed /\ Journal
        /\ NeverMoreThanTheWork /\ OneWindow /\ JournalIsCurrent
    BY DEF MetricsInv, Remembered
  <2> USE <1>1 DEF vars, samplerVars, keptVars, sampleVars, machineVars, ownerVars, historyVars
  <2>2. Counters' /\ ScalarsOK' /\ RememberedProc' /\ RememberedDeep'
    BY <2>1 DEF Counters, ScalarsOK, RememberedProc, RememberedDeep
  <2>3. Timed' /\ Scanned' /\ Aligned' /\ Followed' /\ Journal'
    BY <2>1 DEF Timed, Sampling, Scanned, Aligned, Followed, Journal
  <2>4. NeverMoreThanTheWork' /\ OneWindow' /\ JournalIsCurrent'
    BY <2>1, ReadingsUntouched
  <2>5. QED
    BY <2>2, <2>3, <2>4 DEF MetricsInv, Remembered
<1>2. CASE Next
  BY <1>2, MachineStep, OwnerStep, AdoptStep, SampleNothingStep, BeginSampleStep, ScanStep,
     VisitStep, EndSampleStep
  DEF Next, TickStep
<1>3. QED
  BY <1>1, <1>2

LEMMA Invariance == Spec => []MetricsInv
  BY InvInit, InvStep, PTL DEF Spec

----------------------------------------------------------------------------
\* The sampler, the settings file, the machine and the journal are always well
\* typed; above all no engine is read that is not enabled (collect.go:60-86).
THEOREM TypeCorrect == Spec => []TypeOK
  BY Invariance, InvTyped, PTL

\* No rate ever claims more work than the engine did between the two visits it is
\* made of, whatever restarts, exits or stops answering meanwhile and whatever the
\* width of a counter (collect.go:114-118, 208-219).
THEOREM RatesNeverExceedTheWork == Spec => []NeverMoreThanTheWork
<1>1. MetricsInv => NeverMoreThanTheWork
  BY DEF MetricsInv
<1>2. QED
  BY Invariance, <1>1, PTL

\* The two differences of a rate span the same time: exactly for the share of the
\* processor, on every visit but the first after the engine was switched on again,
\* and up to the longest lag from stamp to reading for operations
\* (dbstat/collect.go:88-121, 157-177, 216).
THEOREM RatesSpanOneWindow == Spec => []OneWindow
<1>1. MetricsInv => OneWindow
  BY DEF MetricsInv
<1>2. QED
  BY Invariance, <1>1, PTL

\* The journal's last word on an engine is what its socket did at the last visit,
\* and it is said once (collect.go:55, 147-160).
THEOREM JournalStaysCurrent == Spec => []JournalIsCurrent
<1>1. MetricsInv => JournalIsCurrent
  BY DEF MetricsInv, Remembered
<1>2. QED
  BY Invariance, <1>1, PTL

\* A tick reads the engines the owner asked for, up to those a switch or a failed
\* read of the settings excuses (state.go:60-62, 117-119).
THEOREM WhatWasAskedIsRead == Spec => []ReadsWhatWasAsked
<1>1. MetricsInv => ReadsWhatWasAsked
  BY DEF MetricsInv, Remembered, Timed, Followed, ReadsWhatWasAsked
<1>2. QED
  BY Invariance, <1>1, PTL
============================================================================
