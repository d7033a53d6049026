---------------------------- MODULE SurveyProofs ----------------------------
(***************************************************************************)
(* Theorems about the survey, for every timeout, depth and bound.          *)
(***************************************************************************)
EXTENDS Survey, TLAPS, SequenceTheorems

----------------------------------------------------------------------------
(***************************************************************************)
(* The walk.  A report is judged by the whole tree, of which the walk has  *)
(* seen a part: WalkInv says which part (all of it as long as SkipAll was  *)
(* not returned, and then more entries were inside than are allowed), and  *)
(* that the newest time is that of a file it has seen.                     *)
(***************************************************************************)
SeenOK ==
    /\ seen \in [entries : 1..MaxEntries, files : Nat, newest : Nat, cut : BOOLEAN]
    /\ reach \in Nat /\ inside \in Nat
    /\ stamps \subseteq {1, Now, Now + Ahead}

Walked ==
    linked = Never =>
      /\ seen.files < seen.entries
      /\ seen.cut => inside > MaxEntries
      /\ ~seen.cut => seen.entries = inside /\ seen.files = reach
      /\ seen.newest \in stamps \cup {Never}
      /\ ~seen.cut => \A m \in stamps : m <= seen.newest

\* Of a link nothing is seen but the link.
LinkRead ==
    linked /= Never =>
      seen.files = 1 /\ seen.newest = IF linked <= Now + Ahead THEN linked ELSE Never

Report ==
    [readable |-> TRUE, files |-> seen.files,
     age |-> IF seen.files = 0 THEN NoAge ELSE AgeOf(seen.newest)]

Reported == IF scanning THEN found = Unlistable ELSE found \in {Unlistable, Report}

WalkInv == SeenOK /\ Walked /\ LinkRead /\ Reported

\* The larger of zero and a number.
LEMMA AtLeastZero ==
    ASSUME NEW x \in Int PROVE Max({0, x}) = IF x > 0 THEN x ELSE 0
<1> DEFINE m == IF x > 0 THEN x ELSE 0
<1>1. m \in {0, x} /\ \A y \in {0, x} : m >= y
  OBVIOUS
<1>2. \A z \in {0, x} : (\A y \in {0, x} : z >= y) => z = m
  BY <1>1
<1>3. QED
  BY <1>1, <1>2 DEF Max

\* The newest of some times.
LEMMA NewestStamp ==
    ASSUME SeenOK, stamps /= {}
    PROVE  Max(stamps) \in stamps /\ \A m \in stamps : Max(stamps) >= m
<1>1. Ahead \in Nat /\ Now = 2
  BY BackupSurveyAssumption DEF Now
<1>2. \E x \in stamps : \A y \in stamps : x >= y
  <2>1. CASE Now + Ahead \in stamps
    BY <1>1, <2>1 DEF SeenOK
  <2>2. CASE Now + Ahead \notin stamps /\ Now \in stamps
    BY <1>1, <2>2 DEF SeenOK
  <2>3. CASE Now + Ahead \notin stamps /\ Now \notin stamps
    <3>1. stamps \subseteq {1}
      BY <2>3 DEF SeenOK
    <3>2. PICK x : x \in stamps
      OBVIOUS
    <3>3. x = 1 /\ \A y \in stamps : y = 1
      BY <3>1, <3>2
    <3>4. QED
      BY <3>2, <3>3
  <2>4. QED
    BY <2>1, <2>2, <2>3
<1>3. QED
  BY <1>2 DEF Max

LEMMA WalkInvInit == WalkInit => WalkInv
  BY BackupSurveyAssumption
  DEF WalkInit, WalkInv, SeenOK, Walked, LinkRead, Reported, Fresh, Never, Now

LEMMA VisitStep ==
    ASSUME WalkInv, NEW e \in Entries, Visit(e)
    PROVE  WalkInv'
<1>0. SeenOK /\ Walked /\ Reported /\ scanning /\ linked = Never /\ linked' = Never
  BY DEF WalkInv, Visit
<1>1. /\ MaxEntries \in Nat \ {0} /\ Ahead \in Nat /\ MaxDepth \in Nat /\ Now = 2 /\ Never = 0
  BY BackupSurveyAssumption DEF Now, Never
<1>2. /\ seen.entries \in 1..MaxEntries /\ seen.files \in Nat /\ seen.newest \in Nat
      /\ seen.cut \in BOOLEAN /\ reach \in Nat /\ inside \in Nat
      /\ stamps \subseteq {1, Now, Now + Ahead}
  BY <1>0 DEF SeenOK
<1>3. /\ e.depth \in Nat
      /\ e.kind = "file" => e.mtime \in {1, Now, Now + Ahead, Now + Ahead + 1}
  BY <1>1 DEF Entries, Times
<1>4. Reported' /\ LinkRead'
  BY <1>0 DEF Visit, Reported, LinkRead
<1>5. CASE e.depth > MaxDepth
  <2>1. UNCHANGED <<seen, reach, stamps, inside>>
    BY <1>1, <1>2, <1>3, <1>5 DEF Visit, Seen
  <2>2. QED
    BY <1>0, <1>4, <2>1 DEF WalkInv, SeenOK, Walked
<1>6. CASE e.depth <= MaxDepth
  <2>1. inside' = inside + 1
    BY <1>2, <1>6 DEF Visit
  <2>2. /\ e.kind = "file" =>
             /\ reach' = reach + 1
             /\ stamps' = IF e.mtime <= Now + Ahead THEN stamps \cup {e.mtime} ELSE stamps
        /\ e.kind /= "file" => UNCHANGED <<reach, stamps>>
    BY <1>6 DEF Visit
  <2>3. stamps \subseteq stamps' /\ stamps' \subseteq {1, Now, Now + Ahead} /\ reach' \in Nat
    <3>1. stamps \subseteq stamps' /\ reach' \in Nat
      BY <1>2, <2>2
    <3>2. e.kind = "file" /\ e.mtime <= Now + Ahead => e.mtime \in {1, Now, Now + Ahead}
      BY <1>1, <1>3
    <3>3. stamps' \subseteq {1, Now, Now + Ahead}
      BY <1>2, <2>2, <3>2
    <3>4. QED
      BY <3>1, <3>3
  <2>4. CASE seen.cut \/ seen.entries >= MaxEntries
    <3>1. /\ seen'.cut = TRUE /\ seen'.entries = seen.entries /\ seen'.files = seen.files
          /\ seen'.newest = seen.newest
          /\ seen' \in [entries : 1..MaxEntries, files : Nat, newest : Nat, cut : BOOLEAN]
      <4>1. CASE seen.cut
        BY <1>0, <1>2, <4>1 DEF Visit, Seen, SeenOK
      <4>2. CASE ~seen.cut /\ seen.entries >= MaxEntries
        <5>1. seen' = [seen EXCEPT !.cut = TRUE]
          BY <1>1, <1>3, <1>6, <4>2 DEF Visit, Seen
        <5>2. QED
          BY <1>0, <5>1 DEF SeenOK
      <4>3. QED
        BY <2>4, <4>1, <4>2
    <3>2. inside' > MaxEntries
      BY <1>0, <1>1, <1>2, <2>1, <2>4 DEF Walked
    <3>3. SeenOK'
      BY <1>2, <2>1, <2>3, <3>1 DEF SeenOK
    <3>4. Walked'
      BY <1>0, <2>3, <3>1, <3>2 DEF Walked
    <3>5. QED
      BY <1>4, <3>3, <3>4 DEF WalkInv
  <2>5. CASE ~seen.cut /\ ~(seen.entries >= MaxEntries)
    <3> DEFINE new == e.kind = "file" /\ Newer(e.mtime, seen.newest)
    <3>1. seen' = [seen EXCEPT
                     !.entries = @ + 1,
                     !.files = @ + IF e.kind = "file" THEN 1 ELSE 0,
                     !.newest = IF e.kind = "file" /\ Newer(e.mtime, @) THEN e.mtime ELSE @]
      BY <1>1, <1>3, <1>6, <2>5 DEF Visit, Seen
    <3>2. /\ seen'.entries = seen.entries + 1
          /\ seen'.files = seen.files + IF e.kind = "file" THEN 1 ELSE 0
          /\ seen'.newest = IF new THEN e.mtime ELSE seen.newest
          /\ seen'.cut = seen.cut
          /\ seen' = [entries |-> seen'.entries, files |-> seen'.files,
                      newest |-> seen'.newest, cut |-> seen'.cut]
      BY <1>0, <3>1 DEF SeenOK
    <3>3. /\ new => e.mtime \in Nat /\ e.mtime \in stamps' /\ e.mtime > seen.newest
          /\ ~new /\ e.kind = "file" =>
               e.mtime > Now + Ahead \/ e.mtime <= seen.newest
      BY <1>1, <1>2, <1>3, <2>2 DEF Newer
    <3> HIDE DEF new
    <3>4. SeenOK'
      <4>1. /\ seen'.entries \in 1..MaxEntries /\ seen'.files \in Nat
            /\ seen'.newest \in Nat /\ seen'.cut \in BOOLEAN
        BY <1>1, <1>2, <2>5, <3>2, <3>3
      <4>2. QED
        BY <1>2, <2>1, <2>3, <3>2, <4>1 DEF SeenOK
    <3>5. \A m \in stamps' : m <= seen'.newest
      <4>1. ASSUME NEW m \in stamps' PROVE m <= seen'.newest
        <5>1. m \in Nat /\ seen.newest \in Nat /\ seen'.newest \in Nat
          BY <1>1, <1>2, <2>3, <3>2, <3>3
        <5>2. seen'.newest >= seen.newest
          BY <1>2, <3>2, <3>3
        <5>3. CASE m \in stamps
          BY <1>0, <2>5, <5>1, <5>2, <5>3 DEF Walked
        <5>4. CASE m \notin stamps
          <6>1. e.kind = "file" /\ m = e.mtime /\ m <= Now + Ahead
            BY <2>2, <5>4
          <6>2. QED
            BY <1>1, <3>2, <3>3, <5>1, <5>2, <6>1
        <5>5. QED
          BY <5>3, <5>4
      <4>2. QED
        BY <4>1
    <3>6. seen'.newest \in stamps' \cup {Never}
      BY <1>0, <2>3, <3>2, <3>3 DEF Walked
    <3>7. seen'.files < seen'.entries /\ seen'.entries = inside' /\ seen'.files = reach'
      BY <1>0, <1>2, <2>1, <2>2, <2>5, <3>2 DEF Walked
    <3>8. QED
      BY <1>4, <2>5, <3>2, <3>4, <3>5, <3>6, <3>7 DEF WalkInv, Walked
  <2>6. QED
    BY <2>4, <2>5
<1>7. QED
  BY <1>1, <1>3, <1>5, <1>6

LEMMA WalkStep == WalkInv /\ [WalkNext]_walkVars => WalkInv'
<1> SUFFICES ASSUME WalkInv, [WalkNext]_walkVars PROVE WalkInv'
  OBVIOUS
<1>1. ASSUME NEW readable \in BOOLEAN, BeginScan(readable) PROVE WalkInv'
  BY <1>1, BackupSurveyAssumption
  DEF BeginScan, Arrive, WalkInv, SeenOK, Walked, LinkRead, Reported, Fresh, Never, Now
<1>2. ASSUME NEW mtime \in Times, BeginLink(mtime) PROVE WalkInv'
  <2>1. /\ MaxEntries \in Nat \ {0} /\ Ahead \in Nat /\ Now = 2 /\ Never = 0
        /\ mtime \in Nat \ {0}
    BY BackupSurveyAssumption DEF Now, Never, Times
  <2> DEFINE newest == IF mtime <= Now + Ahead THEN mtime ELSE Never
  <2>2. seen' = [entries |-> 1, files |-> 1, newest |-> newest, cut |-> FALSE]
    <3>1. (IF Newer(mtime, Never) THEN mtime ELSE Never) = newest
      BY <2>1 DEF Newer
    <3> HIDE DEF newest
    <3>2. seen' = [Fresh EXCEPT !.files = 1, !.newest = newest]
      BY <1>2, <3>1 DEF BeginLink
    <3>3. QED
      BY <3>2 DEF Fresh
  <2>3. /\ linked' = mtime /\ scanning' = TRUE /\ found' = Unlistable
        /\ reach' = 0 /\ inside' = 1 /\ stamps' = {}
    BY <1>2 DEF BeginLink, Arrive
  <2>4. newest \in Nat /\ 1 \in 1..MaxEntries
    BY <2>1
  <2>5. SeenOK'
    BY <2>2, <2>3, <2>4 DEF SeenOK
  <2>6. Walked' /\ LinkRead' /\ Reported'
    BY <2>1, <2>2, <2>3 DEF Walked, LinkRead, Reported
  <2>7. QED
    BY <2>5, <2>6 DEF WalkInv
<1>3. CASE EndScan
  <2>1. /\ found' = Report /\ scanning' = FALSE
        /\ UNCHANGED <<seen, linked, reach, stamps, inside>>
    BY <1>3 DEF EndScan, Report
  <2>2. Report' = Report
    BY <2>1 DEF Report
  <2>3. QED
    BY <2>1, <2>2 DEF WalkInv, SeenOK, Walked, LinkRead, Reported
<1>4. CASE UNCHANGED walkVars
  BY <1>4 DEF walkVars, WalkInv, SeenOK, Walked, LinkRead, Reported, Report
<1>5. QED
  BY <1>1, <1>2, <1>3, <1>4, VisitStep DEF WalkNext

\* What is reported of a walk is true of the tree.
LEMMA ReportIsTrue == WalkInv => NeverFresherThanTheFiles
<1> SUFFICES ASSUME WalkInv, found.readable PROVE NeverFresherThanTheFiles
  BY DEF NeverFresherThanTheFiles
<1>0. SeenOK /\ Walked /\ LinkRead /\ Reported
  BY DEF WalkInv
<1>1. found = Report
  BY <1>0 DEF Reported, Unlistable
<1>2. CASE linked /= Never
  <2>1. seen.files = 1 /\ seen.newest = IF linked <= Now + Ahead THEN linked ELSE Never
    BY <1>0, <1>2 DEF LinkRead
  <2>2. found.files = seen.files /\ found.age = AgeOf(seen.newest)
    BY <1>1, <2>1 DEF Report
  <2>3. QED
    BY <1>2, <2>1, <2>2 DEF NeverFresherThanTheFiles
<1>3. CASE linked = Never
  <2>1. /\ MaxEntries \in Nat \ {0} /\ Ahead \in Nat /\ Now = 2 /\ Never = 0 /\ NoAge = -1
        /\ Forever = Ahead + 4
    BY BackupSurveyAssumption DEF Now, Never, NoAge, Forever
  <2>2. /\ seen.entries \in 1..MaxEntries /\ seen.files \in Nat /\ seen.newest \in Nat
        /\ seen.cut \in BOOLEAN /\ reach \in Nat /\ inside \in Nat
        /\ stamps \subseteq {1, Now, Now + Ahead}
    BY <1>0 DEF SeenOK
  <2> DEFINE since == Now - seen.newest
             age == IF seen.newest = Never THEN Forever ELSE Max({0, since})
  <2>3. /\ found.files = seen.files
        /\ found.age = IF seen.files = 0 THEN NoAge ELSE age
    BY <1>1 DEF Report, AgeOf
  <2>4. Max({0, since}) = IF since > 0 THEN since ELSE 0
    BY <2>1, <2>2, AtLeastZero
  <2>5. age \in Nat
    BY <2>1, <2>2, <2>4
  <2>6. CASE stamps = {}
    <3>1. age = Forever /\ TrueAge = Forever
      BY <1>0, <1>3, <2>6 DEF Walked, TrueAge, AgeOf, Never
    <3>2. QED
      BY <1>0, <1>3, <2>1, <2>2, <2>3, <2>5, <3>1 DEF NeverFresherThanTheFiles, Walked
  <2>7. CASE stamps /= {}
    <3> DEFINE top == Max(stamps)
    <3>1. top \in stamps /\ (\A m \in stamps : top >= m) /\ top \in Nat
      <4>1. top \in stamps /\ \A m \in stamps : top >= m
        BY <1>0, <1>3, <2>7, NewestStamp
      <4> HIDE DEF top
      <4>2. QED
        BY <2>1, <2>2, <4>1
    <3> HIDE DEF top
    <3>2. TrueAge = Max({0, Now - top})
      <4>1. top /= Never
        BY <2>1, <2>2, <3>1
      <4>2. QED
        BY <2>7, <4>1 DEF TrueAge, AgeOf, top
    <3>3. TrueAge = IF Now - top > 0 THEN Now - top ELSE 0
      BY <2>1, <3>1, <3>2, AtLeastZero
    <3>4. age >= TrueAge
      <4>1. CASE seen.newest = Never
        BY <2>1, <3>1, <3>3, <4>1
      <4>2. CASE seen.newest /= Never
        <5>1. seen.newest <= top
          BY <1>0, <1>3, <2>2, <3>1, <4>2 DEF Walked
        <5>2. QED
          BY <2>1, <2>2, <2>4, <3>1, <3>3, <4>2, <5>1
      <4>3. QED
        BY <4>1, <4>2
    <3>5. ~seen.cut => age = TrueAge
      <4>1. ~seen.cut => seen.newest = top /\ seen.newest /= Never
        <5>1. SUFFICES ASSUME ~seen.cut PROVE seen.newest = top /\ seen.newest /= Never
          OBVIOUS
        <5>2. top <= seen.newest /\ top > 0
          BY <1>0, <1>3, <2>1, <2>2, <3>1, <5>1 DEF Walked
        <5>3. seen.newest \in stamps
          BY <1>0, <1>3, <2>1, <2>2, <3>1, <5>2 DEF Walked
        <5>4. QED
          BY <2>1, <2>2, <3>1, <5>2, <5>3
      <4>2. QED
        BY <3>2, <4>1
    <3>6. QED
      BY <1>0, <1>3, <2>1, <2>2, <2>3, <2>5, <3>4, <3>5 DEF NeverFresherThanTheFiles, Walked
  <2>8. QED
    BY <2>6, <2>7
<1>4. QED
  BY <1>2, <1>3

LEMMA SurveyWalks == SurveyNext => [WalkNext]_walkVars
  BY DEF SurveyNext

\* No tree, however deep, however large and however its files are stamped, makes
\* backups look fresher than they are, and a survey that was not cut has the age
\* and the number of the files it could see; of a place that is a symbolic link
\* one file of the link's own age is reported (backupstat.go:61-62, 72, 98-140).
THEOREM BackupsNeverLookFresher == SurveySpec => []NeverFresherThanTheFiles
<1>1. SurveyInit => WalkInv
  BY WalkInvInit DEF SurveyInit
<1>2. WalkInv /\ [SurveyNext]_<<vars, walkVars>> => WalkInv'
  BY WalkStep, SurveyWalks
<1>3. QED
  BY <1>1, <1>2, ReportIsTrue, PTL DEF SurveySpec

----------------------------------------------------------------------------
(***************************************************************************)
(* The visit.  What the client will read is what has arrived followed by   *)
(* what the engine will still send (Stream).  Whatever the two do, and     *)
(* wherever the stream is cut off, it is a rest of one greeting (Greeted)  *)
(* or of one answer to the present question (Answering), but for the one   *)
(* case in which the wait for an answer was given up and the connection    *)
(* used on (Behindhand).                                                   *)
(***************************************************************************)
Stream == wire \o server

Behindhand == engine = "postgres" /\ errand = "deep" /\ at = 4 /\ "size" \in late

\* Only notices come before the message that ends a step of the greeting.
Greeted == \A i \in 1..Len(Stream) : Stream[i].kind /= "note" => i = Len(Stream)

Answering ==
    /\ rows \in {<<>>, <<Question>>}
    /\ queryErr => Question \in refused
    /\ Question \in refused => rows = <<>>
    /\ \A i \in 1..Len(Stream) :
         /\ Stream[i].of = Question
         /\ Stream[i].kind = "end" =>
              /\ i = Len(Stream)
              /\ i = 1 => queryErr \/ rows = <<Question>>
              /\ i > 1 => Stream[i - 1].kind \in {"row", "error"}
         /\ Stream[i].kind = "row" =>
              /\ rows = <<>> /\ Question \notin refused
              /\ \A j \in 1..Len(Stream) : j > i => Stream[j].kind = "end"
         /\ Stream[i].kind = "error" =>
              Question \in refused /\ (engine /= "postgres" => i = Len(Stream))

Connection ==
    /\ pc \in {"dial", "greet"} => at = 1
    /\ pc \in {"idle", "dial"} => wire = <<>> /\ server = <<>> /\ ~up
    /\ pc = "greet" => Greeted
    /\ pc = "ask" /\ up /\ ~Behindhand => Stream = <<>>
    /\ pc = "wait" /\ ~Behindhand => Answering
    /\ pc \in {"ask", "wait"} => \A i \in 1..Len(Stream) : Stream[i].of \in Topics
    /\ ~up => server = <<>>
    /\ \A i \in 1..Len(wire) :
         wire[i].kind = "end" /\ wire[i].of \in Topics => wire[i].of \in answered \cup refused

\* Nothing is on its way, or read, but answers to questions of this visit.
Put == {Asked[j] : j \in 1..Len(Asked)}

Pertinent ==
    /\ pc /= "idle" => \A i \in 1..Len(rows) : rows[i] \in Put
    /\ pc \in {"ask", "wait"} => \A i \in 1..Len(Stream) : Stream[i].of \in Put

\* What became of a question that is done with.
Settled(q) ==
    /\ q \notin Optional => figures[q] = q /\ q \in answered
    /\ up => figures[q] = q \/ q \in refused \cup late

Progress ==
    /\ pc /= "idle" => verdict = "none" /\ \A j \in 1..(at - 1) : Settled(Asked[j])
    /\ verdict = "ok" => \A q \in ToSet(Asked) \ Optional : q \in answered /\ figures[q] = q
    /\ \A q \in Topics : figures[q] \in {q, Absent} \/ (Overtaken(q) /\ figures[q] = "size")
    /\ pc /= "idle" => \A q \in refused : \E j \in 1..at : q = Asked[j]
    /\ pc \in {"dial", "greet", "ask"} => Question \notin refused

\* Each wait begins with a deadline of its own.
InTime ==
    /\ pc = "dial" => elapsed + left <= ProbeTimeout
    /\ pc = "greet" => elapsed + left <= 2 * ProbeTimeout
    /\ pc = "ask" => elapsed <= ProbeTimeout * (1 + at)
    /\ pc = "wait" => elapsed + left <= ProbeTimeout * (2 + at)
    /\ VisitIsBounded

\* The questions of a visit are a few different ones, and only the last, or the last
\* two of postgres, may go unanswered.
LEMMA QuestionsOfAVisit ==
    ASSUME NEW e \in Engines, NEW k \in Errands
    PROVE  /\ Questions(e, k) \in Seq(Topics) /\ Len(Questions(e, k)) \in 1..4
           /\ \A i, j \in 1..Len(Questions(e, k)) :
                Questions(e, k)[i] = Questions(e, k)[j] => i = j
           /\ \A i \in 1..Len(Questions(e, k)) :
                /\ Questions(e, k)[i] \in Topics
                /\ Questions(e, k)[i] \in Optional =>
                     k = "deep" /\ i > 1 /\ (i = Len(Questions(e, k)) \/ (e = "postgres" /\ i = 3))
           /\ e = "postgres" /\ k = "deep" =>
                /\ Len(Questions(e, k)) = 4
                /\ Questions(e, k)[3] = "size" /\ Questions(e, k)[4] = "longest"
<1>1. CASE k = "probe"
  BY <1>1 DEF Questions, Topics, Optional
<1>2. CASE k = "deep" /\ e = "postgres"
  <2>1. /\ Questions(e, k) \in Seq(Topics) /\ Len(Questions(e, k)) = 4
        /\ Questions(e, k)[1] = "activity" /\ Questions(e, k)[2] = "database"
        /\ Questions(e, k)[3] = "size" /\ Questions(e, k)[4] = "longest"
    BY <1>2 DEF Questions, Topics
  <2>2. 1..Len(Questions(e, k)) = {1, 2, 3, 4}
    BY <2>1
  <2>3. \A i, j \in 1..Len(Questions(e, k)) :
          Questions(e, k)[i] = Questions(e, k)[j] => i = j
    BY <2>1, <2>2
  <2>4. \A i \in 1..Len(Questions(e, k)) :
          Questions(e, k)[i] \in Optional => i = 3 \/ i = 4
    BY <2>1, <2>2 DEF Optional
  <2>5. \A i \in 1..Len(Questions(e, k)) : Questions(e, k)[i] \in Topics
    BY <2>1, <2>2 DEF Topics
  <2>6. QED
    BY <1>2, <2>1, <2>3, <2>4, <2>5
<1>3. CASE k = "deep" /\ e = "mysql"
  <2>1. /\ Questions(e, k) \in Seq(Topics) /\ Len(Questions(e, k)) = 3
        /\ Questions(e, k)[1] = "status" /\ Questions(e, k)[2] = "max"
        /\ Questions(e, k)[3] = "longest"
    BY <1>3 DEF Questions, Topics
  <2>2. 1..Len(Questions(e, k)) = {1, 2, 3}
    BY <2>1
  <2>3. \A i, j \in 1..Len(Questions(e, k)) :
          Questions(e, k)[i] = Questions(e, k)[j] => i = j
    BY <2>1, <2>2
  <2>4. \A i \in 1..Len(Questions(e, k)) : Questions(e, k)[i] \in Optional => i = 3
    BY <2>1, <2>2 DEF Optional
  <2>5. \A i \in 1..Len(Questions(e, k)) : Questions(e, k)[i] \in Topics
    BY <2>1, <2>2 DEF Topics
  <2>6. QED
    BY <1>3, <2>1, <2>3, <2>4, <2>5
<1>4. CASE k = "deep" /\ e = "redis"
  <2>1. /\ Questions(e, k) \in Seq(Topics) /\ Len(Questions(e, k)) = 1
        /\ Questions(e, k)[1] = "info"
    BY <1>4 DEF Questions, Topics
  <2>2. 1..Len(Questions(e, k)) = {1}
    BY <2>1
  <2>3. QED
    BY <1>4, <2>1, <2>2 DEF Topics, Optional
<1>5. QED
  BY <1>1, <1>2, <1>3, <1>4 DEF Engines, Errands

LEMMA SaysMessages ==
    ASSUME NEW q \in Topics \cup {Hello}, NEW a \in Seq(Kinds)
    PROVE  /\ Says(q, a) \in Seq(Messages) /\ Len(Says(q, a)) = Len(a)
           /\ \A i \in 1..Len(a) : Says(q, a)[i].of = q /\ Says(q, a)[i].kind = a[i]
<1>1. Len(a) \in Nat /\ \A i \in 1..Len(a) : a[i] \in Kinds
  OBVIOUS
<1>2. Says(q, a) \in [1..Len(a) -> Messages]
  BY <1>1 DEF Says, Messages
<1>3. Says(q, a) \in Seq(Messages) /\ Len(Says(q, a)) = Len(a)
  BY <1>1, <1>2
<1>4. QED
  BY <1>3 DEF Says

\* Notices, then one message.
LEMMA AfterNotices ==
    ASSUME NEW n \in Notices, NEW k \in Kinds
    PROVE  /\ n \o <<k>> \in Seq(Kinds)
           /\ \A i \in 1..Len(n \o <<k>>) : (n \o <<k>>)[i] /= "note" => i = Len(n \o <<k>>)
<1>1. PICK m \in 0..MaxNotices : n = [i \in 1..m |-> "note"]
  BY DEF Notices
<1>2. m \in Nat
  BY StatsSessionAssumption
<1>3. n \in Seq(Kinds) /\ Len(n) = m /\ \A i \in 1..m : n[i] = "note"
  BY <1>1, <1>2 DEF Kinds
<1>4. QED
  BY <1>2, <1>3

\* Each step of the greeting is notices and then one message at most.
LEMMA GreetingSteps ==
    ASSUME NEW e \in Engines, NEW w \in Welcomes(e) \cup Verdicts
    PROVE  /\ w \in Seq(Kinds)
           /\ \A i \in 1..Len(w) : w[i] /= "note" => i = Len(w)
<1>1. CASE \E n \in Notices : w = n \o <<"end">>
  BY <1>1, AfterNotices DEF Kinds
<1>2. CASE w \in {<<"password">>, <<"error">>, <<"greeting">>, <<"switch">>}
  <2>1. PICK k \in Kinds : w = <<k>>
    BY <1>2 DEF Kinds
  <2>2. QED
    BY <2>1
<1>3. CASE w = <<>>
  BY <1>3
<1>4. QED
  <2>1. CASE w \in Verdicts
    BY <1>1, <1>2, <2>1 DEF Verdicts
  <2>2. CASE w \in Welcomes(e)
    BY <1>1, <1>2, <1>3, <2>2 DEF Welcomes, Engines
  <2>3. QED
    BY <2>1, <2>2

\* An answer is notices, a row and the end.
LEMMA AnswerOf ==
    ASSUME NEW e \in Engines, NEW a \in Answers(e)
    PROVE  \E m \in Nat :
             /\ a \in Seq(Kinds) /\ Len(a) = m + 2
             /\ \A i \in 1..m : a[i] = "note"
             /\ a[m + 1] = "row" /\ a[m + 2] = "end"
<1>1. PICK n \in Notices \cup {<<>>} : a = n \o <<"row", "end">>
  BY DEF Answers
<1>2. PICK m \in Nat : n \in Seq(Kinds) /\ Len(n) = m /\ \A i \in 1..m : n[i] = "note"
  <2>1. CASE n = <<>>
    BY <2>1
  <2>2. CASE n \in Notices
    <3>1. PICK m \in 0..MaxNotices : n = [i \in 1..m |-> "note"]
      BY <2>2 DEF Notices
    <3>2. m \in Nat
      BY StatsSessionAssumption
    <3>3. n \in Seq(Kinds) /\ Len(n) = m /\ \A i \in 1..m : n[i] = "note"
      BY <3>1, <3>2 DEF Kinds
    <3>4. QED
      BY <3>2, <3>3
  <2>3. QED
    BY <2>1, <2>2
<1>3. <<"row", "end">> \in Seq(Kinds)
  BY DEF Kinds
<1>4. QED
  BY <1>1, <1>2, <1>3

LEMMA RefusalOf ==
    ASSUME NEW e \in Engines
    PROVE  /\ Refusal(e) \in Seq(Kinds) /\ Refusal(e)[1] = "error"
           /\ e = "postgres" => Len(Refusal(e)) = 2 /\ Refusal(e)[2] = "end"
           /\ e /= "postgres" => Len(Refusal(e)) = 1
<1>1. <<"error", "end">> \in Seq(Kinds) /\ <<"error">> \in Seq(Kinds)
  BY DEF Kinds
<1>2. CASE e = "postgres"
  BY <1>1, <1>2 DEF Refusal
<1>3. CASE e /= "postgres"
  BY <1>1, <1>3 DEF Refusal
<1>4. QED
  BY <1>2, <1>3

\* What passes between the ends of the stream.
LEMMA SendingKeepsTheStream ==
    ASSUME NEW M, NEW w \in Seq(M), NEW s \in Seq(M), s /= <<>>
    PROVE  /\ Append(w, Head(s)) \o Tail(s) = w \o s
           /\ Append(w, Head(s)) \in Seq(M) /\ Tail(s) \in Seq(M) /\ Head(s) \in M
<1>1. /\ Len(s) \in Nat \ {0} /\ Head(s) \in M /\ Tail(s) \in Seq(M)
      /\ Len(Tail(s)) = Len(s) - 1 /\ \A i \in 1..Len(s) - 1 : Tail(s)[i] = s[i + 1]
      /\ Head(s) = s[1]
  BY EmptySeq, LenProperties, HeadTailProperties
<1>2. /\ Append(w, Head(s)) \in Seq(M) /\ Len(Append(w, Head(s))) = Len(w) + 1
      /\ \A i \in 1..Len(w) : Append(w, Head(s))[i] = w[i]
      /\ Append(w, Head(s))[Len(w) + 1] = s[1]
  BY <1>1, AppendProperties
<1>3. Append(w, Head(s)) \o Tail(s) \in Seq(M) /\ w \o s \in Seq(M)
  BY <1>1, <1>2
<1>4. Len(Append(w, Head(s)) \o Tail(s)) = Len(w \o s)
  BY <1>1, <1>2
<1>5. \A i \in 1..Len(w \o s) : (Append(w, Head(s)) \o Tail(s))[i] = (w \o s)[i]
  BY <1>1, <1>2
<1>6. QED
  BY <1>1, <1>2, <1>3, <1>4, <1>5, SeqEqual

LEMMA ReadingTheStream ==
    ASSUME NEW M, NEW w \in Seq(M), NEW s \in Seq(M), w /= <<>>
    PROVE  /\ Tail(w) \in Seq(M) /\ Head(w) \in M /\ Tail(w) \o s \in Seq(M)
           /\ Len(Tail(w) \o s) = Len(w \o s) - 1 /\ Len(w \o s) \in Nat \ {0}
           /\ Head(w) = (w \o s)[1] /\ Head(w) = w[1]
           /\ \A i \in 1..Len(Tail(w) \o s) : (Tail(w) \o s)[i] = (w \o s)[i + 1]
           /\ Len(Tail(w)) = Len(w) - 1 /\ \A i \in 1..Len(Tail(w)) : Tail(w)[i] = w[i + 1]
<1>1. /\ Len(w) \in Nat \ {0} /\ Head(w) \in M /\ Tail(w) \in Seq(M)
      /\ Len(Tail(w)) = Len(w) - 1 /\ \A i \in 1..Len(w) - 1 : Tail(w)[i] = w[i + 1]
      /\ Head(w) = w[1]
  BY EmptySeq, LenProperties, HeadTailProperties
<1>2. QED
  BY <1>1

\* How a query leaves the visit: at its end, or at the next question.
Over == pc' = "idle" /\ at' = at /\ wire' = <<>> /\ server' = <<>> /\ up' = FALSE
GoesOn(rest) ==
    /\ at < Len(Asked) /\ at' = at + 1 /\ pc' = "ask" /\ wire' = rest
    /\ UNCHANGED <<verdict, server, up>>

\* The facts about the present question.
LEMMA PresentQuestion ==
    ASSUME TypeOK
    PROVE  /\ Asked \in Seq(Topics) /\ Len(Asked) \in 1..4 /\ at \in 1..Len(Asked)
           /\ Question \in Topics /\ Question = Asked[at]
           /\ \A i, j \in 1..Len(Asked) : Asked[i] = Asked[j] => i = j
           /\ \A i \in 1..Len(Asked) : Asked[i] \in Topics
           /\ \A i \in 1..Len(Asked) : Asked[i] \in Optional =>
                 errand = "deep" /\ i > 1 /\ (i = Len(Asked) \/ (engine = "postgres" /\ i = 3))
           /\ engine = "postgres" /\ errand = "deep" =>
                Len(Asked) = 4 /\ Asked[3] = "size" /\ Asked[4] = "longest"
<1>1. engine \in Engines /\ errand \in Errands /\ at \in 1..Len(Asked)
  BY DEF TypeOK
<1> DEFINE Q == Questions(engine, errand)
<1>2. Asked = Q /\ Question = Asked[at]
  BY DEF Asked, Question
<1>3. /\ Q \in Seq(Topics) /\ Len(Q) \in 1..4
      /\ \A i, j \in 1..Len(Q) : Q[i] = Q[j] => i = j
      /\ \A i \in 1..Len(Q) :
           /\ Q[i] \in Topics
           /\ Q[i] \in Optional =>
                errand = "deep" /\ i > 1 /\ (i = Len(Q) \/ (engine = "postgres" /\ i = 3))
      /\ engine = "postgres" /\ errand = "deep" =>
           Len(Q) = 4 /\ Q[3] = "size" /\ Q[4] = "longest"
  BY <1>1, QuestionsOfAVisit
<1> HIDE DEF Q
<1>4. QED
  BY <1>1, <1>2, <1>3

\* What a query that returned has done.
LEMMA QueryReturns ==
    ASSUME TypeOK, NEW rest, QueryFails(rest) \/ QuerySucceeds(rest)
    PROVE  /\ (Over /\ verdict' \in {"ok", "failed"}) \/ GoesOn(rest)
           /\ \/ figures' = figures
              \/ Len(rows) = 1 /\ figures' = [figures EXCEPT ![Question] = rows[1]]
<1>1. at \in 1..Len(Asked) /\ Len(Asked) \in 1..4
  BY PresentQuestion
<1>2. Fails => Over /\ verdict' = "failed" /\ figures' = figures
  BY DEF Fails, Finish, Over
<1>3. MoveOn(rest) => (Over /\ verdict' = "ok") \/ GoesOn(rest)
  BY <1>1 DEF MoveOn, Finish, Over, GoesOn
<1>4. CASE QueryFails(rest)
  BY <1>2, <1>3, <1>4 DEF QueryFails
<1>5. CASE QuerySucceeds(rest)
  BY <1>2, <1>3, <1>5 DEF QuerySucceeds, Fits
<1>6. QED
  BY <1>4, <1>5

LEMMA QueryReturnsTyped ==
    ASSUME TypeOK, NEW rest \in Seq(Messages), QueryFails(rest) \/ QuerySucceeds(rest),
           UNCHANGED <<engine, errand>>
    PROVE  /\ pc' \in {"idle", "dial", "greet", "ask", "wait"}
           /\ at' \in 1..Len(Asked')
           /\ figures' \in [Topics -> Topics \cup {Absent}]
           /\ verdict' \in {"none", "ok", "failed"}
           /\ server' \in Seq(Messages) /\ wire' \in Seq(Messages) /\ up' \in BOOLEAN
<1>1. Asked' = Asked
  BY DEF Asked
<1>2. Len(Asked) \in 1..4 /\ at \in 1..Len(Asked) /\ Question \in Topics
  BY PresentQuestion
<1>3. figures' \in [Topics -> Topics \cup {Absent}]
  BY <1>2, QueryReturns DEF TypeOK
<1>4. CASE Over /\ verdict' \in {"ok", "failed"}
  <2>1. <<>> \in Seq(Messages)
    OBVIOUS
  <2>2. QED
    BY <1>1, <1>2, <1>3, <1>4, <2>1 DEF Over
<1>5. CASE GoesOn(rest)
  BY <1>1, <1>2, <1>3, <1>5 DEF GoesOn, TypeOK
<1>6. QED
  BY <1>4, <1>5, QueryReturns

LEMMA VisitTyped ==
    ASSUME TypeOK, Connection, Next PROVE TypeOK'
<1>0. ProbeTimeout \in Nat \ {0} /\ <<>> \in Seq(Messages)
  BY StatsSessionAssumption
<1>1. ASSUME NEW e \in Engines, NEW k \in Errands, Begin(e, k) PROVE TypeOK'
  <2>1. Asked' = Questions(e, k) /\ Len(Questions(e, k)) \in 1..4
    BY <1>1, QuestionsOfAVisit DEF Begin, Asked
  <2>2. at' \in 1..Len(Asked') /\ rows' \in Seq(Topics)
    BY <1>1, <2>1 DEF Begin
  <2>3. figures' \in [Topics -> Topics \cup {Absent}]
    BY <1>1 DEF Begin, NoFigures
  <2>4. left' \in 0..ProbeTimeout
    BY <1>0, <1>1 DEF Begin
  <2>5. QED
    BY <1>1, <2>2, <2>3, <2>4 DEF Begin, TypeOK, serverVars
<1>2. CASE DialSucceeds
  <2>1. PICK w \in Welcomes(engine) : server' = Says(Hello, w)
    BY <1>2 DEF DialSucceeds
  <2>2. w \in Seq(Kinds)
    BY GreetingSteps DEF TypeOK
  <2>3. server' \in Seq(Messages)
    BY <2>1, <2>2, SaysMessages
  <2>4. QED
    BY <1>0, <1>2, <2>3 DEF DialSucceeds, TypeOK, Asked, historyVars
<1>3. CASE DialFails
  BY <1>0, <1>3 DEF DialFails, Fails, Finish, TypeOK, Asked, historyVars
<1>4. CASE ReadGreeting
  <2>1. wire /= <<>> /\ Tail(wire) \in Seq(Messages)
    BY <1>4, ReadingTheStream DEF ReadGreeting, CanRead, TypeOK
  <2>2. \A v \in Verdicts : server \o Says(Hello, v) \in Seq(Messages)
    <3>1. ASSUME NEW v \in Verdicts PROVE Says(Hello, v) \in Seq(Messages)
      BY GreetingSteps, SaysMessages DEF TypeOK
    <3>2. QED
      BY <3>1 DEF TypeOK
  <2>3. /\ wire' \in Seq(Messages) /\ server' \in Seq(Messages) /\ up' \in BOOLEAN
        /\ pc' \in {"idle", "dial", "greet", "ask", "wait"}
        /\ UNCHANGED <<at, figures>> /\ verdict' \in {"none", "ok", "failed"}
    BY <1>0, <1>4, <2>1, <2>2 DEF ReadGreeting, Fails, Finish, TypeOK
  <2>4. UNCHANGED <<engine, errand, left, rows, queryErr, elapsed, refused, late, answered>>
    BY <1>4 DEF ReadGreeting, historyVars
  <2>5. QED
    BY <2>3, <2>4 DEF TypeOK, Asked
<1>5. CASE GreetingFails
  BY <1>0, <1>5 DEF GreetingFails, Fails, Finish, TypeOK, Asked, historyVars
<1>6. CASE Ask
  <2>1. Question \in Topics
    BY PresentQuestion
  <2>2. \A a \in Answers(engine) : a \in Seq(Kinds)
    BY AnswerOf DEF TypeOK
  <2>3. Refusal(engine) \in Seq(Kinds)
    BY RefusalOf DEF TypeOK
  <2>4. server' \in Seq(Messages)
    <3>1. PICK a \in Seq(Kinds) : server' = server \o Says(Question, a)
      BY <1>6, <2>2, <2>3 DEF Ask
    <3>2. Says(Question, a) \in Seq(Messages)
      BY <2>1, SaysMessages
    <3>3. QED
      BY <3>1, <3>2 DEF TypeOK
  <2>5. refused' \in SUBSET Topics
    BY <1>6, <2>1 DEF Ask, TypeOK
  <2>6. rows' \in Seq(Topics)
    BY <1>6 DEF Ask
  <2>7. left' \in 0..ProbeTimeout
    BY <1>0, <1>6 DEF Ask
  <2>8. UNCHANGED <<engine, errand, at, figures, verdict, wire, up, elapsed, late, answered>>
        /\ pc' = "wait" /\ queryErr' = FALSE
    BY <1>6 DEF Ask
  <2>9. QED
    BY <2>4, <2>5, <2>6, <2>7, <2>8 DEF TypeOK, Asked
<1>7. CASE AskFails
  <2>1. UNCHANGED <<engine, errand, rows, queryErr, elapsed, refused, late, answered>>
        /\ left' = ProbeTimeout /\ QueryFails(wire) /\ wire \in Seq(Messages)
    BY <1>7 DEF AskFails, historyVars, TypeOK
  <2>2. QED
    BY <1>0, <2>1, QueryReturnsTyped DEF TypeOK
<1>8. CASE ReadMore
  <2>1. wire /= <<>> /\ wire \in Seq(Messages) /\ server \in Seq(Messages)
    BY <1>8 DEF ReadMore, CanRead, TypeOK
  <2>2. Tail(wire) \in Seq(Messages) /\ Head(wire) = Stream[1] /\ Len(Stream) \in Nat \ {0}
    BY <2>1, ReadingTheStream DEF Stream
  <2>3. Head(wire).of \in Topics
    BY <1>8, <2>2 DEF ReadMore, Connection
  <2>4. rows' \in Seq(Topics)
    BY <1>8, <2>3 DEF ReadMore, TypeOK
  <2>5. queryErr' \in BOOLEAN
    BY <1>8 DEF ReadMore, TypeOK
  <2>6. QED
    BY <1>8, <2>2, <2>4, <2>5 DEF ReadMore, DeadlineAfterMessage, TypeOK, Asked, historyVars
<1>9. CASE ReadLast
  <2>1. Tail(wire) \in Seq(Messages)
    BY <1>9, ReadingTheStream DEF ReadLast, CanRead, TypeOK
  <2>2. UNCHANGED <<engine, errand, left, rows, queryErr, elapsed, refused, late, answered>>
        /\ (QueryFails(Tail(wire)) \/ QuerySucceeds(Tail(wire)))
    BY <1>9 DEF ReadLast, historyVars
  <2>3. QED
    BY <2>1, <2>2, QueryReturnsTyped DEF TypeOK
<1>10. CASE WaitFails
  <2>1. UNCHANGED <<engine, errand, left, rows, queryErr, elapsed, refused, answered>>
        /\ QueryFails(wire) /\ wire \in Seq(Messages)
    BY <1>10 DEF WaitFails, TypeOK
  <2>2. late' \in SUBSET Topics
    BY <1>10, PresentQuestion DEF WaitFails, TypeOK
  <2>3. QED
    BY <2>1, <2>2, QueryReturnsTyped DEF TypeOK
<1>11. CASE Tick
  BY <1>0, <1>11 DEF Tick, TypeOK, Asked, serverVars
<1>12. CASE ServerSends
  <2>1. /\ wire' \in Seq(Messages) /\ server' \in Seq(Messages)
        /\ Head(server) \in Messages
    BY <1>12, SendingKeepsTheStream DEF ServerSends, TypeOK
  <2>2. answered' \in SUBSET Topics
    BY <1>12 DEF ServerSends, TypeOK
  <2>3. QED
    BY <1>12, <2>1, <2>2 DEF ServerSends, TypeOK, Asked, clientVars
<1>13. CASE ServerCloses
  <2>1. server' \in Seq(Messages)
    BY <1>13 DEF ServerCloses
  <2>2. QED
    BY <1>13, <2>1 DEF ServerCloses, TypeOK, Asked, clientVars, historyVars
<1>14. QED
  BY <1>1, <1>2, <1>3, <1>4, <1>5, <1>6, <1>7, <1>8, <1>9, <1>10, <1>11, <1>12, <1>13
  DEF Next, ClientStep

\* Up to four questions are a few waits.
LEMMA Waits ==
    ASSUME NEW n \in 1..4, NEW m \in 1..n
    PROVE  /\ ProbeTimeout * (1 + m) \in Nat /\ ProbeTimeout * (2 + n) \in Nat
           /\ ProbeTimeout * (2 + m) = ProbeTimeout * (1 + m) + ProbeTimeout
           /\ 2 * ProbeTimeout <= ProbeTimeout * (1 + m)
           /\ ProbeTimeout * (2 + m) <= ProbeTimeout * (2 + n)
<1>1. ProbeTimeout \in Nat
  BY StatsSessionAssumption
<1>2. /\ ProbeTimeout * 2 = ProbeTimeout + ProbeTimeout
      /\ ProbeTimeout * 3 = ProbeTimeout + ProbeTimeout + ProbeTimeout
      /\ ProbeTimeout * 4 = ProbeTimeout + ProbeTimeout + ProbeTimeout + ProbeTimeout
      /\ ProbeTimeout * 5 =
           ProbeTimeout + ProbeTimeout + ProbeTimeout + ProbeTimeout + ProbeTimeout
      /\ ProbeTimeout * 6 =
           ProbeTimeout + ProbeTimeout + ProbeTimeout + ProbeTimeout + ProbeTimeout + ProbeTimeout
      /\ 2 * ProbeTimeout = ProbeTimeout + ProbeTimeout
  BY <1>1
<1>3. \A k \in 1..4 : \/ k = 1 /\ 1 + k = 2 /\ 2 + k = 3
                      \/ k = 2 /\ 1 + k = 3 /\ 2 + k = 4
                      \/ k = 3 /\ 1 + k = 4 /\ 2 + k = 5
                      \/ k = 4 /\ 1 + k = 5 /\ 2 + k = 6
  OBVIOUS
<1>4. m \in 1..4 /\ n \in 1..4 /\ m <= n
  OBVIOUS
<1>5. QED
  BY <1>1, <1>2, <1>3, <1>4

LEMMA VisitInTime ==
    ASSUME TypeOK, Connection, InTime, Next PROVE InTime'
<1>0. /\ ProbeTimeout \in Nat \ {0} /\ elapsed \in Nat /\ left \in 0..ProbeTimeout
      /\ Len(Asked) \in 1..4 /\ at \in 1..Len(Asked)
  BY StatsSessionAssumption, PresentQuestion DEF TypeOK
<1> DEFINE A == ProbeTimeout * (1 + at)
           B == ProbeTimeout * (2 + at)
           C == ProbeTimeout * (2 + Len(Asked))
<1>1. /\ A \in Nat /\ B \in Nat /\ C \in Nat /\ B = A + ProbeTimeout
      /\ 2 * ProbeTimeout <= A /\ B <= C
  BY <1>0, Waits
<1>2. /\ pc = "dial" => elapsed + left <= ProbeTimeout
      /\ pc = "greet" => elapsed + left <= 2 * ProbeTimeout
      /\ pc = "ask" => elapsed <= A
      /\ pc = "wait" => elapsed + left <= B
      /\ elapsed <= C
  BY DEF InTime, VisitIsBounded
<1>3. /\ pc = "dial" => at = 1 /\ A = 2 * ProbeTimeout
      /\ pc = "greet" => at = 1 /\ A = 2 * ProbeTimeout
  BY <1>0 DEF Connection
<1>4. ASSUME NEW e \in Engines, NEW k \in Errands, Begin(e, k) PROVE InTime'
  <2>1. Asked' = Questions(e, k) /\ Len(Questions(e, k)) \in 1..4
    BY <1>4, QuestionsOfAVisit DEF Begin, Asked
  <2>2. ProbeTimeout * (2 + Len(Asked')) \in Nat
    <3>1. Len(Asked') \in 1..4 /\ 1 \in 1..Len(Asked')
      BY <2>1
    <3>2. QED
      BY <3>1, Waits
  <2>3. elapsed' = 0 /\ left' = ProbeTimeout /\ pc' = "dial"
    BY <1>4 DEF Begin
  <2>4. VisitIsBounded'
    BY <2>2, <2>3 DEF VisitIsBounded
  <2>5. QED
    BY <1>0, <2>3, <2>4 DEF InTime
\* A step that keeps to the visit.
<1>5. ASSUME UNCHANGED <<engine, errand>>, elapsed' <= C,
             pc' = "dial" => elapsed' + left' <= ProbeTimeout,
             pc' = "greet" => elapsed' + left' <= 2 * ProbeTimeout,
             pc' = "ask" => elapsed' <= ProbeTimeout * (1 + at'),
             pc' = "wait" => elapsed' + left' <= ProbeTimeout * (2 + at')
      PROVE  InTime'
  <2>1. Asked' = Asked
    BY <1>5 DEF Asked
  <2>2. QED
    BY <1>5, <2>1 DEF InTime, VisitIsBounded
<1>6. ASSUME NEW rest, QueryFails(rest) \/ QuerySucceeds(rest),
             UNCHANGED <<engine, errand, elapsed>>, pc \in {"ask", "wait"}
      PROVE  InTime'
  <2>1. elapsed <= B
    BY <1>0, <1>1, <1>2, <1>6
  <2>2. CASE Over
    BY <1>2, <1>5, <1>6, <2>2 DEF Over
  <2>3. CASE GoesOn(rest)
    <3>1. at' = at + 1 /\ pc' = "ask" /\ 1 + at' = 2 + at
      BY <1>0, <2>3 DEF GoesOn
    <3>2. ProbeTimeout * (1 + at') = B
      BY <3>1
    <3>3. QED
      BY <1>2, <1>5, <1>6, <2>1, <3>1, <3>2
  <2>4. QED
    BY <1>6, <2>2, <2>3, QueryReturns
<1>7. CASE DialSucceeds
  <2>1. /\ UNCHANGED <<engine, errand, at, elapsed>> /\ pc = "dial" /\ left' = ProbeTimeout
        /\ pc' \in {"ask", "greet"}
    BY <1>7 DEF DialSucceeds, historyVars
  <2>2. QED
    BY <1>0, <1>1, <1>2, <1>3, <1>5, <2>1
<1>8. CASE DialFails \/ GreetingFails
  BY <1>2, <1>5, <1>8 DEF DialFails, GreetingFails, Fails, Finish, historyVars
<1>9. CASE ReadGreeting
  <2>1. /\ UNCHANGED <<engine, errand, left, elapsed, at>> /\ pc = "greet"
        /\ pc' \in {"idle", "greet", "ask"}
    BY <1>9 DEF ReadGreeting, Fails, Finish, historyVars
  <2>2. QED
    BY <1>0, <1>1, <1>2, <1>3, <1>5, <2>1
<1>10. CASE Ask
  <2>1. /\ UNCHANGED <<engine, errand, elapsed, at>> /\ pc = "ask" /\ pc' = "wait"
        /\ left' = ProbeTimeout
    BY <1>10 DEF Ask
  <2>2. QED
    BY <1>0, <1>1, <1>2, <1>5, <2>1
<1>11. CASE AskFails
  BY <1>6, <1>11 DEF AskFails, historyVars
<1>12. CASE ReadMore
  <2>1. UNCHANGED <<engine, errand, elapsed, left, at, pc>> /\ pc = "wait"
    BY <1>12 DEF ReadMore, DeadlineAfterMessage, historyVars
  <2>2. QED
    BY <1>2, <1>5, <2>1
<1>13. CASE ReadLast
  BY <1>6, <1>13 DEF ReadLast, historyVars
<1>14. CASE WaitFails
  BY <1>6, <1>14 DEF WaitFails
<1>15. CASE Tick
  <2>1. /\ UNCHANGED <<engine, errand, at, pc>> /\ pc \in {"dial", "greet", "wait"}
        /\ left > 0 /\ left' = left - 1 /\ elapsed' = elapsed + 1
    BY <1>15 DEF Tick
  <2>2. elapsed' + left' = elapsed + left /\ elapsed' <= elapsed + left
    BY <1>0, <2>1
  <2>3. elapsed + left <= C
    BY <1>0, <1>1, <1>2, <1>3, <2>1
  <2>4. elapsed' <= C
    BY <1>0, <1>1, <2>1, <2>2, <2>3
  <2>5. QED
    BY <1>2, <1>5, <2>1, <2>2, <2>4
<1>16. CASE ServerSends \/ ServerCloses
  BY <1>2, <1>5, <1>16 DEF ServerSends, ServerCloses, clientVars, historyVars
<1>17. QED
  BY <1>4, <1>7, <1>8, <1>9, <1>10, <1>11, <1>12, <1>13, <1>14, <1>15, <1>16
  DEF Next, ClientStep

\* A step that reads one message takes the first of the stream.
LEMMA OneRead ==
    ASSUME TypeOK, wire /= <<>>, wire' = Tail(wire), server' = server
    PROVE  /\ Len(Stream) \in Nat \ {0} /\ Len(Stream') = Len(Stream) - 1
           /\ Head(wire) = Stream[1]
           /\ \A i \in 1..Len(Stream') : i + 1 \in 1..Len(Stream) /\ Stream'[i] = Stream[i + 1]
           /\ \A i \in 1..Len(wire') : i + 1 \in 1..Len(wire) /\ wire'[i] = wire[i + 1]
           /\ 1 \in 1..Len(wire) /\ Head(wire) = wire[1]
<1>1. wire \in Seq(Messages) /\ server \in Seq(Messages)
  BY DEF TypeOK
<1>2. Stream = wire \o server /\ Stream' = Tail(wire) \o server
  BY DEF Stream
<1>3. /\ Len(Tail(wire) \o server) = Len(wire \o server) - 1
      /\ Len(wire \o server) \in Nat \ {0}
      /\ Head(wire) = (wire \o server)[1] /\ Head(wire) = wire[1]
      /\ \A i \in 1..Len(Tail(wire) \o server) :
           (Tail(wire) \o server)[i] = (wire \o server)[i + 1]
      /\ Len(Tail(wire)) = Len(wire) - 1
      /\ \A i \in 1..Len(Tail(wire)) : Tail(wire)[i] = wire[i + 1]
  BY <1>1, ReadingTheStream
<1>4. Len(wire) \in Nat \ {0}
  BY <1>1, EmptySeq, LenProperties
<1>5. QED
  BY <1>2, <1>3, <1>4

\* Of a stream that is cut off, what has arrived is left.
LEMMA CutOff ==
    ASSUME TypeOK, wire' = wire, server' = <<>>
    PROVE  /\ Stream' = wire /\ Len(wire) \in Nat /\ Len(Stream) \in Nat
           /\ Len(Stream') <= Len(Stream)
           /\ \A i \in 1..Len(Stream') : i \in 1..Len(Stream) /\ Stream'[i] = Stream[i]
<1>1. wire \in Seq(Messages) /\ server \in Seq(Messages)
  BY DEF TypeOK
<1>2. Stream' = wire
  BY <1>1 DEF Stream
<1>3. Len(wire) \in Nat /\ Len(server) \in Nat /\ Len(Stream) = Len(wire) + Len(server)
  BY <1>1 DEF Stream
<1>4. \A i \in 1..Len(wire) : Stream[i] = wire[i]
  BY <1>1, <1>3 DEF Stream
<1>5. QED
  BY <1>2, <1>3, <1>4

LEMMA NothingLeft ==
    ASSUME TypeOK, Len(Stream) = 0
    PROVE  Stream = <<>> /\ wire = <<>> /\ server = <<>>
<1>1. wire \in Seq(Messages) /\ server \in Seq(Messages)
  BY DEF TypeOK
<1>2. Len(wire) = 0 /\ Len(server) = 0
  BY <1>1 DEF Stream
<1>3. wire = <<>> /\ server = <<>>
  BY <1>1, <1>2, EmptySeq
<1>4. QED
  BY <1>3 DEF Stream

\* A question just put will be answered or refused.
LEMMA AnswerBegins ==
    ASSUME TypeOK, Ask, Stream = <<>>, Question \notin refused
    PROVE  Answering'
<1>1. /\ Question \in Topics /\ engine \in Engines /\ wire \in Seq(Messages)
      /\ server \in Seq(Messages)
  BY PresentQuestion DEF TypeOK
<1>2. wire = <<>> /\ server = <<>>
  <2>1. Len(Stream) = 0
    OBVIOUS
  <2>2. QED
    BY <2>1, NothingLeft
<1>3. Question' = Question /\ rows' = <<>> /\ queryErr' = FALSE /\ engine' = engine
  BY DEF Ask, Question, Asked
<1>4. ASSUME NEW a \in Seq(Kinds), server' = server \o Says(Question, a)
      PROVE  /\ Len(Stream') = Len(a)
             /\ \A i \in 1..Len(a) : Stream'[i].of = Question /\ Stream'[i].kind = a[i]
  <2>1. Says(Question, a) \in Seq(Messages)
    BY <1>1, SaysMessages
  <2>2. Stream' = Says(Question, a)
    BY <1>2, <1>4, <2>1 DEF Stream, Ask
  <2>3. QED
    BY <1>1, <2>2, SaysMessages
<1>5. CASE /\ \E a \in Answers(engine) : server' = server \o Says(Question, a)
           /\ UNCHANGED refused
  <2>1. PICK a \in Answers(engine) : server' = server \o Says(Question, a)
    BY <1>5
  <2>2. PICK m \in Nat : /\ a \in Seq(Kinds) /\ Len(a) = m + 2
                         /\ \A i \in 1..m : a[i] = "note"
                         /\ a[m + 1] = "row" /\ a[m + 2] = "end"
    BY <1>1, AnswerOf
  <2>3. /\ Len(Stream') = m + 2
        /\ \A i \in 1..(m + 2) : Stream'[i].of = Question /\ Stream'[i].kind = a[i]
    BY <1>4, <2>1, <2>2
  <2>4. \A i \in 1..(m + 2) : (i \in 1..m /\ a[i] = "note") \/ i = m + 1 \/ i = m + 2
    BY <2>2
  <2>5. \A i \in 1..Len(Stream') :
          /\ Stream'[i].of = Question
          /\ Stream'[i].kind = "end" => i = m + 2
          /\ Stream'[i].kind = "row" => i = m + 1
          /\ Stream'[i].kind /= "error"
    BY <2>2, <2>3, <2>4
  <2>6. Stream'[m + 1].kind = "row" /\ Stream'[m + 2].kind = "end"
    BY <2>2, <2>3
  <2>7. Question' \notin refused'
    BY <1>3, <1>5
  <2>8. \A i \in 1..Len(Stream') : Stream'[i].kind = "end" =>
          /\ i = Len(Stream') /\ i > 1 /\ Stream'[i - 1].kind \in {"row", "error"}
    BY <2>2, <2>3, <2>5, <2>6
  <2>9. \A i \in 1..Len(Stream') : Stream'[i].kind = "row" =>
          \A j \in 1..Len(Stream') : j > i => Stream'[j].kind = "end"
    BY <2>2, <2>3, <2>5, <2>6
  <2>10. QED
    BY <1>3, <2>5, <2>7, <2>8, <2>9 DEF Answering
<1>6. CASE /\ server' = server \o Says(Question, Refusal(engine))
           /\ refused' = refused \cup {Question}
  <2> DEFINE r == Refusal(engine)
  <2>1. /\ r \in Seq(Kinds) /\ r[1] = "error"
        /\ engine = "postgres" => Len(r) = 2 /\ r[2] = "end"
        /\ engine /= "postgres" => Len(r) = 1
    BY <1>1, RefusalOf
  <2>2. /\ Len(Stream') = Len(r)
        /\ \A i \in 1..Len(r) : Stream'[i].of = Question /\ Stream'[i].kind = r[i]
    BY <1>4, <1>6, <2>1
  <2> HIDE DEF r
  <2>3. Question' \in refused'
    BY <1>3, <1>6
  <2>4. \A i \in 1..Len(Stream') :
          /\ Stream'[i].of = Question /\ Stream'[i].kind /= "row"
          /\ Stream'[i].kind = "end" =>
               i = Len(Stream') /\ i > 1 /\ Stream'[i - 1].kind = "error"
          /\ engine /= "postgres" => i = Len(Stream')
    BY <2>1, <2>2
  <2>5. QED
    BY <1>3, <2>3, <2>4 DEF Answering
<1>7. QED
  BY <1>5, <1>6 DEF Ask

\* What is read of it leaves the rest of it.
LEMMA AnswerGoesOn ==
    ASSUME TypeOK, ReadMore, Answering
    PROVE  Answering'
<1>1. /\ wire /= <<>> /\ wire' = Tail(wire) /\ server' = server
      /\ UNCHANGED <<engine, errand, at, refused>> /\ ~EndsAnswer(Head(wire).kind)
      /\ rows' = IF Head(wire).kind = "row" THEN Append(rows, Head(wire).of) ELSE rows
      /\ queryErr' = (queryErr \/ Head(wire).kind = "error")
  BY DEF ReadMore, CanRead, historyVars
<1>2. /\ Len(Stream) \in Nat \ {0} /\ Len(Stream') = Len(Stream) - 1
      /\ Head(wire) = Stream[1]
      /\ \A i \in 1..Len(Stream') : i + 1 \in 1..Len(Stream) /\ Stream'[i] = Stream[i + 1]
  BY <1>1, OneRead
<1> DEFINE h == Stream[1]
<1>3. Question' = Question
  BY <1>1 DEF Question, Asked
<1>4. /\ h.of = Question /\ h.kind /= "end"
      /\ h.kind = "row" => /\ rows = <<>> /\ Question \notin refused
                           /\ \A j \in 1..Len(Stream) : j > 1 => Stream[j].kind = "end"
      /\ h.kind = "error" => Question \in refused
  BY <1>1, <1>2 DEF Answering, EndsAnswer
<1>5. /\ h.kind = "row" => rows' = <<Question>>
      /\ h.kind /= "row" => rows' = rows
      /\ queryErr' = (queryErr \/ h.kind = "error")
  <2>1. Append(<<>>, Question) = <<Question>>
    OBVIOUS
  <2>2. QED
    BY <1>1, <1>2, <1>4, <2>1
<1> HIDE DEF h
<1>6. /\ rows' \in {<<>>, <<Question>>} /\ (queryErr' => Question \in refused)
      /\ Question \in refused => rows' = <<>>
  BY <1>4, <1>5 DEF Answering
<1>7. ASSUME NEW i \in 1..Len(Stream')
      PROVE  /\ Stream'[i].of = Question
             /\ Stream'[i].kind = "end" =>
                  /\ i = Len(Stream')
                  /\ i = 1 => queryErr' \/ rows' = <<Question>>
                  /\ i > 1 => Stream'[i - 1].kind \in {"row", "error"}
             /\ Stream'[i].kind = "row" =>
                  /\ rows' = <<>> /\ Question \notin refused
                  /\ \A j \in 1..Len(Stream') : j > i => Stream'[j].kind = "end"
             /\ Stream'[i].kind = "error" =>
                  Question \in refused /\ (engine /= "postgres" => i = Len(Stream'))
  <2>1. i + 1 \in 1..Len(Stream) /\ Stream'[i] = Stream[i + 1] /\ i \in Nat /\ i >= 1
    BY <1>2
  <2>2. Stream'[i].of = Question
    BY <2>1 DEF Answering
  <2>3. ASSUME Stream'[i].kind = "end"
        PROVE  /\ i = Len(Stream')
               /\ i = 1 => queryErr' \/ rows' = <<Question>>
               /\ i > 1 => Stream'[i - 1].kind \in {"row", "error"}
    <3>1. i + 1 = Len(Stream) /\ i + 1 > 1 /\ Stream[(i + 1) - 1].kind \in {"row", "error"}
      BY <2>1, <2>3 DEF Answering
    <3>2. Stream[i].kind \in {"row", "error"}
      BY <2>1, <3>1
    <3>3. i = 1 => queryErr' \/ rows' = <<Question>>
      BY <1>5, <3>2 DEF h
    <3>4. i > 1 => i - 1 \in 1..Len(Stream') /\ Stream'[i - 1] = Stream[i]
      BY <1>2, <2>1
    <3>5. QED
      BY <1>2, <2>1, <3>1, <3>2, <3>3, <3>4
  <2>4. ASSUME Stream'[i].kind = "row"
        PROVE  /\ rows' = <<>> /\ Question \notin refused
               /\ \A j \in 1..Len(Stream') : j > i => Stream'[j].kind = "end"
    <3>1. /\ rows = <<>> /\ Question \notin refused
          /\ \A j \in 1..Len(Stream) : j > i + 1 => Stream[j].kind = "end"
      BY <2>1, <2>4 DEF Answering
    <3>2. h.kind /= "row"
      BY <1>4, <2>1, <2>4
    <3>3. \A j \in 1..Len(Stream') : j > i => Stream'[j].kind = "end"
      BY <1>2, <2>1, <3>1
    <3>4. QED
      BY <1>5, <3>1, <3>2, <3>3
  <2>5. Stream'[i].kind = "error" =>
          Question \in refused /\ (engine /= "postgres" => i = Len(Stream'))
    BY <1>2, <2>1 DEF Answering
  <2>6. QED
    BY <2>2, <2>3, <2>4, <2>5
<1>8. QED
  BY <1>1, <1>3, <1>6, <1>7 DEF Answering

LEMMA AnswerCutOff ==
    ASSUME TypeOK, ServerCloses, Answering
    PROVE  Answering'
<1>1. /\ Len(Stream) \in Nat /\ Len(Stream') \in Nat /\ Len(Stream') <= Len(Stream)
      /\ \A i \in 1..Len(Stream') : i \in 1..Len(Stream) /\ Stream'[i] = Stream[i]
  BY CutOff DEF ServerCloses
<1>2. Question' = Question /\ UNCHANGED <<rows, queryErr, refused, engine>>
  BY DEF ServerCloses, clientVars, historyVars, Question, Asked
<1>3. \A i \in 1..Len(Stream') : i = Len(Stream) => i = Len(Stream')
  BY <1>1
<1>4. \A i \in 1..Len(Stream') : i > 1 => Stream'[i - 1] = Stream[i - 1]
  BY <1>1
<1>5. QED
  BY <1>1, <1>2, <1>3, <1>4 DEF Answering

\* A closed connection leaves nothing behind.
LEMMA ConnectionOver ==
    ASSUME pc' = "idle", wire' = <<>>, server' = <<>>, up' = FALSE
    PROVE  Connection'
<1>1. 1..Len(wire') = {}
  OBVIOUS
<1>2. QED
  BY <1>1 DEF Connection

\* One message of the greeting is read.
LEMMA GreetingReads ==
    ASSUME TypeOK, Connection, ReadGreeting
    PROVE  Connection'
<1>1. /\ pc = "greet" /\ Greeted /\ at = 1 /\ wire /= <<>> /\ (~up => server = <<>>)
      /\ wire \in Seq(Messages) /\ server \in Seq(Messages) /\ engine \in Engines
      /\ UNCHANGED <<engine, errand, refused, late, answered>>
      /\ \A i \in 1..Len(wire) :
           wire[i].kind = "end" /\ wire[i].of \in Topics => wire[i].of \in answered \cup refused
  BY DEF ReadGreeting, CanRead, Connection, TypeOK, historyVars
<1>2. CASE Fails
  BY <1>2, ConnectionOver DEF Fails, Finish
<1> DEFINE k == Head(wire).kind
<1>3. CASE /\ wire' = Tail(wire) /\ server' = server /\ up' = up /\ at' = at
           /\ \/ k = "note" /\ pc' = pc
              \/ k = "end" /\ pc' = "ask"
  <2>1. /\ Len(Stream) \in Nat \ {0} /\ Len(Stream') = Len(Stream) - 1
        /\ Head(wire) = Stream[1]
        /\ \A i \in 1..Len(Stream') : i + 1 \in 1..Len(Stream) /\ Stream'[i] = Stream[i + 1]
        /\ \A i \in 1..Len(wire') : i + 1 \in 1..Len(wire) /\ wire'[i] = wire[i + 1]
    BY <1>1, <1>3, OneRead
  <2>2. \A i \in 1..Len(wire') : wire'[i].kind = "end" /\ wire'[i].of \in Topics =>
                                   wire'[i].of \in answered' \cup refused'
    BY <1>1, <2>1
  <2>3. Greeted'
    <3>1. ASSUME NEW i \in 1..Len(Stream'), Stream'[i].kind /= "note" PROVE i = Len(Stream')
      <4>1. i + 1 \in 1..Len(Stream) /\ Stream[i + 1].kind /= "note"
        BY <2>1, <3>1
      <4>2. i + 1 = Len(Stream)
        BY <1>1, <4>1 DEF Greeted
      <4>3. QED
        BY <2>1, <3>1, <4>2
    <3>2. QED
      BY <3>1 DEF Greeted
  <2>4. k = "end" => Len(Stream') = 0
    <3>1. 1 \in 1..Len(Stream) /\ k = Stream[1].kind
      BY <2>1
    <3>2. k = "end" => Len(Stream) = 1
      BY <1>1, <3>1 DEF Greeted
    <3>3. QED
      BY <2>1, <3>2
  <2>5. TypeOK'
    BY VisitTyped DEF Next, ClientStep
  <2>6. k = "end" => Stream' = <<>>
    <3>1. Stream' \in Seq(Messages)
      BY <2>5 DEF TypeOK, Stream
    <3>2. QED
      BY <2>4, <3>1, EmptySeq
  <2>7. QED
    BY <1>1, <1>3, <2>2, <2>3, <2>4, <2>6 DEF Connection
<1>4. CASE /\ k \in {"greeting", "switch"} /\ up /\ wire' = Tail(wire)
           /\ \E v \in Verdicts : server' = server \o Says(Hello, v)
           /\ UNCHANGED <<pc, at, up>>
  <2>1. PICK v \in Verdicts : server' = server \o Says(Hello, v)
    BY <1>4
  <2>2. v \in Seq(Kinds) /\ \A i \in 1..Len(v) : v[i] /= "note" => i = Len(v)
    BY <1>1, GreetingSteps
  <2>3. /\ Len(wire \o server) \in Nat \ {0} /\ Head(wire) = Stream[1]
        /\ Len(Tail(wire)) = Len(wire) - 1
    BY <1>1, ReadingTheStream DEF Stream
  <2>4. Len(Stream) = 1
    BY <1>1, <1>4, <2>3 DEF Greeted, Stream
  <2>5. Len(wire) = 1 /\ Len(server) = 0
    <3>1. Len(wire) \in Nat /\ Len(wire) /= 0 /\ Len(server) \in Nat
      BY <1>1, EmptySeq, LenProperties
    <3>2. Len(wire) + Len(server) = 1
      BY <1>1, <2>4 DEF Stream
    <3>3. \A a, b \in Nat : a /= 0 /\ a + b = 1 => a = 1 /\ b = 0
      OBVIOUS
    <3>4. QED
      BY <3>1, <3>2, <3>3, Zenon
  <2>6. wire' = <<>> /\ server = <<>>
    <3>1. Tail(wire) \in Seq(Messages) /\ Len(Tail(wire)) = 0
      BY <1>1, <2>3, <2>5, ReadingTheStream
    <3>2. QED
      BY <1>1, <1>4, <2>5, <3>1, EmptySeq
  <2>7. /\ Says(Hello, v) \in Seq(Messages) /\ Len(Says(Hello, v)) = Len(v)
        /\ \A i \in 1..Len(v) : Says(Hello, v)[i].of = Hello /\ Says(Hello, v)[i].kind = v[i]
    <3>1. Hello \in Topics \cup {Hello}
      OBVIOUS
    <3>2. QED
      BY <2>2, <3>1, SaysMessages, Zenon
  <2>8. Stream' = Says(Hello, v)
    BY <2>1, <2>6, <2>7 DEF Stream
  <2>9. Greeted'
    BY <2>2, <2>7, <2>8 DEF Greeted
  <2>10. 1..Len(wire') = {}
    BY <2>6
  <2>11. QED
    BY <1>1, <1>4, <2>9, <2>10 DEF Connection
<1>5. QED
  BY <1>2, <1>3, <1>4 DEF ReadGreeting

\* A query returned, with the rest of the stream still to be read.
LEMMA QueryConnects ==
    ASSUME TypeOK, Connection, NEW rest, QueryFails(rest) \/ QuerySucceeds(rest),
           GoesOn(rest) =>
             /\ up /\ ~Behindhand' => (rest \o server) = <<>>
             /\ \A i \in 1..Len(rest \o server) : (rest \o server)[i].of \in Topics
             /\ \A i \in 1..Len(rest) : rest[i].kind = "end" /\ rest[i].of \in Topics =>
                                          rest[i].of \in answered' \cup refused'
    PROVE  Connection'
<1>1. CASE Over
  BY <1>1, ConnectionOver DEF Over
<1>2. CASE GoesOn(rest)
  <2>1. /\ up /\ ~Behindhand' => (rest \o server) = <<>>
        /\ \A i \in 1..Len(rest \o server) : (rest \o server)[i].of \in Topics
        /\ \A i \in 1..Len(rest) : rest[i].kind = "end" /\ rest[i].of \in Topics =>
                                     rest[i].of \in answered' \cup refused'
    BY <1>2
  <2>2. pc' = "ask" /\ wire' = rest /\ server' = server /\ up' = up
    BY <1>2 DEF GoesOn
  <2>3. Stream' = rest \o server
    BY <2>2 DEF Stream
  <2>4. ~up => server = <<>>
    BY DEF Connection
  <2>5. QED
    BY <2>1, <2>2, <2>3, <2>4 DEF Connection
<1>3. QED
  BY <1>1, <1>2, QueryReturns

LEMMA VisitConnects ==
    ASSUME TypeOK, Connection, Progress, Next
    PROVE  Connection'
<1>0. /\ wire \in Seq(Messages) /\ server \in Seq(Messages) /\ engine \in Engines
      /\ \A i \in 1..Len(wire) :
           wire[i].kind = "end" /\ wire[i].of \in Topics => wire[i].of \in answered \cup refused
  BY DEF Connection, TypeOK
<1>1. ASSUME NEW e \in Engines, NEW k \in Errands, Begin(e, k) PROVE Connection'
  <2>1. wire' = <<>> /\ server' = <<>> /\ up' = FALSE /\ at' = 1 /\ pc' = "dial"
    BY <1>1 DEF Begin, Connection, TypeOK, serverVars
  <2>2. 1..Len(wire') = {}
    BY <2>1
  <2>3. QED
    BY <2>1, <2>2 DEF Connection
<1>2. CASE DialSucceeds
  <2>1. PICK w \in Welcomes(engine) : server' = Says(Hello, w)
    BY <1>2 DEF DialSucceeds
  <2>2. /\ w \in Seq(Kinds) /\ (\A i \in 1..Len(w) : w[i] /= "note" => i = Len(w))
        /\ engine = "redis" => w = <<>>
    BY <1>0, GreetingSteps DEF Welcomes
  <2>3. /\ Says(Hello, w) \in Seq(Messages) /\ Len(Says(Hello, w)) = Len(w)
        /\ \A i \in 1..Len(w) : Says(Hello, w)[i].of = Hello /\ Says(Hello, w)[i].kind = w[i]
    <3>1. Hello \in Topics \cup {Hello}
      OBVIOUS
    <3>2. QED
      BY <2>2, <3>1, SaysMessages, Zenon
  <2>4. wire' = <<>> /\ up' = TRUE /\ at' = 1
    BY <1>2 DEF DialSucceeds, Connection
  <2>5. Stream' = Says(Hello, w)
    BY <2>1, <2>3, <2>4 DEF Stream
  <2>6. Greeted'
    BY <2>2, <2>3, <2>5 DEF Greeted
  <2>7. engine = "redis" => Stream' = <<>> /\ 1..Len(Stream') = {}
    <3>1. engine = "redis" => Len(Says(Hello, w)) = 0
      BY <2>2, <2>3
    <3>2. engine = "redis" => Says(Hello, w) = <<>>
      BY <2>3, <3>1, EmptySeq
    <3>3. QED
      BY <2>5, <3>2
  <2>8. 1..Len(wire') = {}
    BY <2>4
  <2>9. (pc' = "ask" /\ engine = "redis") \/ pc' = "greet"
    BY <1>2 DEF DialSucceeds
  <2>10. QED
    BY <2>4, <2>6, <2>7, <2>8, <2>9 DEF Connection
<1>3. CASE DialFails \/ GreetingFails
  BY <1>3, ConnectionOver DEF DialFails, GreetingFails, Fails, Finish
<1>4. CASE ReadGreeting
  BY <1>4, GreetingReads
<1>5. CASE Ask
  <2>1. /\ pc' = "wait" /\ up' = TRUE /\ wire' = wire /\ refused \subseteq refused'
        /\ answered' = answered /\ (Behindhand' <=> Behindhand)
    BY <1>5 DEF Ask, Behindhand, TypeOK
  <2>2. ~Behindhand => Answering'
    BY <1>5, AnswerBegins DEF Connection, Progress, Ask
  <2>3. PICK a \in Seq(Kinds) : server' = server \o Says(Question, a)
    BY <1>0, <1>5, AnswerOf, RefusalOf DEF Ask
  <2>4. /\ Question \in Topics /\ Says(Question, a) \in Seq(Messages)
        /\ \A i \in 1..Len(Says(Question, a)) : Says(Question, a)[i].of = Question
    BY PresentQuestion, SaysMessages
  <2>5. Stream' = Stream \o Says(Question, a) /\ Stream \in Seq(Messages)
    <3>1. Stream' = wire \o (server \o Says(Question, a))
      BY <2>1, <2>3 DEF Stream
    <3>2. QED
      BY <1>0, <2>4, <3>1, ConcatAssociative DEF Stream
  <2>6. \A i \in 1..Len(Stream') : Stream'[i].of \in Topics
    <3>1. \A i \in 1..Len(Stream) : Stream[i].of \in Topics
      BY <1>5 DEF Connection, Ask
    <3> DEFINE t == Says(Question, a)
    <3>2. t \in Seq(Messages) /\ \A i \in 1..Len(t) : t[i].of \in Topics
      BY <2>4
    <3>3. Stream' = Stream \o t
      BY <2>5
    <3> HIDE DEF t
    <3>4. ASSUME NEW i \in 1..Len(Stream') PROVE Stream'[i].of \in Topics
      <4>1. /\ Len(Stream') = Len(Stream) + Len(t) /\ Len(Stream) \in Nat /\ Len(t) \in Nat
            /\ Stream'[i] = IF i <= Len(Stream) THEN Stream[i] ELSE t[i - Len(Stream)]
        BY <2>5, <3>2, <3>3, <3>4
      <4>2. i \in 1..Len(Stream) \/ i - Len(Stream) \in 1..Len(t)
        BY <3>4, <4>1
      <4>3. QED
        BY <3>1, <3>2, <4>1, <4>2
    <3>5. QED
      BY <3>4
  <2>7. \A i \in 1..Len(wire') : wire'[i].kind = "end" /\ wire'[i].of \in Topics =>
                                   wire'[i].of \in answered' \cup refused'
    BY <1>0, <2>1
  <2>8. QED
    BY <2>1, <2>2, <2>6, <2>7 DEF Connection
<1>6. CASE AskFails
  <2>1. /\ QueryFails(wire) /\ ~up /\ pc = "ask" /\ UNCHANGED <<answered, refused>>
    BY <1>6 DEF AskFails, historyVars
  <2>2. \A i \in 1..Len(wire \o server) : (wire \o server)[i].of \in Topics
    BY <2>1 DEF Connection, Stream
  <2>3. QED
    BY <1>0, <2>1, <2>2, QueryConnects
<1>7. CASE ReadMore
  <2>1. /\ wire /= <<>> /\ wire' = Tail(wire) /\ server' = server /\ pc = "wait"
        /\ UNCHANGED <<engine, errand, pc, at, up, refused, late, answered>>
    BY <1>7 DEF ReadMore, CanRead, historyVars
  <2>2. /\ Len(Stream) \in Nat \ {0} /\ Len(Stream') = Len(Stream) - 1
        /\ \A i \in 1..Len(Stream') : i + 1 \in 1..Len(Stream) /\ Stream'[i] = Stream[i + 1]
        /\ \A i \in 1..Len(wire') : i + 1 \in 1..Len(wire) /\ wire'[i] = wire[i + 1]
    BY <2>1, OneRead
  <2>3. \A i \in 1..Len(Stream') : Stream'[i].of \in Topics
    BY <2>1, <2>2 DEF Connection
  <2>4. \A i \in 1..Len(wire') : wire'[i].kind = "end" /\ wire'[i].of \in Topics =>
                                   wire'[i].of \in answered' \cup refused'
    BY <1>0, <2>1, <2>2
  <2>5. ~Behindhand' => Answering'
    BY <1>7, <2>1, AnswerGoesOn DEF Connection, Behindhand
  <2>6. ~up' => server' = <<>>
    BY <2>1 DEF Connection
  <2>7. QED
    BY <2>1, <2>3, <2>4, <2>5, <2>6 DEF Connection
<1>8. CASE ReadLast
  <2> DEFINE rest == Tail(wire)
  <2>1. /\ wire /= <<>> /\ pc = "wait" /\ (QueryFails(rest) \/ QuerySucceeds(rest))
        /\ UNCHANGED <<engine, errand, refused, late, answered>>
        /\ EndsAnswer(Head(wire).kind)
    BY <1>8 DEF ReadLast, CanRead, historyVars
  <2>2. /\ Len(rest \o server) = Len(Stream) - 1 /\ Len(Stream) \in Nat \ {0}
        /\ Head(wire) = Stream[1] /\ rest \o server \in Seq(Messages)
        /\ \A i \in 1..Len(rest \o server) : (rest \o server)[i] = Stream[i + 1]
        /\ Len(rest) = Len(wire) - 1 /\ \A i \in 1..Len(rest) : rest[i] = wire[i + 1]
        /\ Len(wire) \in Nat
    BY <1>0, <2>1, ReadingTheStream DEF Stream
  <2> HIDE DEF rest
  <2>3. \A i \in 1..Len(rest \o server) : (rest \o server)[i].of \in Topics
    BY <2>1, <2>2 DEF Connection
  <2>4. \A i \in 1..Len(rest) : rest[i].kind = "end" /\ rest[i].of \in Topics =>
                                  rest[i].of \in answered' \cup refused'
    BY <1>0, <2>1, <2>2
  <2>5. ASSUME GoesOn(rest) PROVE rest \o server = <<>>
    <3>1. ~Behindhand
      BY <2>5, PresentQuestion DEF GoesOn, Behindhand
    <3>2. Len(Stream) = 1
      BY <2>1, <2>2, <3>1 DEF Connection, Answering, EndsAnswer
    <3>3. QED
      BY <2>2, <3>2, EmptySeq
  <2>6. QED
    BY <2>1, <2>3, <2>4, <2>5, QueryConnects
<1>9. CASE WaitFails
  <2>1. /\ QueryFails(wire) /\ pc = "wait" /\ UNCHANGED <<engine, errand, answered, refused>>
        /\ late' = IF up THEN late \cup {Question} ELSE late
    BY <1>9 DEF WaitFails
  <2>2. \A i \in 1..Len(wire \o server) : (wire \o server)[i].of \in Topics
    BY <2>1 DEF Connection, Stream
  <2>3. ASSUME GoesOn(wire), up PROVE Behindhand'
    <3>1. at < Len(Asked) /\ at' = at + 1 /\ pc' = "ask"
      BY <2>3 DEF GoesOn
    <3>2. errand = "deep" /\ Question \in Optional
      BY <2>1, <3>1 DEF QueryFails, Fails, Finish
    <3>3. engine = "postgres" /\ at = 3 /\ Question = "size"
      BY <3>1, <3>2, PresentQuestion
    <3>4. QED
      BY <2>1, <2>3, <3>1, <3>2, <3>3 DEF Behindhand
  <2>4. QED
    BY <1>0, <2>1, <2>2, <2>3, QueryConnects
<1>10. CASE Tick
  <2>1. /\ UNCHANGED <<engine, errand, pc, at, rows, queryErr, wire, server, up,
                       refused, late, answered>>
    BY <1>10 DEF Tick, serverVars
  <2>2. Stream' = Stream /\ Question' = Question /\ Behindhand' = Behindhand
    BY <2>1 DEF Stream, Question, Asked, Behindhand
  <2>3. (Greeted => Greeted') /\ (Answering => Answering')
    BY <2>1, <2>2 DEF Greeted, Answering
  <2>4. QED
    BY <2>1, <2>2, <2>3 DEF Connection
<1>11. CASE ServerSends
  <2>1. /\ UNCHANGED <<engine, errand, pc, at, rows, queryErr, up, refused, late>>
        /\ server /= <<>> /\ up /\ pc \in {"greet", "wait"}
        /\ wire' = Append(wire, Head(server)) /\ server' = Tail(server)
        /\ answered' = IF Head(server).kind = "end" /\ Head(server).of \in Topics \ refused
                       THEN answered \cup {Head(server).of} ELSE answered
    BY <1>11 DEF ServerSends, clientVars
  <2>2. Stream' = Stream /\ Head(server) \in Messages
    BY <1>0, <2>1, SendingKeepsTheStream DEF Stream
  <2>3. Question' = Question /\ Behindhand' = Behindhand
    BY <2>1 DEF Question, Asked, Behindhand
  <2>4. (Greeted => Greeted') /\ (Answering => Answering')
    BY <2>1, <2>2, <2>3 DEF Greeted, Answering
  <2>5. ASSUME NEW i \in 1..Len(wire'), wire'[i].kind = "end", wire'[i].of \in Topics
        PROVE  wire'[i].of \in answered' \cup refused'
    <3>1. /\ Len(wire') = Len(wire) + 1 /\ wire'[Len(wire) + 1] = Head(server)
          /\ \A j \in 1..Len(wire) : wire'[j] = wire[j]
      BY <1>0, <2>1, <2>2, AppendProperties
    <3>2. answered \subseteq answered'
      BY <2>1
    <3>3. CASE i \in 1..Len(wire)
      BY <1>0, <2>1, <2>5, <3>1, <3>2, <3>3
    <3>4. CASE i = Len(wire) + 1
      BY <2>1, <2>5, <3>1, <3>4
    <3>5. QED
      BY <1>0, <3>1, <3>3, <3>4, LenProperties
  <2>6. QED
    BY <2>1, <2>2, <2>3, <2>4, <2>5 DEF Connection
<1>12. CASE ServerCloses
  <2>1. /\ UNCHANGED <<engine, errand, pc, at, refused, late, answered, wire>>
        /\ pc \in {"greet", "ask", "wait"} /\ up' = FALSE /\ server' = <<>>
    BY <1>12 DEF ServerCloses, clientVars, historyVars
  <2>2. /\ Len(Stream) \in Nat /\ Len(Stream') \in Nat /\ Len(Stream') <= Len(Stream)
        /\ \A i \in 1..Len(Stream') : i \in 1..Len(Stream) /\ Stream'[i] = Stream[i]
    BY <2>1, CutOff
  <2>3. Greeted => Greeted'
    BY <2>2 DEF Greeted
  <2>4. Answering => Answering'
    BY <1>12, AnswerCutOff
  <2>5. Behindhand' = Behindhand
    BY <2>1 DEF Behindhand
  <2>6. (pc \in {"ask", "wait"} => \A i \in 1..Len(Stream) : Stream[i].of \in Topics) =>
        (pc \in {"ask", "wait"} => \A i \in 1..Len(Stream') : Stream'[i].of \in Topics)
    BY <2>2
  <2>7. QED
    BY <2>1, <2>3, <2>4, <2>5, <2>6 DEF Connection
<1>13. QED
  BY <1>1, <1>2, <1>3, <1>4, <1>5, <1>6, <1>7, <1>8, <1>9, <1>10, <1>11, <1>12
  DEF Next, ClientStep

\* A visit gets answers to its own questions only.
LEMMA VisitKeepsToTheSubject ==
    ASSUME TypeOK, Connection, Pertinent, Next
    PROVE  Pertinent'
<1>0. /\ Question \in Put /\ Question \in Topics
      /\ wire \in Seq(Messages) /\ server \in Seq(Messages) /\ engine \in Engines
      /\ rows \in Seq(Topics) /\ Stream \in Seq(Messages)
  BY PresentQuestion DEF Put, TypeOK, Stream
<1>1. ASSUME NEW e \in Engines, NEW k \in Errands, Begin(e, k) PROVE Pertinent'
  BY <1>1 DEF Begin, Pertinent
<1>2. CASE DialSucceeds
  <2>1. /\ UNCHANGED <<engine, errand, rows>> /\ pc' \in {"greet", "ask"} /\ pc = "dial"
        /\ wire' = wire /\ pc' = "ask" => engine = "redis"
    BY <1>2 DEF DialSucceeds
  <2>2. Put' = Put
    BY <2>1 DEF Put, Asked
  <2>3. pc' = "ask" => Len(Stream') = 0
    <3>1. SUFFICES ASSUME pc' = "ask" PROVE Len(Stream') = 0
      OBVIOUS
    <3>2. engine = "redis" /\ wire' = <<>>
      BY <1>2, <3>1 DEF DialSucceeds, Connection
    <3>3. server' = Says(Hello, <<>>)
      BY <1>2, <3>2 DEF DialSucceeds, Welcomes
    <3>4. server' = <<>>
      BY <3>3 DEF Says
    <3>5. QED
      BY <3>2, <3>4 DEF Stream
  <2>4. QED
    BY <2>1, <2>2, <2>3 DEF Pertinent
<1>3. CASE DialFails \/ GreetingFails
  BY <1>3 DEF DialFails, GreetingFails, Fails, Finish, Pertinent
<1>4. CASE ReadGreeting
  <2>1. /\ UNCHANGED <<engine, errand, rows>> /\ pc = "greet" /\ pc' \in {"idle", "greet", "ask"}
        /\ pc' = "ask" =>
             Head(wire).kind = "end" /\ wire /= <<>> /\ wire' = Tail(wire) /\ server' = server
    BY <1>4 DEF ReadGreeting, CanRead, Fails, Finish
  <2>2. Put' = Put
    BY <2>1 DEF Put, Asked
  <2>3. pc' = "ask" => Len(Stream') = 0
    <3>1. SUFFICES ASSUME pc' = "ask" PROVE Len(Stream') = 0
      OBVIOUS
    <3>2. /\ Len(Stream) \in Nat \ {0} /\ Len(Stream') = Len(Stream) - 1
          /\ Head(wire) = Stream[1]
      BY <2>1, <3>1, OneRead
    <3>3. Stream[1].kind /= "note" /\ 1 \in 1..Len(Stream)
      BY <2>1, <3>1, <3>2
    <3>4. QED
      BY <2>1, <3>2, <3>3 DEF Connection, Greeted
  <2>4. QED
    BY <2>1, <2>2, <2>3 DEF Pertinent
<1>5. CASE Ask
  <2>1. /\ pc = "ask" /\ wire' = wire /\ rows' = <<>> /\ UNCHANGED <<engine, errand>>
    BY <1>5 DEF Ask
  <2>2. Put' = Put
    BY <2>1 DEF Put, Asked
  <2>3. PICK a \in Seq(Kinds) : server' = server \o Says(Question, a)
    BY <1>0, <1>5, AnswerOf, RefusalOf DEF Ask
  <2> DEFINE t == Says(Question, a)
  <2>4. t \in Seq(Messages) /\ \A i \in 1..Len(t) : t[i].of \in Put
    BY <1>0, SaysMessages
  <2>5. Stream' = Stream \o t
    <3>1. Stream' = wire \o (server \o t)
      BY <2>1, <2>3 DEF Stream
    <3>2. QED
      BY <1>0, <2>4, <3>1, ConcatAssociative DEF Stream
  <2> HIDE DEF t
  <2>6. \A i \in 1..Len(Stream) : Stream[i].of \in Put
    BY <2>1 DEF Pertinent
  <2>7. ASSUME NEW i \in 1..Len(Stream') PROVE Stream'[i].of \in Put
    <3>1. /\ Len(Stream') = Len(Stream) + Len(t) /\ Len(Stream) \in Nat /\ Len(t) \in Nat
          /\ Stream'[i] = IF i <= Len(Stream) THEN Stream[i] ELSE t[i - Len(Stream)]
      BY <1>0, <2>4, <2>5, <2>7
    <3>2. i \in 1..Len(Stream) \/ i - Len(Stream) \in 1..Len(t)
      BY <2>7, <3>1
    <3>3. QED
      BY <2>4, <2>6, <3>1, <3>2
  <2>8. QED
    BY <2>1, <2>2, <2>7 DEF Pertinent
<1>6. CASE AskFails \/ ReadLast \/ WaitFails
  <2>1. /\ UNCHANGED <<engine, errand, rows>> /\ pc \in {"ask", "wait"}
    BY <1>6 DEF AskFails, ReadLast, WaitFails
  <2>2. Put' = Put
    BY <2>1 DEF Put, Asked
  <2>3. PICK rest \in {wire, Tail(wire)} :
          /\ QueryFails(rest) \/ QuerySucceeds(rest)
          /\ rest = Tail(wire) => wire /= <<>> \/ rest = wire
    BY <1>6 DEF AskFails, ReadLast, WaitFails, CanRead
  <2>4. CASE Over
    BY <2>4 DEF Over, Pertinent
  <2>5. CASE GoesOn(rest)
    <3>1. wire' = rest /\ server' = server
      BY <2>5 DEF GoesOn
    <3>2. CASE rest = wire
      <4>1. Stream' = Stream
        BY <3>1, <3>2 DEF Stream
      <4>2. QED
        BY <2>1, <2>2, <4>1 DEF Pertinent
    <3>3. CASE rest /= wire
      <4>1. wire /= <<>> /\ wire' = Tail(wire)
        BY <2>3, <3>1, <3>3
      <4>2. \A i \in 1..Len(Stream') : i + 1 \in 1..Len(Stream) /\ Stream'[i] = Stream[i + 1]
        BY <3>1, <4>1, OneRead
      <4>3. QED
        BY <2>1, <2>2, <4>2 DEF Pertinent
    <3>4. QED
      BY <3>2, <3>3
  <2>6. QED
    BY <2>3, <2>4, <2>5, QueryReturns
<1>7. CASE ReadMore
  <2>1. /\ UNCHANGED <<engine, errand, server>> /\ pc = "wait" /\ wire /= <<>>
        /\ wire' = Tail(wire) /\ rows' \in {rows, Append(rows, Head(wire).of)}
    BY <1>7 DEF ReadMore, CanRead
  <2>2. Put' = Put
    BY <2>1 DEF Put, Asked
  <2>3. /\ \A i \in 1..Len(Stream') : i + 1 \in 1..Len(Stream) /\ Stream'[i] = Stream[i + 1]
        /\ Head(wire) = Stream[1] /\ 1 \in 1..Len(Stream)
    BY <2>1, OneRead
  <2>4. Head(wire).of \in Put /\ \A i \in 1..Len(rows) : rows[i] \in Put
    BY <2>1, <2>3 DEF Pertinent
  <2>5. \A i \in 1..Len(rows') : rows'[i] \in Put
    <3>1. CASE rows' = rows
      BY <2>4, <3>1
    <3>2. CASE rows' = Append(rows, Head(wire).of)
      <4>1. Len(rows') = Len(rows) + 1 /\ Len(rows) \in Nat
        BY <1>0, <3>2
      <4>2. \A i \in 1..Len(rows') :
              rows'[i] = IF i <= Len(rows) THEN rows[i] ELSE Head(wire).of
        BY <1>0, <3>2
      <4>3. QED
        BY <2>4, <4>1, <4>2
    <3>3. QED
      BY <2>1, <3>1, <3>2
  <2>6. QED
    BY <2>1, <2>2, <2>3, <2>5 DEF Pertinent
<1>8. CASE Tick \/ ServerSends
  <2>1. UNCHANGED <<engine, errand, pc, rows>>
    BY <1>8 DEF Tick, ServerSends, clientVars
  <2>2. Stream' = Stream
    <3>1. CASE Tick
      BY <3>1 DEF Tick, serverVars, Stream
    <3>2. CASE ServerSends
      BY <1>0, <3>2, SendingKeepsTheStream DEF ServerSends, Stream
    <3>3. QED
      BY <1>8, <3>1, <3>2
  <2>3. Put' = Put
    BY <2>1 DEF Put, Asked
  <2>4. QED
    BY <2>1, <2>2, <2>3 DEF Pertinent
<1>9. CASE ServerCloses
  <2>1. UNCHANGED <<engine, errand, pc, rows, wire>> /\ server' = <<>>
    BY <1>9 DEF ServerCloses, clientVars
  <2>2. \A i \in 1..Len(Stream') : i \in 1..Len(Stream) /\ Stream'[i] = Stream[i]
    BY <2>1, CutOff
  <2>3. Put' = Put
    BY <2>1 DEF Put, Asked
  <2>4. QED
    BY <2>1, <2>2, <2>3 DEF Pertinent
<1>10. QED
  BY <1>1, <1>2, <1>3, <1>4, <1>5, <1>6, <1>7, <1>8, <1>9 DEF Next, ClientStep

\* What a query that has returned leaves of its question.
Disposed(rest) ==
    /\ UNCHANGED <<engine, errand, refused, answered>> /\ late \subseteq late'
    /\ \/ Over /\ verdict' = "failed" /\ figures' = figures /\ Question \notin Optional
       \/ /\ (Over /\ verdict' = "ok" /\ at = Len(Asked)) \/ GoesOn(rest)
          /\ \A q \in Topics \ {Question} : figures'[q] = figures[q]
          /\ \/ figures'[Question] \in {figures[Question], Question}
             \/ Behindhand /\ figures'[Question] = "size"
          /\ Question \notin Optional => figures'[Question] = Question /\ Question \in answered
          /\ up => figures'[Question] = Question \/ Question \in refused \cup late' \/ Behindhand

\* A question that failed was essential, and fails the visit, or is given up.
LEMMA FailedQuery ==
    ASSUME TypeOK, NEW rest, QueryFails(rest),
           UNCHANGED <<engine, errand, refused, answered>>, late \subseteq late',
           up => Question \in refused \cup late' \/ Behindhand
    PROVE  Disposed(rest)
<1>1. at \in 1..Len(Asked) /\ Len(Asked) \in 1..4 /\ (Question \in Optional => errand = "deep")
  BY PresentQuestion
<1>2. CASE errand = "deep" /\ Question \in Optional
  <2>1. MoveOn(rest) /\ figures' = figures
    BY <1>2 DEF QueryFails
  <2>2. (Over /\ verdict' = "ok" /\ at = Len(Asked)) \/ GoesOn(rest)
    BY <1>1, <2>1 DEF MoveOn, Finish, Over, GoesOn
  <2>3. QED
    BY <1>2, <2>1, <2>2 DEF Disposed
<1>3. CASE ~(errand = "deep" /\ Question \in Optional)
  <2>1. Over /\ verdict' = "failed" /\ figures' = figures /\ Question \notin Optional
    BY <1>1, <1>3 DEF QueryFails, Fails, Finish, Over
  <2>2. QED
    BY <2>1 DEF Disposed
<1>4. QED
  BY <1>2, <1>3

\* The message that ends an answer disposes of its question.
LEMMA ReadLastDisposes ==
    ASSUME TypeOK, Connection, Pertinent, ReadLast
    PROVE  Disposed(Tail(wire))
<1>1. /\ pc = "wait" /\ wire /= <<>> /\ EndsAnswer(Head(wire).kind)
      /\ UNCHANGED <<engine, errand, refused, late, answered>>
      /\ IF queryErr \/ Head(wire).kind = "error" THEN QueryFails(Tail(wire))
         ELSE QuerySucceeds(Tail(wire))
  BY DEF ReadLast, CanRead, historyVars
<1>2. /\ Head(wire) = Stream[1] /\ Len(Stream) \in Nat \ {0}
      /\ Head(wire) = wire[1] /\ 1 \in 1..Len(wire) /\ 1 \in 1..Len(Stream)
  <2>1. wire \in Seq(Messages) /\ server \in Seq(Messages)
    BY DEF TypeOK
  <2>2. /\ Head(wire) = Stream[1] /\ Len(Stream) \in Nat \ {0} /\ Head(wire) = wire[1]
    BY <1>1, <2>1, ReadingTheStream DEF Stream
  <2>3. Len(wire) \in Nat /\ Len(wire) /= 0
    BY <1>1, <2>1, EmptySeq, LenProperties
  <2>4. QED
    BY <2>2, <2>3
<1>3. /\ at \in 1..Len(Asked) /\ Len(Asked) \in 1..4 /\ Question \in Topics
      /\ figures \in [Topics -> Topics \cup {Absent}]
  BY PresentQuestion DEF TypeOK
<1>4. CASE queryErr \/ Head(wire).kind = "error"
  <2>1. ~Behindhand => Question \in refused
    BY <1>1, <1>2, <1>4 DEF Connection, Answering
  <2>2. QED
    BY <1>1, <1>4, <2>1, FailedQuery
<1>5. CASE ~queryErr /\ Head(wire).kind /= "error"
  <2>1. QuerySucceeds(Tail(wire)) /\ Head(wire).kind = "end"
    BY <1>1, <1>5 DEF EndsAnswer
  <2>2. MoveOn(Tail(wire)) =>
          (Over /\ verdict' = "ok" /\ at = Len(Asked)) \/ GoesOn(Tail(wire))
    BY <1>3 DEF MoveOn, Finish, Over, GoesOn
  <2>3. CASE ~Behindhand
    <3>1. rows = <<Question>> /\ Question \notin refused /\ Head(wire).of = Question
      BY <1>1, <1>2, <1>5, <2>1, <2>3 DEF Connection, Answering
    <3>2. Question \in answered
      BY <1>2, <1>3, <2>1, <3>1 DEF Connection
    <3>3. Len(rows) = 1 /\ rows[1] = Question
      BY <3>1
    <3>4. MoveOn(Tail(wire)) /\ figures' = [figures EXCEPT ![Question] = Question]
      BY <2>1, <3>3 DEF QuerySucceeds, Fits
    <3>5. /\ \A q \in Topics \ {Question} : figures'[q] = figures[q]
          /\ figures'[Question] = Question
      BY <1>3, <3>4
    <3>6. QED
      BY <1>1, <2>2, <3>2, <3>4, <3>5 DEF Disposed
  <2>4. CASE Behindhand
    <3>1. Question = "longest" /\ Question \in Optional
      BY <2>4, PresentQuestion DEF Behindhand, Optional
    <3>2. /\ MoveOn(Tail(wire))
          /\ \/ figures' = figures
             \/ Fits /\ figures' = [figures EXCEPT ![Question] = rows[1]]
      BY <2>1, <3>1 DEF QuerySucceeds
    <3>3. Fits => rows[1] \in {"size", "longest"}
      <4>1. SUFFICES ASSUME Fits PROVE rows[1] \in {"size", "longest"}
        OBVIOUS
      <4>2. rows[1] \in Put /\ Width(rows[1]) = 1
        BY <1>1, <3>1, <4>1 DEF Pertinent, Fits, Width
      <4>3. Put = {"activity", "database", "size", "longest"}
        BY <2>4 DEF Put, Asked, Questions, Behindhand
      <4>4. QED
        BY <4>2, <4>3 DEF Width
    <3>4. /\ \A q \in Topics \ {Question} : figures'[q] = figures[q]
          /\ figures'[Question] \in {figures[Question], "size", "longest"}
      BY <1>3, <3>2, <3>3
    <3>5. QED
      BY <1>1, <2>2, <2>4, <3>1, <3>2, <3>4 DEF Disposed
  <2>5. QED
    BY <2>3, <2>4
<1>6. QED
  BY <1>4, <1>5

\* Every way a question is done with.
LEMMA QuestionDisposed ==
    ASSUME TypeOK, Connection, Pertinent, AskFails \/ ReadLast \/ WaitFails
    PROVE  \E rest : Disposed(rest)
<1>1. CASE AskFails
  <2>1. /\ QueryFails(wire) /\ UNCHANGED <<engine, errand, refused, late, answered>> /\ ~up
    BY <1>1 DEF AskFails, historyVars
  <2>2. Disposed(wire)
    BY <2>1, FailedQuery
  <2>3. QED
    BY <2>2
<1>2. CASE ReadLast
  BY <1>2, ReadLastDisposes
<1>3. CASE WaitFails
  <2>1. /\ QueryFails(wire) /\ UNCHANGED <<engine, errand, refused, answered>>
        /\ late \subseteq late' /\ (up => Question \in late')
    BY <1>3 DEF WaitFails
  <2>2. Disposed(wire)
    BY <2>1, FailedQuery
  <2>3. QED
    BY <2>2
<1>4. QED
  BY <1>1, <1>2, <1>3

\* With its last question a visit has disposed of all of them.
LEMMA DisposedOfAll ==
    ASSUME TypeOK, Progress, pc /= "idle", NEW rest, Disposed(rest), verdict' = "ok"
    PROVE  \A q \in ToSet(Asked) :
             /\ q \notin Optional => figures'[q] = q /\ q \in answered'
             /\ up => figures'[q] = q \/ q \in refused \cup late' \/ Overtaken(q)
<1> SUFFICES ASSUME NEW q \in ToSet(Asked)
             PROVE  /\ q \notin Optional => figures'[q] = q /\ q \in answered'
                    /\ up => figures'[q] = q \/ q \in refused \cup late' \/ Overtaken(q)
  OBVIOUS
<1>1. /\ Asked \in Seq(Topics) /\ Len(Asked) \in 1..4 /\ at \in 1..Len(Asked)
      /\ Question = Asked[at] /\ (\A i \in 1..Len(Asked) : Asked[i] \in Topics)
      /\ \A i, j \in 1..Len(Asked) : Asked[i] = Asked[j] => i = j
      /\ engine = "postgres" /\ errand = "deep" => Asked[4] = "longest"
  BY PresentQuestion
<1>2. PICK j \in 1..Len(Asked) : q = Asked[j]
  <2>1. DOMAIN Asked = 1..Len(Asked)
    BY <1>1
  <2>2. QED
    BY <2>1 DEF ToSet
<1>3. /\ UNCHANGED <<refused, answered>> /\ late \subseteq late' /\ at = Len(Asked)
      /\ \A x \in Topics \ {Question} : figures'[x] = figures[x]
      /\ Question \notin Optional => figures'[Question] = Question /\ Question \in answered
      /\ up => figures'[Question] = Question \/ Question \in refused \cup late' \/ Behindhand
  BY DEF Disposed, GoesOn, Progress
<1>4. CASE j = at
  <2>1. Behindhand => Overtaken(q)
    BY <1>1, <1>2, <1>4 DEF Behindhand, Overtaken
  <2>2. QED
    BY <1>1, <1>2, <1>3, <1>4, <2>1
<1>5. CASE j /= at
  <2>1. j \in 1..(at - 1) /\ q /= Question /\ q \in Topics
    BY <1>1, <1>2, <1>3, <1>5
  <2>2. Settled(q)
    BY <1>2, <2>1 DEF Progress
  <2>3. QED
    BY <1>3, <2>1, <2>2 DEF Settled
<1>6. QED
  BY <1>4, <1>5

LEMMA DisposedProgress ==
    ASSUME TypeOK, Progress, pc /= "idle", NEW rest, Disposed(rest)
    PROVE  Progress'
<1>1. /\ Asked \in Seq(Topics) /\ Len(Asked) \in 1..4 /\ at \in 1..Len(Asked)
      /\ Question = Asked[at] /\ (\A i \in 1..Len(Asked) : Asked[i] \in Topics)
      /\ \A i, j \in 1..Len(Asked) : Asked[i] = Asked[j] => i = j
      /\ engine = "postgres" /\ errand = "deep" => Len(Asked) = 4 /\ Asked[4] = "longest"
      /\ Question \in Topics
  BY PresentQuestion
<1>2. /\ UNCHANGED <<engine, errand, refused, answered>> /\ late \subseteq late'
      /\ Asked' = Asked
  BY DEF Disposed, Asked
<1>3. /\ verdict = "none" /\ (\A j \in 1..(at - 1) : Settled(Asked[j]))
      /\ \A q \in Topics : figures[q] \in {q, Absent} \/ (Overtaken(q) /\ figures[q] = "size")
      /\ \A q \in refused : \E j \in 1..at : q = Asked[j]
  BY DEF Progress
<1>4. \A q \in Topics : figures'[q] \in {q, Absent} \/ (Overtaken(q)' /\ figures'[q] = "size")
  <2>1. \A q : Overtaken(q) => Overtaken(q)'
    BY <1>2 DEF Overtaken
  <2>2. Behindhand => Overtaken(Question)
    BY <1>1 DEF Behindhand, Overtaken
  <2>3. \A q \in Topics \ {Question} : figures'[q] = figures[q]
    BY DEF Disposed
  <2>4. \/ figures'[Question] \in {figures[Question], Question}
        \/ Behindhand /\ figures'[Question] = "size"
    BY DEF Disposed
  <2>5. QED
    BY <1>3, <2>1, <2>2, <2>3, <2>4
<1>5. verdict' = "ok" =>
        \A q \in ToSet(Asked)' \ Optional : q \in answered' /\ figures'[q] = q
  BY <1>2, DisposedOfAll
<1>6. CASE pc' = "idle"
  BY <1>4, <1>5, <1>6 DEF Progress
<1>7. CASE GoesOn(rest)
  <2>1. pc' = "ask" /\ at' = at + 1 /\ UNCHANGED <<verdict, up>> /\ at < Len(Asked)
    BY <1>7 DEF GoesOn
  <2>2. ~Over /\ ~Behindhand
    BY <1>1, <2>1 DEF Over, Behindhand
  <2>3. /\ \A q \in Topics \ {Question} : figures'[q] = figures[q]
        /\ Question \notin Optional => figures'[Question] = Question /\ Question \in answered
        /\ up => figures'[Question] = Question \/ Question \in refused \cup late'
    BY <2>2 DEF Disposed
  <2>4. \A j \in 1..(at' - 1) : Settled(Asked[j])'
    <3>1. ASSUME NEW j \in 1..(at' - 1) PROVE Settled(Asked[j])'
      <4>1. j \in 1..at /\ j \in 1..Len(Asked)
        BY <1>1, <2>1
      <4>2. CASE j = at
        BY <1>1, <1>2, <2>1, <2>3, <4>2 DEF Settled
      <4>3. CASE j /= at
        <5>1. j \in 1..(at - 1) /\ Asked[j] /= Question /\ Asked[j] \in Topics
          BY <1>1, <4>1, <4>3
        <5>2. Settled(Asked[j])
          BY <1>3, <5>1
        <5>3. QED
          BY <1>2, <2>1, <2>3, <5>1, <5>2 DEF Settled
      <4>4. QED
        BY <4>2, <4>3
    <3>2. QED
      BY <3>1
  <2>5. \A q \in refused' : \E j \in 1..at' : q = Asked'[j]
    <3>1. \A j \in 1..at : j \in 1..at'
      BY <1>1, <2>1
    <3>2. QED
      BY <1>2, <1>3, <3>1
  <2>6. Question' \notin refused'
    <3>1. Question' = Asked[at + 1] /\ at + 1 \in 1..Len(Asked)
      BY <1>1, <1>2, <2>1 DEF Question
    <3>2. \A j \in 1..at : j \in 1..Len(Asked) /\ j /= at + 1
      BY <1>1
    <3>3. QED
      BY <1>1, <1>2, <1>3, <3>1, <3>2
  <2>7. QED
    BY <1>3, <1>4, <1>5, <2>1, <2>4, <2>5, <2>6 DEF Progress
<1>8. QED
  BY <1>6, <1>7 DEF Disposed, Over

\* A step that is done with no question keeps what is known of the earlier ones.
LEMMA NoQuestionDone ==
    ASSUME TypeOK, Progress, UNCHANGED <<engine, errand, at, figures, late>>,
           refused \subseteq refused', answered \subseteq answered',
           \A q \in refused' : q \in refused \/ q = Question,
           pc' = "idle" => verdict' /= "ok" \/ verdict' = verdict,
           pc' /= "idle" =>
             pc /= "idle" /\ verdict' = verdict /\ ((up' => up) \/ at = 1),
           pc' \in {"dial", "greet", "ask"} =>
             pc \in {"dial", "greet", "ask"} /\ refused' = refused
    PROVE  Progress'
<1>1. Asked' = Asked /\ Question' = Question /\ Question = Asked[at]
      /\ at \in 1..Len(Asked) /\ Len(Asked) \in 1..4
  BY PresentQuestion DEF Asked, Question
<1>2. \A q \in Topics : figures'[q] \in {q, Absent} \/ (Overtaken(q)' /\ figures'[q] = "size")
  BY DEF Progress, Overtaken
<1>3. verdict' = "ok" =>
        \A q \in ToSet(Asked)' \ Optional : q \in answered' /\ figures'[q] = q
  <2>1. verdict' = "ok" => verdict = "ok"
    OBVIOUS
  <2>2. QED
    BY <1>1, <2>1 DEF Progress
<1>4. pc' /= "idle" => \A j \in 1..(at' - 1) : Settled(Asked[j])'
  <2>1. SUFFICES ASSUME pc' /= "idle", NEW j \in 1..(at - 1) PROVE Settled(Asked[j])'
    OBVIOUS
  <2>2. Settled(Asked[j]) /\ at /= 1
    BY <1>1, <2>1 DEF Progress
  <2>3. QED
    BY <1>1, <2>1, <2>2 DEF Settled
<1>5. pc' /= "idle" => \A q \in refused' : \E j \in 1..at' : q = Asked'[j]
  BY <1>1 DEF Progress
<1>6. pc' \in {"dial", "greet", "ask"} => Question' \notin refused'
  BY <1>1 DEF Progress
<1>7. QED
  BY <1>2, <1>3, <1>4, <1>5, <1>6 DEF Progress

LEMMA VisitProgresses ==
    ASSUME TypeOK, Connection, Pertinent, Progress, Next
    PROVE  Progress'
<1>1. ASSUME NEW e \in Engines, NEW k \in Errands, Begin(e, k) PROVE Progress'
  <2>1. /\ at' = 1 /\ verdict' = "none" /\ refused' = {} /\ pc' = "dial"
        /\ figures' = [q \in Topics |-> Absent]
    BY <1>1 DEF Begin, NoFigures
  <2>2. 1..(at' - 1) = {}
    BY <2>1
  <2>3. \A q \in Topics : figures'[q] \in {q, Absent}
    BY <2>1
  <2>4. QED
    BY <2>1, <2>2, <2>3 DEF Progress
<1>2. CASE DialSucceeds
  <2>1. /\ UNCHANGED <<engine, errand, at, figures, verdict, refused, late, answered>>
        /\ pc = "dial" /\ pc' \in {"greet", "ask"} /\ at = 1
    BY <1>2 DEF DialSucceeds, Connection, historyVars
  <2>2. QED
    BY <2>1, NoQuestionDone
<1>3. CASE DialFails \/ GreetingFails
  <2>1. /\ UNCHANGED <<engine, errand, at, figures, refused, late, answered>>
        /\ pc' = "idle" /\ verdict' = "failed"
    BY <1>3 DEF DialFails, GreetingFails, Fails, Finish, historyVars
  <2>2. QED
    BY <2>1, NoQuestionDone
<1>4. CASE ReadGreeting
  <2>1. /\ UNCHANGED <<engine, errand, at, figures, refused, late, answered>> /\ pc = "greet"
        /\ \/ pc' = "idle" /\ verdict' = "failed"
           \/ pc' \in {"greet", "ask"} /\ verdict' = verdict /\ up' = up
    BY <1>4 DEF ReadGreeting, Fails, Finish, historyVars
  <2>2. QED
    BY <2>1, NoQuestionDone
<1>5. CASE Ask
  <2>1. /\ UNCHANGED <<engine, errand, at, figures, verdict, up, late, answered>>
        /\ pc = "ask" /\ pc' = "wait" /\ refused' \in {refused, refused \cup {Question}}
    BY <1>5 DEF Ask
  <2>2. QED
    BY <2>1, NoQuestionDone
<1>6. CASE AskFails \/ ReadLast \/ WaitFails
  <2>1. PICK rest : Disposed(rest)
    BY <1>6, QuestionDisposed
  <2>2. pc /= "idle"
    BY <1>6 DEF AskFails, ReadLast, WaitFails
  <2>3. QED
    BY <2>1, <2>2, DisposedProgress
<1>7. CASE ReadMore \/ Tick \/ ServerCloses \/ ServerSends
  <2>1. /\ UNCHANGED <<engine, errand, pc, at, figures, verdict, refused, late>>
        /\ answered \subseteq answered' /\ (up' => up) /\ pc /= "idle"
    BY <1>7 DEF ReadMore, Tick, ServerCloses, ServerSends, clientVars, serverVars, historyVars
  <2>2. QED
    BY <2>1, NoQuestionDone
<1>8. QED
  BY <1>1, <1>2, <1>3, <1>4, <1>5, <1>6, <1>7 DEF Next, ClientStep

\* The invariant of a visit.
VisitInv == TypeOK /\ Connection /\ Pertinent /\ Progress /\ InTime

LEMMA VisitInvInit == Init => VisitInv
<1> SUFFICES ASSUME Init PROVE VisitInv
  OBVIOUS
<1>1. /\ Asked = Questions(engine, errand) /\ Len(Questions(engine, errand)) \in 1..4
  BY QuestionsOfAVisit DEF Init, Asked
<1>2. TypeOK
  <2>1. at \in 1..Len(Asked) /\ left \in 0..ProbeTimeout
    BY <1>1, StatsSessionAssumption DEF Init
  <2>2. <<>> \in Seq(Topics) /\ <<>> \in Seq(Messages)
    OBVIOUS
  <2>3. figures \in [Topics -> Topics \cup {Absent}]
    BY DEF Init, NoFigures
  <2>4. QED
    BY <2>1, <2>2, <2>3 DEF Init, TypeOK
<1>3. Connection /\ Pertinent
  <2>1. wire = <<>> /\ server = <<>> /\ ~up /\ pc = "idle" /\ 1..Len(wire) = {}
    BY DEF Init
  <2>2. QED
    BY <2>1 DEF Connection, Pertinent
<1>4. Progress
  <2>1. figures = [q \in Topics |-> Absent] /\ verdict = "none" /\ pc = "idle"
    BY DEF Init, NoFigures
  <2>2. QED
    BY <2>1 DEF Progress
<1>5. InTime
  <2>1. 1 \in 1..Len(Asked) /\ Len(Asked) \in 1..4
    BY <1>1
  <2>2. ProbeTimeout * (2 + Len(Asked)) \in Nat
    BY <2>1, Waits
  <2>3. elapsed = 0 /\ pc = "idle"
    BY DEF Init
  <2>4. QED
    BY <2>2, <2>3 DEF InTime, VisitIsBounded
<1>6. QED
  BY <1>2, <1>3, <1>4, <1>5 DEF VisitInv

LEMMA VisitStays == VisitInv /\ UNCHANGED vars => VisitInv'
<1> SUFFICES ASSUME VisitInv, UNCHANGED vars PROVE VisitInv'
  OBVIOUS
<1>1. /\ UNCHANGED <<engine, errand, pc, at, left, rows, queryErr, figures, verdict>>
      /\ UNCHANGED <<server, wire, up, elapsed, refused, late, answered>>
  BY DEF vars, clientVars, serverVars, historyVars
<1>2. Asked' = Asked /\ Question' = Question /\ Stream' = Stream /\ Behindhand' = Behindhand
  BY <1>1 DEF Asked, Question, Stream, Behindhand
<1>3. TypeOK'
  BY <1>1, <1>2 DEF VisitInv, TypeOK
<1>4. (Greeted => Greeted') /\ (Answering => Answering')
  BY <1>1, <1>2 DEF Greeted, Answering
<1>5. Connection' /\ Pertinent'
  <2>1. Put' = Put
    BY <1>2 DEF Put
  <2>2. QED
    BY <1>1, <1>2, <1>4, <2>1 DEF VisitInv, Connection, Pertinent
<1>6. Progress'
  <2>1. /\ \A q : Overtaken(q) => Overtaken(q)'
        /\ \A j \in 1..(at - 1) : Settled(Asked[j]) => Settled(Asked[j])'
    BY <1>1, <1>2 DEF Overtaken, Settled
  <2>2. ToSet(Asked)' = ToSet(Asked)
    BY <1>2
  <2>3. QED
    BY <1>1, <1>2, <2>1, <2>2 DEF VisitInv, Progress
<1>7. InTime'
  BY <1>1, <1>2 DEF VisitInv, InTime, VisitIsBounded
<1>8. QED
  BY <1>3, <1>5, <1>6, <1>7 DEF VisitInv

LEMMA VisitStepKeeps == VisitInv /\ [SurveyNext]_<<vars, walkVars>> => VisitInv'
<1> SUFFICES ASSUME VisitInv, [SurveyNext]_<<vars, walkVars>> PROVE VisitInv'
  OBVIOUS
<1>1. CASE Next
  BY <1>1, VisitTyped, VisitConnects, VisitKeepsToTheSubject, VisitProgresses, VisitInTime
  DEF VisitInv
<1>2. CASE UNCHANGED vars
  BY <1>2, VisitStays
<1>3. QED
  BY <1>1, <1>2 DEF SurveyNext

LEMMA VisitAlways == SurveySpec => []VisitInv
<1>1. SurveyInit => VisitInv
  BY VisitInvInit DEF SurveyInit
<1>2. QED
  BY <1>1, VisitStepKeeps, PTL DEF SurveySpec

\* The values of a visit keep their types, whatever the engine sends and whenever it
\* stops: only rows of a known question are ever collected.
THEOREM VisitTypeCorrect == SurveySpec => []TypeOK
<1>1. VisitInv => TypeOK
  BY DEF VisitInv
<1>2. QED
  BY <1>1, VisitAlways, PTL

\* However slowly an engine trickles its messages, a visit takes no longer than one
\* wait to connect, one to be let in and one per question (engines.go:134-135).
THEOREM WedgedEngineCostsAReading == SurveySpec => []VisitIsBounded
<1>1. VisitInv => VisitIsBounded
  BY DEF VisitInv, InTime
<1>2. QED
  BY <1>1, VisitAlways, PTL

\* What a visit brings home was said in answer to the question it is filed under,
\* but for the size of a postgres that came too late and is filed as longestQueryS,
\* and no essential figure is missing from one that ended well (pg.go:35-36, 213-277).
THEOREM FiguresStayTheirOwn == SurveySpec => []FiguresAreTheirOwn
<1>1. VisitInv => FiguresAreTheirOwn
  BY DEF VisitInv, Progress, FiguresAreTheirOwn
<1>2. QED
  BY <1>1, VisitAlways, PTL

\* A step of a visit that ends it does so for a reason of its own.
LEMMA EndsForAReason ==
    ASSUME VisitInv, Next
    PROVE  /\ (verdict' = "ok" /\ verdict /= "ok" /\ up) =>
                \A q \in ToSet(Asked) :
                  \/ figures'[q] = q \/ q \in refused \cup late'
                  \/ Overtaken(q) /\ figures'[q] \in {"size", Absent}
           /\ (verdict' = "failed" /\ verdict /= "failed") => Question \notin Optional
<1>0. TypeOK /\ Connection /\ Pertinent /\ Progress
  BY DEF VisitInv
<1>1. CASE AskFails \/ ReadLast \/ WaitFails
  <2>1. PICK rest : Disposed(rest)
    BY <1>0, <1>1, QuestionDisposed
  <2>2. pc /= "idle"
    BY <1>1 DEF AskFails, ReadLast, WaitFails
  <2>3. verdict' = "ok" /\ up =>
          \A q \in ToSet(Asked) :
            \/ figures'[q] = q \/ q \in refused \cup late'
            \/ Overtaken(q) /\ figures'[q] \in {"size", Absent}
    <3>1. SUFFICES ASSUME verdict' = "ok", up, NEW q \in ToSet(Asked)
                   PROVE  \/ figures'[q] = q \/ q \in refused \cup late'
                          \/ Overtaken(q) /\ figures'[q] \in {"size", Absent}
      OBVIOUS
    <3>2. figures'[q] = q \/ q \in refused \cup late' \/ Overtaken(q)
      BY <1>0, <2>1, <2>2, <3>1, DisposedOfAll
    <3>3. Progress'
      BY <1>0, <2>1, <2>2, DisposedProgress
    <3>4. Overtaken(q) => q \in Topics
      BY DEF Overtaken, Topics
    <3>5. QED
      BY <3>2, <3>3, <3>4 DEF Progress
  <2>4. verdict' = "failed" /\ verdict /= "failed" => Question \notin Optional
    BY <2>1 DEF Disposed, GoesOn
  <2>5. QED
    BY <2>3, <2>4
<1>2. CASE DialFails \/ GreetingFails \/ ReadGreeting
  <2>1. pc \in {"dial", "greet"} /\ verdict' \in {verdict, "failed"}
    BY <1>2 DEF DialFails, GreetingFails, ReadGreeting, Fails, Finish
  <2>2. at = 1
    BY <1>0, <2>1 DEF Connection
  <2>3. Question \notin Optional
    BY <1>0, <2>2, PresentQuestion
  <2>4. QED
    BY <2>1, <2>3
<1>3. CASE \/ \E e \in Engines, k \in Errands : Begin(e, k)
           \/ DialSucceeds \/ Ask \/ ReadMore \/ Tick \/ ServerSends \/ ServerCloses
  <2>1. verdict' \in {verdict, "none"}
    BY <1>3 DEF Begin, DialSucceeds, Ask, ReadMore, Tick, ServerSends, ServerCloses, clientVars
  <2>2. QED
    BY <2>1
<1>4. QED
  BY <1>1, <1>2, <1>3 DEF Next, ClientStep

\* An optional figure that is missing is missing for a reason of its own and never
\* costs the visit, and only in one case another figure: a size that comes too late
\* leaves longestQueryS absent or holding the size (pg.go:228-229, 266-277,
\* mysql.go:356-361).
THEOREM OptionalFiguresAreOptional == SurveySpec => DegradesOnItsOwn
<1>1. VisitInv /\ [SurveyNext]_<<vars, walkVars>> =>
        [/\ (verdict' = "ok" /\ verdict /= "ok" /\ up) =>
              \A q \in ToSet(Asked) :
                \/ figures'[q] = q \/ q \in refused \cup late'
                \/ Overtaken(q) /\ figures'[q] \in {"size", Absent}
         /\ (verdict' = "failed" /\ verdict /= "failed") => Question \notin Optional]_vars
  BY EndsForAReason DEF SurveyNext
<1>2. QED
  BY <1>1, VisitAlways, PTL DEF SurveySpec, DegradesOnItsOwn
============================================================================
