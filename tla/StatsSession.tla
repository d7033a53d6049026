---------------------------- MODULE StatsSession ----------------------------
(***************************************************************************)
(* One visit to a database engine over its socket: the trivial question of *)
(* a probe, or the statistics of a deep sample.  The three clients differ  *)
(* in how they greet and in what ends an answer; all of them wait at most  *)
(* ProbeTimeout to connect, as long again to be let in, and as long again  *)
(* for each question.                                                      *)
(*                                                                         *)
(* The engine keeps to its protocol: it takes questions in order, answers  *)
(* each with one row or an error, may put notices in between, may be slow  *)
(* or silent at any point, and may close the connection.  The client reads *)
(* what has arrived at once, so time passes only while nothing is there.   *)
(***************************************************************************)
EXTENDS Integers, Sequences, FiniteSets, SequencesExt

CONSTANTS
    ProbeTimeout,  \* probeTimeout, in ticks of the model's clock
    MaxNotices     \* bound: messages read past in one answer

ASSUME StatsSessionAssumption == ProbeTimeout \in Nat \ {0} /\ MaxNotices \in Nat

Engines == {"postgres", "mysql", "redis"}
Errands == {"probe", "deep"}

\* The questions of a visit, in the order they are put.
Questions(e, errand) ==
    CASE errand = "probe" -> <<"one">>
      [] errand = "deep" /\ e = "postgres" -> <<"activity", "database", "size", "longest">>
      [] errand = "deep" /\ e = "mysql" -> <<"status", "max", "longest">>
      [] errand = "deep" /\ e = "redis" -> <<"info">>

Topics == {"one", "activity", "database", "size", "longest", "status", "max", "info"}

\* What a role may be refused without losing the rest of the reading.
Optional == {"size", "longest"}

\* Columns of the row each question is answered with.
Width(q) == CASE q \in {"activity", "status", "max"} -> 2
              [] q = "database" -> 3
              [] OTHER -> 1

Absent == "absent"
Hello == "hello"           \* the exchange before the first question
Kinds == {"greeting", "switch", "password", "note", "row", "error", "end"}
Messages == [of : Topics \cup {Hello}, kind : Kinds]

VARIABLES
    engine, errand,
    pc,            \* idle, dial, greet, ask or wait
    at,            \* which question
    left,          \* time to the deadline of the connection
    rows,          \* of which questions the rows read so far are
    queryErr,      \* query's remembered error (postgres)
    figures,       \* the figures filled in: which question's row is in each
    verdict,       \* how the last visit ended
    \* the engine and the connection
    server,        \* messages the engine will still send
    wire,          \* messages arrived and not yet read
    up,            \* the connection is open
    \* history of the visit
    elapsed, refused, late, answered

clientVars == <<engine, errand, pc, at, left, rows, queryErr, figures, verdict>>
serverVars == <<server, wire, up>>
historyVars == <<elapsed, refused, late, answered>>
vars == <<clientVars, serverVars, historyVars>>

Asked == Questions(engine, errand)
Question == Asked[at]

TypeOK ==
    /\ engine \in Engines /\ errand \in Errands
    /\ pc \in {"idle", "dial", "greet", "ask", "wait"}
    /\ at \in 1..Len(Asked)
    /\ left \in 0..ProbeTimeout
    /\ rows \in Seq(Topics) /\ queryErr \in BOOLEAN
    /\ figures \in [Topics -> Topics \cup {Absent}]
    /\ verdict \in {"none", "ok", "failed"}
    /\ server \in Seq(Messages) /\ wire \in Seq(Messages) /\ up \in BOOLEAN
    /\ elapsed \in Nat
    /\ refused \in SUBSET Topics /\ late \in SUBSET Topics /\ answered \in SUBSET Topics

NoFigures == [q \in Topics |-> Absent]

Init ==
    /\ engine \in Engines /\ errand \in Errands
    /\ pc = "idle" /\ at = 1 /\ left = 0 /\ rows = <<>> /\ queryErr = FALSE
    /\ figures = NoFigures /\ verdict = "none"
    /\ server = <<>> /\ wire = <<>> /\ up = FALSE
    /\ elapsed = 0 /\ refused = {} /\ late = {} /\ answered = {}

----------------------------------------------------------------------------
(* What the engine says *)

Says(q, kinds) == [i \in 1..Len(kinds) |-> [of |-> q, kind |-> kinds[i]]]
Notices == {[i \in 1..n |-> "note"] : n \in 0..MaxNotices}

\* To a client that has just connected, or has sent its credentials.
Welcomes(e) ==
    CASE e = "postgres" -> {n \o <<"end">> : n \in Notices} \cup {<<"password">>, <<"error">>}
      [] e = "mysql" -> {<<"greeting">>, <<"error">>}
      [] OTHER -> {<<>>}
Verdicts == {n \o <<"end">> : n \in Notices} \cup {<<"switch">>, <<"error">>}

\* To a question: postgres ends a refusal like any other answer.
Answers(e) == {n \o <<"row", "end">> : n \in IF e = "redis" THEN {<<>>} ELSE Notices}
Refusal(e) == IF e = "postgres" THEN <<"error", "end">> ELSE <<"error">>

ServerSends ==
    /\ pc \in {"greet", "wait"} /\ up /\ server /= <<>>
    /\ wire' = Append(wire, Head(server)) /\ server' = Tail(server)
    /\ answered' = IF Head(server).kind = "end" /\ Head(server).of \in Topics \ refused
                   THEN answered \cup {Head(server).of} ELSE answered
    /\ UNCHANGED <<clientVars, up, elapsed, refused, late>>

\* The engine is stopped, or ends the session.
ServerCloses ==
    /\ pc \in {"greet", "ask", "wait"} /\ up
    /\ up' = FALSE /\ server' = <<>>
    /\ UNCHANGED <<clientVars, wire, historyVars>>

\* Time passes while the client waits.
Tick ==
    /\ pc \in {"dial", "greet", "wait"} /\ wire = <<>> /\ left > 0
    /\ pc = "dial" \/ up
    /\ left' = left - 1 /\ elapsed' = elapsed + 1
    /\ UNCHANGED <<engine, errand, pc, at, rows, queryErr, figures, verdict, serverVars,
                   refused, late, answered>>

----------------------------------------------------------------------------
(* The client *)

\* firstSocket found one: probe or deepSample picks the client.
Begin(e, k) ==
    /\ pc = "idle"
    /\ engine' = e /\ errand' = k /\ pc' = "dial" /\ at' = 1 /\ left' = ProbeTimeout
    /\ rows' = <<>> /\ queryErr' = FALSE /\ figures' = NoFigures /\ verdict' = "none"
    /\ elapsed' = 0 /\ refused' = {} /\ late' = {} /\ answered' = {}
    /\ UNCHANGED serverVars

\* The visit is over and the connection closed, whichever way the function returns.
Finish(how) ==
    /\ verdict' = how /\ pc' = "idle"
    /\ up' = FALSE /\ server' = <<>> /\ wire' = <<>>

Fails == Finish("failed") /\ UNCHANGED <<at, figures>>

\* Connected: a new deadline.  Redis has no greeting.
DialSucceeds ==
    /\ pc = "dial"
    /\ up' = TRUE /\ left' = ProbeTimeout
    /\ pc' = IF engine = "redis" THEN "ask" ELSE "greet"
    /\ \E w \in Welcomes(engine) : server' = Says(Hello, w)
    /\ UNCHANGED <<engine, errand, at, rows, queryErr, figures, verdict, wire, historyVars>>

\* Refused at once, or no longer waited for.
DialFails ==
    /\ pc = "dial"
    /\ Fails
    /\ UNCHANGED <<engine, errand, left, rows, queryErr, historyVars>>

\* A read after the deadline fails, whatever has arrived by then, and so does one
\* at the end of a closed connection.
CanRead == left > 0 /\ wire /= <<>>
ReadFails == left = 0 \/ (wire = <<>> /\ ~up)

\* startup and handshake: read until the engine lets the client in.  There is no
\* password to give; mysql's wish for another plugin gets the empty answer.
ReadGreeting ==
    /\ pc = "greet" /\ CanRead
    /\ LET kind == Head(wire).kind IN
       \/ /\ kind = "note"
          /\ wire' = Tail(wire)
          /\ UNCHANGED <<pc, at, figures, verdict, server, up>>
       \/ /\ kind \in {"greeting", "switch"} /\ up
          /\ wire' = Tail(wire)
          /\ \E v \in Verdicts : server' = server \o Says(Hello, v)
          /\ UNCHANGED <<pc, at, figures, verdict, up>>
       \/ /\ kind \in {"password", "error"} \/ (kind \in {"greeting", "switch"} /\ ~up)
          /\ Fails
       \/ /\ kind = "end"
          /\ wire' = Tail(wire) /\ pc' = "ask"
          /\ UNCHANGED <<at, figures, verdict, server, up>>
    /\ UNCHANGED <<engine, errand, left, rows, queryErr, historyVars>>

GreetingFails ==
    /\ pc = "greet" /\ ReadFails
    /\ Fails
    /\ UNCHANGED <<engine, errand, left, rows, queryErr, historyVars>>

\* Mutant: one question too many is put.
MoveOnPastTheLast(rest) ==
    IF at > Len(Asked) THEN Finish("ok") /\ UNCHANGED at
    ELSE at' = at + 1 /\ pc' = "ask" /\ wire' = rest /\ UNCHANGED <<verdict, server, up>>

\* On to the next question, or home with the figures; rest stays on the wire.
MoveOn(rest) ==
    IF at = Len(Asked) THEN Finish("ok") /\ UNCHANGED at
    ELSE at' = at + 1 /\ pc' = "ask" /\ wire' = rest /\ UNCHANGED <<verdict, server, up>>

\* Mutant: a failed question is passed over, whatever it was about.
QueryFailsNever(rest) == MoveOn(rest) /\ UNCHANGED figures

\* query returned an error: what is optional is passed over.
QueryFails(rest) ==
    IF errand = "deep" /\ Question \in Optional THEN MoveOn(rest) /\ UNCHANGED figures
    ELSE Fails

\* One row of the width asked for.
Fits == Len(rows) = 1 /\ Width(rows[1]) = Width(Question)

\* query returned the rows read so far.
QuerySucceeds(rest) ==
    IF Fits THEN /\ figures' = [figures EXCEPT ![Question] = rows[1]]
                 /\ MoveOn(rest)
    ELSE IF engine = "postgres" /\ errand = "deep" /\ Question \notin Optional THEN Fails
    ELSE MoveOn(rest) /\ UNCHANGED figures

\* query: the deadline is renewed and the question sent.
Ask ==
    /\ pc = "ask" /\ up
    /\ left' = ProbeTimeout
    /\ rows' = <<>> /\ queryErr' = FALSE
    /\ pc' = "wait"
    /\ \/ /\ \E a \in Answers(engine) : server' = server \o Says(Question, a)
          /\ UNCHANGED refused
       \/ /\ server' = server \o Says(Question, Refusal(engine))
          /\ refused' = refused \cup {Question}
    /\ UNCHANGED <<engine, errand, at, figures, verdict, wire, up, elapsed, late, answered>>

AskFails ==
    /\ pc = "ask" /\ ~up
    /\ left' = ProbeTimeout
    /\ QueryFails(wire)
    /\ UNCHANGED <<engine, errand, rows, queryErr, historyVars>>

\* Mutant: an error ends the reading of an answer in postgres too.
EndsAnswerAtError(kind) == kind \in {"end", "error"}

\* What query reads up to: postgres reads on after an error, so that the end of
\* this answer is not taken for the end of the next.
EndsAnswer(kind) == kind = "end" \/ (kind = "error" /\ engine /= "postgres")

\* Mutant: the deadline is renewed for every message, not for every question.
DeadlineAfterMessageRenewed == left' = ProbeTimeout

\* Reading a message leaves the deadline where it is.
DeadlineAfterMessage == UNCHANGED left

\* One message of an answer is read: it adds a row, an error or nothing.
ReadMore ==
    /\ pc = "wait" /\ CanRead /\ ~EndsAnswer(Head(wire).kind)
    /\ rows' = IF Head(wire).kind = "row" THEN Append(rows, Head(wire).of) ELSE rows
    /\ queryErr' = (queryErr \/ Head(wire).kind = "error")
    /\ wire' = Tail(wire)
    /\ DeadlineAfterMessage
    /\ UNCHANGED <<engine, errand, pc, at, figures, verdict, server, up, historyVars>>

\* The message that ends the answer: query returns.
ReadLast ==
    /\ pc = "wait" /\ CanRead /\ EndsAnswer(Head(wire).kind)
    /\ IF queryErr \/ Head(wire).kind = "error" THEN QueryFails(Tail(wire))
       ELSE QuerySucceeds(Tail(wire))
    /\ UNCHANGED <<engine, errand, left, rows, queryErr, historyVars>>

\* Nothing more comes in time: query returns an error, and the engine's answer,
\* if it is still working on it, stays to come.
WaitFails ==
    /\ pc = "wait" /\ ReadFails
    /\ late' = IF up THEN late \cup {Question} ELSE late
    /\ QueryFails(wire)
    /\ UNCHANGED <<engine, errand, left, rows, queryErr, elapsed, refused, answered>>

ClientStep ==
    \/ DialSucceeds \/ DialFails \/ ReadGreeting \/ GreetingFails
    \/ Ask \/ AskFails \/ ReadMore \/ ReadLast \/ WaitFails

Next ==
    \/ \E e \in Engines, k \in Errands : Begin(e, k)
    \/ ClientStep \/ Tick
    \/ ServerSends \/ ServerCloses

Spec == Init /\ [][Next]_vars

----------------------------------------------------------------------------
\* A visit takes no longer than the waits it is allowed: one to connect, one to
\* be let in, one per question, however the engine spaces its messages.  "A
\* wedged engine must cost us a reading, never the agent" (engines.go:134-135).
VisitIsBounded == elapsed <= ProbeTimeout * (2 + Len(Asked))

\* The exception to the two properties below.  When the wait for the size of a
\* postgres is given up, the connection is used on, and what is read as the answer
\* to the next question is the late answer to that one (pg.go:266-277).
Overtaken(q) == engine = "postgres" /\ q = "longest" /\ "size" \in late

\* What a visit brings home was said in answer to the question it is filed under,
\* "connectable" included (pg.go:35-36), and no essential figure is missing.  Only
\* longestQueryS may hold another one, the size whose answer came too late.
FiguresAreTheirOwn ==
    /\ \A q \in Topics :
         figures[q] \in {q, Absent} \/ (Overtaken(q) /\ figures[q] = "size")
    /\ verdict = "ok" =>
         \A q \in ToSet(Asked) \ Optional : q \in answered /\ figures[q] = q

\* An optional figure is missing for a reason of its own: the engine refused that
\* question, did not answer it in time or closed the connection; and it never costs
\* the essentials, which alone can fail a visit (mysql.go:356-361).  "Each degrades
\* to absent on its own" (pg.go:228-229) has one exception: a size that comes too
\* late takes longestQueryS with it, which is then absent or holds the size.
DegradesOnItsOwn ==
    [][/\ (verdict' = "ok" /\ verdict /= "ok" /\ up) =>
            \A q \in ToSet(Asked) :
              \/ figures'[q] = q \/ q \in refused \cup late'
              \/ Overtaken(q) /\ figures'[q] \in {"size", Absent}
       /\ (verdict' = "failed" /\ verdict /= "failed") => Question \notin Optional]_vars
============================================================================
