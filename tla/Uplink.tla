------------------------------- MODULE Uplink -------------------------------
(***************************************************************************)
(* The agent's reporting loop: take a reading each tick, hold it in the    *)
(* bounded buffer, and send the backlog oldest first, at most MaxSends     *)
(* readings a tick, backing off while the platform cannot be reached.      *)
(* Outcomes of authorised actions and the survey of the machine ride along *)
(* with a reading and are let go of once a send has succeeded.             *)
(*                                                                         *)
(* What the platform does with a send is the caller's choice: an action of *)
(* this module is what the agent makes of one kind of answer.  Reporting   *)
(* composes it with the platform.                                          *)
(*                                                                         *)
(* Time is counted in units smaller than a tick.  nextAttempt is kept as   *)
(* the time that remains until it, as seen from the tick in progress.      *)
(***************************************************************************)
EXTENDS Integers, Sequences

CONSTANTS
    Readings,      \* collect.Sample values
    Results,       \* spool.Result values
    Capacity,      \* bufferCapacity
    MaxSends,      \* maxSendsPerTick
    Interval,      \* the configured reporting interval
    MinInterval, MaxInterval,   \* the range of config.ClampInterval
    MaxBackoff,    \* maxBackoff
    RetryAfters,   \* values of the Retry-After header, 0 for none
    Wishes,        \* values of next_interval_seconds in a reply, 0 for none
    MaxSpent,      \* bound: time a failing flush can take
    MaxFailures    \* bound: where the failure count saturates

ASSUME UplinkAssumption ==
    /\ Capacity \in Nat \ {0} /\ MaxSends \in Nat \ {0}
    /\ MinInterval \in Nat \ {0} /\ MaxInterval \in Nat /\ MinInterval <= MaxInterval
    /\ Interval \in MinInterval..MaxInterval
    /\ MaxBackoff \in Nat \ {0}
    /\ RetryAfters \subseteq Nat /\ Wishes \subseteq Nat
    /\ MaxSpent \in Nat /\ MaxFailures \in Nat \ {0}

VARIABLES
    pc,            \* "idle" between ticks, "flush" inside agent.flush
    queue,         \* buffer.items
    results,       \* agent.pendingResults
    survey,        \* the pending surveys, which are taken and sent together
    sent,          \* sends made by this flush
    failures,      \* agent.consecutiveFailures
    wait,          \* time until agent.nextAttempt
    interval,      \* agent.interval
    requested      \* agent.requested, 0 for none

uplinkVars ==
    <<pc, queue, results, survey, sent, failures, wait, interval, requested>>

\* wait is typed, and bounded, by Reporting's BackoffEnds.
UplinkTypeOK ==
    /\ pc \in {"idle", "flush"}
    /\ queue \in Seq(Readings) /\ Len(queue) <= Capacity
    /\ results \in SUBSET Results
    /\ survey \in {"nil", "found"}
    /\ sent \in 0..MaxSends
    /\ failures \in 0..MaxFailures
    /\ interval \in MinInterval..MaxInterval
    /\ requested \in {0} \cup MinInterval..MaxInterval

UplinkInit ==
    /\ pc = "idle" /\ queue = <<>> /\ results = {} /\ survey = "nil"
    /\ sent = 0 /\ failures = 0 /\ wait = 0
    /\ interval = Interval /\ requested = 0

----------------------------------------------------------------------------
(* buffer.go *)

\* Mutant: the capacity is never enforced.
PushUnbounded(q, r) == Append(q, r)

\* push discards the oldest reading when the buffer is full.
Push(q, r) == Append(IF Len(q) >= Capacity THEN Tail(q) ELSE q, r)

(* config.ClampInterval *)
ClampInterval(d) ==
    IF d < MinInterval THEN MinInterval ELSE IF d > MaxInterval THEN MaxInterval ELSE d

\* agent.backoff: Retry-After as it stands, or the interval doubled for every
\* failure after the first until it has reached MaxBackoff, and then cut to it.
Backoff(retryAfter, n) ==
    LET doubled[i \in 1..n] ==
          IF i = 1 THEN interval
          ELSE IF doubled[i - 1] < MaxBackoff THEN 2 * doubled[i - 1]
          ELSE doubled[i - 1]
    IN  IF retryAfter > 0 THEN retryAfter
        ELSE IF doubled[n] > MaxBackoff THEN MaxBackoff ELSE doubled[n]

\* The wait that is left one interval later.
Elapsed == IF wait > interval THEN wait - interval ELSE 0

\* The tick returns, and run adopts the cadence the platform asked for.
EndTick ==
    /\ pc' = "idle"
    /\ interval' = IF requested = 0 THEN interval ELSE requested

----------------------------------------------------------------------------
(* The tick *)

\* What the executor has finished joins the outcomes waiting to be told.
CollectResults(news) == results' = results \cup news

\* The machine is surveyed again when its own slow clock says so.
SurveyLogs(due) == survey' = IF due THEN "found" ELSE survey

\* The outage, if there was one, is over, and a wish for another interval noted.
OnSuccess(wish) ==
    /\ failures' = 0 /\ wait' = 0
    /\ requested' = IF wish > 0 THEN ClampInterval(wish) ELSE requested

\* Mutant: a tick that is still backing off starts the wait over.
TickRearming(r, news, due) ==
    /\ pc = "idle"
    /\ queue' = Push(queue, r)
    /\ results' = results \cup news
    /\ survey' = IF due THEN "found" ELSE survey
    /\ wait' = IF Elapsed > 0 THEN wait ELSE 0
    /\ sent' = 0
    /\ pc' = IF Elapsed > 0 THEN "idle" ELSE "flush"
    /\ UNCHANGED <<failures, interval, requested>>

\* A reading r is taken and queued, new outcomes and a due survey are picked up,
\* and the flush begins unless the agent is still backing off.
Tick(r, news, due) ==
    /\ pc = "idle"
    /\ queue' = Push(queue, r)
    /\ CollectResults(news)
    /\ SurveyLogs(due)
    /\ wait' = Elapsed
    /\ sent' = 0
    /\ pc' = IF Elapsed > 0 THEN "idle" ELSE "flush"
    /\ UNCHANGED <<failures, interval, requested>>

\* The collector could not take a reading: nothing else is done this tick.
TickWithoutReading ==
    /\ pc = "idle"
    /\ wait' = Elapsed
    /\ UNCHANGED <<pc, queue, results, survey, sent, failures, interval, requested>>

\* The loop of flush has a reading to send and a send left.
Sending == pc = "flush" /\ sent < MaxSends /\ queue /= <<>>

\* The send succeeded: the riders are let go of and the reading leaves the buffer.
SendAccepted(wish) ==
    /\ Sending
    /\ queue' = Tail(queue)
    /\ results' = {} /\ survey' = "nil"
    /\ sent' = sent + 1
    /\ OnSuccess(wish)
    /\ UNCHANGED <<pc, interval>>

\* Mutant: the reading is popped before the answer is known.
SendFailedDropping(retryAfter, spent) ==
    LET n == IF failures < MaxFailures THEN failures + 1 ELSE failures IN
    /\ Sending
    /\ queue' = Tail(queue)
    /\ failures' = n
    /\ wait' = Backoff(retryAfter, n) + spent
    /\ EndTick
    /\ UNCHANGED <<results, survey, sent, requested>>

\* A retryable error: everything is kept, and the agent backs off.
SendFailed(retryAfter, spent) ==
    LET n == IF failures < MaxFailures THEN failures + 1 ELSE failures IN
    /\ Sending
    /\ failures' = n
    /\ wait' = Backoff(retryAfter, n) + spent
    /\ EndTick
    /\ UNCHANGED <<queue, results, survey, sent, requested>>

\* Mutant: a refused reading goes to the back of the buffer.
SendRejectedRequeue ==
    /\ Sending
    /\ queue' = Append(Tail(queue), Head(queue))
    /\ EndTick
    /\ UNCHANGED <<results, survey, sent, failures, wait, requested>>

\* Mutant: the riders are dropped together with the reading.
SendRejectedWithRiders ==
    /\ Sending
    /\ queue' = Tail(queue)
    /\ results' = {} /\ survey' = "nil"
    /\ EndTick
    /\ UNCHANGED <<sent, failures, wait, requested>>

\* The platform will never accept this reading: it is dropped, its riders stay.
SendRejected ==
    /\ Sending
    /\ queue' = Tail(queue)
    /\ EndTick
    /\ UNCHANGED <<results, survey, sent, failures, wait, requested>>

\* The buffer is empty, or this tick has sent enough.
FlushDone ==
    /\ pc = "flush"
    /\ sent = MaxSends \/ queue = <<>>
    /\ EndTick
    /\ UNCHANGED <<queue, results, survey, sent, failures, wait, requested>>

\* The process dies and is started again: everything it held is gone.
Restart ==
    /\ pc' = "idle" /\ queue' = <<>> /\ results' = {} /\ survey' = "nil"
    /\ sent' = 0 /\ failures' = 0 /\ wait' = 0
    /\ interval' = Interval /\ requested' = 0

\* Some reply that accepts the reading.
IsAccepted == \E wish \in Wishes : SendAccepted(wish)
=============================================================================
