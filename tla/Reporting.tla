------------------------------ MODULE Reporting ------------------------------
(***************************************************************************)
(* The reporting loop together with the platform and the network between   *)
(* them.  Readings and outcomes are numbered in the order they arise.  A   *)
(* send can be accepted, be accepted without the agent learning of it,     *)
(* fail before the platform took it, or be refused for good.               *)
(***************************************************************************)
EXTENDS Uplink, FiniteSets, SequencesExt

CONSTANTS
    MaxReadings,   \* bound: readings taken
    MaxResults,    \* bound: outcomes collected from the spool
    MaxLost,       \* bound: replies lost
    MaxRestarts    \* bound: deaths of the agent

ASSUME ReportingAssumption ==
    /\ MaxReadings \in Nat /\ Readings = 1..MaxReadings
    /\ MaxResults \in Nat /\ Results = 1..MaxResults
    /\ MaxLost \in Nat /\ MaxRestarts \in Nat

VARIABLES
    taken,         \* readings taken
    collected,     \* outcomes collected
    \* the platform
    stored,        \* readings stored, in order; a repeated one is stored once
    told,          \* how often the platform was told each outcome
    \* history
    refused,       \* readings the platform refused
    forgotten,     \* readings and
    unreported,    \*   outcomes that died with a process
    lost,          \* replies lost
    restarts

platformVars == <<stored, told>>
countVars == <<taken, collected>>
historyVars == <<refused, forgotten, unreported, lost, restarts>>
vars == <<uplinkVars, platformVars, countVars, historyVars>>

TypeOK ==
    /\ UplinkTypeOK
    /\ taken \in 0..MaxReadings
    /\ collected \in 0..MaxResults
    /\ stored \in Seq(Readings)
    /\ told \in [Results -> Nat]
    /\ refused \in SUBSET Readings
    /\ forgotten \in SUBSET Readings
    /\ unreported \in SUBSET Results
    /\ lost \in 0..MaxLost
    /\ restarts \in 0..MaxRestarts

Init ==
    /\ UplinkInit
    /\ taken = 0 /\ collected = 0
    /\ stored = <<>> /\ told = [x \in Results |-> 0]
    /\ refused = {} /\ forgotten = {} /\ unreported = {}
    /\ lost = 0 /\ restarts = 0

----------------------------------------------------------------------------
\* A tick, with or without an outcome in the spool, with or without a survey.
AgentTick ==
    /\ taken < MaxReadings
    /\ taken' = taken + 1
    /\ collected' \in {collected, collected + 1} \cap 0..MaxResults
    /\ \E due \in BOOLEAN : Tick(taken + 1, (collected + 1)..collected', due)
    /\ UNCHANGED <<platformVars, historyVars>>

AgentTickWithoutReading ==
    /\ TickWithoutReading
    /\ UNCHANGED <<platformVars, countVars, historyVars>>

AgentFlushDone ==
    /\ FlushDone
    /\ UNCHANGED <<platformVars, countVars, historyVars>>

\* The platform takes an envelope: the reading once, its outcomes as told.
PlatformTakes ==
    /\ stored' = IF Contains(stored, Head(queue)) THEN stored
                 ELSE Append(stored, Head(queue))
    /\ told' = [x \in Results |-> IF x \in results THEN told[x] + 1 ELSE told[x]]

\* A 2xx answer; an unreadable one counts as a reply without wishes.
Accepted ==
    /\ IsAccepted
    /\ PlatformTakes
    /\ UNCHANGED <<countVars, historyVars>>

\* The platform took the envelope and the agent saw an error: the connection
\* broke, or the request timed out.
ReplyLost ==
    /\ lost < MaxLost
    /\ lost' = lost + 1
    /\ \E spent \in 0..MaxSpent : SendFailed(0, spent)
    /\ PlatformTakes
    /\ UNCHANGED <<countVars, refused, forgotten, unreported, restarts>>

\* Nothing answered, or a 429, 401, 403 or 5xx did.
Unavailable ==
    /\ \E retryAfter \in RetryAfters, spent \in 0..MaxSpent :
         SendFailed(retryAfter, spent)
    /\ UNCHANGED <<platformVars, countVars, historyVars>>

\* Any other 4xx.
Refused ==
    /\ SendRejected
    /\ refused' = refused \cup {Head(queue)}
    /\ UNCHANGED <<platformVars, countVars, forgotten, unreported, lost, restarts>>

AgentRestart ==
    /\ restarts < MaxRestarts
    /\ restarts' = restarts + 1
    /\ Restart
    /\ forgotten' = forgotten \cup ToSet(queue)
    /\ unreported' = unreported \cup results
    /\ UNCHANGED <<platformVars, countVars, refused, lost>>

Next ==
    \/ AgentTick \/ AgentTickWithoutReading \/ AgentFlushDone
    \/ Accepted \/ ReplyLost \/ Unavailable \/ Refused
    \/ AgentRestart

Spec == Init /\ [][Next]_vars

----------------------------------------------------------------------------
\* The platform stores the readings in the order they were taken, whatever was
\* retried, refused or lost on the way: "the backlog goes out in order, oldest
\* first" (README.md:181).
StoredInOrder ==
    \A i, j \in 1..Len(stored) : i < j => stored[i] < stored[j]

\* An outcome is let go of only once the platform has been told it (main.go:
\* 401-402), whatever readings are refused and sends fail meanwhile, and is told
\* again only to make up for a reply that was lost.
OutcomesAreTold ==
    /\ \A x \in 1..collected : x \in results \/ told[x] > 0 \/ x \in unreported
    /\ \A x \in Results : told[x] <= 1 + lost

\* No answer silences the agent, however often repeated and whatever its
\* Retry-After (client.go:142-145): it is never further from its next attempt than
\* the longest backoff or Retry-After and the time the failing flush took, and
\* every tick that does not come to it comes closer.
BackoffEnds ==
    /\ [](\/ wait \in 0..(MaxBackoff + MaxSpent)
         \/ \E ra \in RetryAfters : wait \in 0..(ra + MaxSpent))
    /\ [][(taken' > taken /\ pc' = "idle") => wait' < wait]_vars

\* The readings in the buffer that the platform has not stored already.
Outstanding == ToSet(queue) \ ToSet(stored)

\* The reporting loop implements the abstract feed.
Abstract == INSTANCE Feed WITH outstanding <- Outstanding, log <- stored,
                               gone <- (refused \cup forgotten) \ ToSet(stored)

\* Every step of the loop, the platform and the network is a step of the feed:
\* readings leave oldest first and are stored once, and no send, error or retry
\* discards one: only a refusal, the end of the process, or for the oldest a full
\* buffer does (buffer.go:9-14).
ImplementsFeed == Abstract!FeedSpec
=============================================================================
