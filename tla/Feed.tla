-------------------------------- MODULE Feed --------------------------------
(***************************************************************************)
(* What the reporting side of the agent promises, without the loop, the    *)
(* retries and the answers: a numbered series of readings of which a       *)
(* window of the newest ones is outstanding.  Readings leave the window    *)
(* oldest first, stored by the platform or refused by it; a reading is     *)
(* given up unasked only when Capacity newer ones are outstanding, or with *)
(* the process; and the platform stores each reading once, in the order in *)
(* which they were taken.                                                  *)
(***************************************************************************)
EXTENDS Integers, Sequences, FiniteSets

CONSTANTS Capacity

VARIABLES
    taken,         \* readings taken so far: 1..taken
    outstanding,   \* readings still to be stored
    gone,          \* readings the platform refused, or that died with a process
    log            \* readings stored, in order of storing

feedVars == <<taken, outstanding, gone, log>>

FeedInit == taken = 0 /\ outstanding = {} /\ gone = {} /\ log = <<>>

Oldest(S) == CHOOSE r \in S : \A other \in S : r <= other

\* A reading is taken.  Only a full window costs its oldest reading.
Take ==
    /\ taken' = taken + 1
    /\ outstanding' =
         LET all == outstanding \cup {taken + 1}
         IN  IF Cardinality(all) > Capacity THEN all \ {Oldest(all)} ELSE all
    /\ UNCHANGED <<gone, log>>

Store ==
    /\ outstanding /= {}
    /\ outstanding' = outstanding \ {Oldest(outstanding)}
    /\ log' = Append(log, Oldest(outstanding))
    /\ UNCHANGED <<taken, gone>>

\* The platform refuses the oldest reading for good.
GiveUp ==
    /\ outstanding /= {}
    /\ outstanding' = outstanding \ {Oldest(outstanding)}
    /\ gone' = gone \cup {Oldest(outstanding)}
    /\ UNCHANGED <<taken, log>>

\* The process that held them is gone.
Forget ==
    /\ outstanding' = {}
    /\ gone' = gone \cup outstanding
    /\ UNCHANGED <<taken, log>>

FeedNext == Take \/ Store \/ GiveUp \/ Forget

FeedSpec == FeedInit /\ [][FeedNext]_feedVars
=============================================================================
