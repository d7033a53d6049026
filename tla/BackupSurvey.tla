---------------------------- MODULE BackupSurvey ----------------------------
(***************************************************************************)
(* The survey of a place where backups land: a walk a few levels down that *)
(* counts files and keeps the newest time of change, and what is reported  *)
(* of it.  The tree is made up during the walk, entry by entry in its      *)
(* order, each with its depth below the root; files may vanish meanwhile   *)
(* and directories refuse to be listed.  Entries the walk passes over are  *)
(* made up too, since the report is judged by the tree.  A symbolic link   *)
(* below the root is to the walk a file with a time of its own.            *)
(***************************************************************************)
EXTENDS Integers, Sequences, FiniteSets, SequencesExt, FiniteSetsExt

CONSTANTS
    MaxDepth,     \* maxDepth
    MaxEntries,   \* maxEntries
    Ahead,        \* how far ahead of the clock a file may be stamped: an hour
    MaxTree       \* bound: entries of a tree; depths go one past MaxDepth

ASSUME BackupSurveyAssumption ==
    /\ MaxDepth \in Nat \ {0} /\ MaxEntries \in Nat \ {0}
    /\ Ahead \in Nat \ {0} /\ MaxTree \in Nat

Never == 0               \* the zero time
Now == 2                 \* one moment is as good as another
NoAge == -1              \* no newest_age_seconds
Forever == Now + Ahead + 2   \* what Sub makes of the zero time, its largest value

\* A time that is old, new or ahead of the clock, within the tolerance or past it.
Times == {1, Now, Now + Ahead, Now + Ahead + 1}

\* A file, one that vanishes, a directory, and one that cannot be listed.
Entries ==
    [kind : {"file"}, depth : 1..(MaxDepth + 1), mtime : Times]
      \cup [kind : {"gone", "dir", "sealed"}, depth : 1..(MaxDepth + 1), mtime : {Never}]

Unlistable == [readable |-> FALSE, files |-> 0, age |-> NoAge]

VARIABLES
    scanning,     \* the walk is under way
    seen,         \* scan's entries, files and newest, and whether SkipAll was returned
    below,        \* the depth the next entry may have at most
    found,        \* the Found of the last place
    linked,       \* the time of the place itself, if it is a symbolic link
    \* history: the tree
    size,         \* its entries
    reach,        \* the files at most MaxDepth down
    stamps,       \* their times, as far as they can be believed
    inside        \* the entries at most MaxDepth down, the root among them

walkVars == <<scanning, seen, below, found, linked, size, reach, stamps, inside>>

\* The root is the first entry of a walk.
Fresh == [entries |-> 1, files |-> 0, newest |-> Never, cut |-> FALSE]

WalkInit ==
    /\ scanning = FALSE /\ seen = Fresh /\ below = 1 /\ found = Unlistable /\ linked = Never
    /\ size = 0 /\ reach = 0 /\ stamps = {} /\ inside = 1

\* Mutant: a time ahead of the clock is believed.
NewerAnyhow(mtime, newest) == mtime > newest

\* A time that makes a file the newest so far.
Newer(mtime, newest) == mtime > newest /\ mtime <= Now + Ahead

\* Detect comes to a directory (what is none is left out).
Arrive ==
    /\ ~scanning
    /\ found' = Unlistable
    /\ below' = 1
    /\ size' = 0 /\ reach' = 0 /\ stamps' = {} /\ inside' = 1

\* scan walks it, unless it cannot be listed.
BeginScan(readable) ==
    /\ Arrive
    /\ scanning' = readable
    /\ linked' = Never /\ seen' = Fresh

\* It is a link to one: Detect follows it, but WalkDir does not.  The only entry of
\* the walk is the link, and nothing behind it is looked at.
BeginLink(mtime) ==
    /\ Arrive
    /\ scanning' = TRUE
    /\ linked' = mtime
    /\ seen' = [Fresh EXCEPT !.files = 1,
                             !.newest = IF Newer(mtime, Never) THEN mtime ELSE Never]

\* What the function WalkDir calls makes of an entry: after SkipAll there are no
\* more, and nothing is seen below a directory that is MaxDepth down.
Seen(e) ==
    IF seen.cut \/ e.depth > MaxDepth THEN seen
    ELSE IF seen.entries >= MaxEntries THEN [seen EXCEPT !.cut = TRUE]
    ELSE [seen EXCEPT
            !.entries = @ + 1,
            !.files = @ + IF e.kind = "file" THEN 1 ELSE 0,
            !.newest = IF e.kind = "file" /\ Newer(e.mtime, @) THEN e.mtime ELSE @]

\* The next entry is inside the last directory, or beside one of those around it.
Visit(e) ==
    /\ scanning /\ linked = Never /\ size < MaxTree /\ e.depth <= below
    /\ seen' = Seen(e)
    /\ below' = e.depth + IF e.kind = "dir" THEN 1 ELSE 0
    /\ size' = size + 1
    /\ inside' = inside + IF e.depth <= MaxDepth THEN 1 ELSE 0
    /\ IF e.kind = "file" /\ e.depth <= MaxDepth
       THEN /\ reach' = reach + 1
            /\ stamps' = IF e.mtime <= Now + Ahead THEN stamps \cup {e.mtime} ELSE stamps
       ELSE UNCHANGED <<reach, stamps>>
    /\ UNCHANGED <<scanning, found, linked>>

\* How long ago a time was, in what is reported.
AgeOf(newest) == IF newest = Never THEN Forever ELSE Max({0, Now - newest})

\* The walk is over: the rest of Detect's turn.
EndScan ==
    /\ scanning /\ scanning' = FALSE
    /\ found' = [readable |-> TRUE,
                 files |-> seen.files,
                 age |-> IF seen.files = 0 THEN NoAge ELSE AgeOf(seen.newest)]
    /\ UNCHANGED <<seen, below, linked, size, reach, stamps, inside>>

WalkNext ==
    \/ \E readable \in BOOLEAN : BeginScan(readable)
    \/ \E mtime \in Times : BeginLink(mtime)
    \/ \E e \in Entries : Visit(e)
    \/ EndScan

----------------------------------------------------------------------------
TrueAge == AgeOf(IF stamps = {} THEN Never ELSE Max(stamps))

\* No tree makes backups look fresher than they are, whatever is stamped ahead,
\* vanishes, cannot be listed or lies past a bound; and a survey that was not cut
\* has the age of the newest file it could see, and their number.  A cut one has
\* at most MaxEntries - 1 files: "a truncated count, never a hung survey"
\* (backupstat.go:61-62).  The exception is a place that is a symbolic link
\* (backupstat.go:72, 106): what is reported is one file of the age of the link,
\* whatever is behind it, not "the age of the newest file" (backupstat.go:7-8).
NeverFresherThanTheFiles ==
    found.readable =>
      IF linked /= Never
      THEN /\ found.files = 1
           /\ found.age = AgeOf(IF linked <= Now + Ahead THEN linked ELSE Never)
      ELSE /\ found.files < MaxEntries
           /\ found.files = 0 <=> found.age = NoAge
           /\ found.files > 0 => found.age >= TrueAge
           /\ (inside <= MaxEntries /\ reach > 0) =>
                found.files = reach /\ found.age = TrueAge
=============================================================================
