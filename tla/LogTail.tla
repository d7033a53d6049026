------------------------------- MODULE LogTail -------------------------------
(***************************************************************************)
(* The access-log tailer, the proxy that writes the log and the logrotate  *)
(* that replaces or empties it underneath both.  One action of the tailer  *)
(* is one system call on the log.                                          *)
(*                                                                         *)
(* A line is written in two halves: half 2n-1 begins line n and half 2n    *)
(* ends it with the newline.  A file is a sequence of halves, and an       *)
(* offset counts halves.  A segment between newlines that is not exactly   *)
(* the two halves of one line does not parse.                              *)
(***************************************************************************)
EXTENDS Integers, Sequences, FiniteSets, SequencesExt

CONSTANTS
    Inodes,        \* identities of files, 1..n in order of creation
    MaxRead,       \* maxBytesPerRead, in halves
    MaxLines,      \* bound: lines the proxy writes
    MaxTruncations,\* bound: times the log is emptied in place
    MaxFaults      \* bound: failed system calls of the tailer

ASSUME LogTailAssumption ==
    /\ IsFiniteSet(Inodes) /\ Inodes /= {} /\ Inodes = 1..Cardinality(Inodes)
    /\ MaxRead \in Nat \ {0} /\ MaxLines \in Nat \ {0}
    /\ MaxTruncations \in Nat /\ MaxFaults \in Nat

None == 0
Halves == 1..(2 * MaxLines)
IsNewline(h) == h % 2 = 0

VARIABLES
    \* the file system and the proxy
    content,       \* the halves in each file
    path,          \* the file at the log's path, or None
    created,       \* files created so far: 1..created
    writer,        \* the file the proxy has open, or None
    written,       \* halves written so far
    \* the tailer
    tpc,
    handle,        \* tailer.file
    identity,      \* tailer.identity
    offset,        \* tailer.offset
    partial,       \* tailer.partial
    everOpened,    \* tailer.everOpened
    info,          \* what Stat said of the path
    size,          \* what Stat said of the open file
    \* history
    counted,       \* the lines that parsed, in the order they were returned
    passed,        \* halves skipped over and reported as skipped
    begun,         \* where reading of the followed file began
    swapped,       \* the path changed between a Stat and its Open
    truncations, faults

diskVars == <<content, path, created, writer, written>>
tailerVars == <<handle, identity, offset, partial, everOpened>>
localVars == <<tpc, info, size>>
historyVars == <<counted, passed, begun, swapped, truncations, faults>>
vars == <<diskVars, tailerVars, localVars, historyVars>>

Files == Inodes \cup {None}

TypeOK ==
    /\ content \in [Inodes -> Seq(Halves)]
    /\ path \in Files /\ writer \in Files /\ created \in Nat /\ written \in Nat
    /\ tpc \in {"idle", "open", "size", "read"}
    /\ handle \in Files /\ identity \in Files /\ info \in Files
    /\ offset \in Nat /\ size \in Nat
    /\ partial \in Seq({h \in Halves : ~IsNewline(h)})
    /\ everOpened \in BOOLEAN /\ swapped \in BOOLEAN
    /\ counted \in Seq(1..MaxLines)
    /\ passed \in SUBSET Halves
    /\ begun \in Nat
    /\ truncations \in 0..MaxTruncations /\ faults \in 0..MaxFaults

\* The agent starts with no log at all, or with one that has a line in it.
Init ==
    /\ \/ /\ path = None /\ created = 0 /\ writer = None /\ written = 0
          /\ content = [i \in Inodes |-> <<>>]
       \/ /\ path = 1 /\ created = 1 /\ writer = 1 /\ written = 2
          /\ content = [i \in Inodes |-> IF i = 1 THEN <<1, 2>> ELSE <<>>]
    /\ tpc = "idle" /\ info = None /\ size = 0
    /\ handle = None /\ identity = None /\ offset = 0 /\ partial = <<>>
    /\ everOpened = FALSE
    /\ counted = <<>> /\ passed = {} /\ begun = 0
    /\ swapped = FALSE /\ truncations = 0 /\ faults = 0

----------------------------------------------------------------------------
(* The proxy and logrotate. *)

WriteHalf ==
    /\ writer /= None /\ written < 2 * MaxLines
    /\ written' = written + 1
    /\ content' = [content EXCEPT ![writer] = Append(@, written + 1)]
    /\ UNCHANGED <<path, created, writer, tailerVars, localVars, historyVars>>

\* A change of the path while the tailer is between Stat and Open.
PathChanges(new) ==
    /\ path' = new
    /\ swapped' = (swapped \/ tpc = "open")
    /\ UNCHANGED <<tailerVars, localVars, counted, passed, begun,
                   truncations, faults>>

\* The log is renamed; the proxy keeps writing to it until it reopens the path.
RotateAway ==
    /\ path /= None
    /\ PathChanges(None)
    /\ UNCHANGED <<content, created, writer, written>>

\* A new file has an identity no earlier one had: that an inode number is given out
\* again, which os.SameFile cannot see (tail.go:125), is assumed not to happen
\* while the tailer still holds the old file's.
CreateLog ==
    /\ path = None /\ created + 1 \in Inodes
    /\ created' = created + 1
    /\ PathChanges(created + 1)
    /\ UNCHANGED <<content, writer, written>>

\* The proxy finishes a line in the file it began it in.
ReopenLog ==
    /\ path /= None /\ writer /= path /\ IsNewline(written)
    /\ writer' = path
    /\ UNCHANGED <<content, path, created, written, tailerVars, localVars, historyVars>>

Truncate ==
    /\ path /= None /\ content[path] /= <<>> /\ truncations < MaxTruncations
    /\ truncations' = truncations + 1
    /\ content' = [content EXCEPT ![path] = <<>>]
    /\ UNCHANGED <<path, created, writer, written, tailerVars, localVars,
                   counted, passed, begun, swapped, faults>>

----------------------------------------------------------------------------
(* The tailer: ensureOpen, then readLines. *)

Fault == faults < MaxFaults /\ faults' = faults + 1

\* Mutant: closing the handle forgets the position as well.
DropHandleRewinding ==
    /\ handle' = None
    /\ tpc' = "idle"
    /\ offset' = 0
    /\ UNCHANGED <<identity, partial, everOpened>>

\* A call fails: the handle is closed and the position kept.
DropHandle ==
    /\ handle' = None
    /\ tpc' = "idle"
    /\ UNCHANGED <<identity, offset, partial, everOpened>>

StatLog ==
    /\ tpc = "idle"
    /\ info' = path
    /\ IF path = None THEN DropHandle
       ELSE /\ tpc' = IF handle /= None /\ path = identity THEN "size" ELSE "open"
            /\ handle' = IF tpc' = "open" THEN None ELSE handle
            /\ UNCHANGED <<identity, offset, partial, everOpened>>
    /\ UNCHANGED <<diskVars, size, historyVars>>

StatFails ==
    /\ tpc = "idle" /\ Fault
    /\ DropHandle
    /\ UNCHANGED <<diskVars, info, size, counted, passed, begun, swapped,
                   truncations>>

\* The first open begins at the end; a file other than the one followed so far,
\* as Stat saw it, begins at zero.  The identity kept is the one Stat saw.
OpenLog ==
    /\ tpc = "open" /\ path /= None
    /\ handle' = path
    /\ identity' = info
    /\ everOpened' = TRUE
    /\ \/ /\ ~everOpened
          /\ offset' = Len(content[path])
          /\ begun' = offset' /\ partial' = <<>>
       \/ /\ everOpened /\ info /= identity
          /\ offset' = 0 /\ begun' = 0 /\ partial' = <<>>
       \/ /\ everOpened /\ info = identity
          /\ UNCHANGED <<offset, begun, partial>>
    /\ tpc' = "size"
    /\ UNCHANGED <<diskVars, info, size, counted, passed, swapped, truncations,
                   faults>>

\* The path is gone again, or may not be opened.
OpenFails ==
    /\ tpc = "open"
    /\ \/ path = None /\ UNCHANGED faults
       \/ Fault
    /\ DropHandle
    /\ UNCHANGED <<diskVars, info, size, counted, passed, begun, swapped,
                   truncations>>

\* Mutant: a file emptied in place is not noticed.
SizeLogTrusting ==
    /\ tpc = "size"
    /\ LET end == Len(content[handle])
           skip == end - offset > MaxRead
       IN
       /\ size' = end
       /\ offset' = IF skip THEN end - MaxRead ELSE offset
       /\ partial' = IF skip THEN <<>> ELSE partial
       /\ tpc' = IF end > offset THEN "read" ELSE "idle"
    /\ UNCHANGED <<diskVars, handle, identity, everOpened, info, historyVars>>

\* An offset past the end means the file was emptied in place; more than MaxRead
\* pending is skipped down to MaxRead.
SizeLog ==
    /\ tpc = "size"
    /\ LET end == Len(content[handle])
           from == IF end < offset THEN 0 ELSE offset
           skip == end - from > MaxRead
       IN
       /\ size' = end
       /\ offset' = IF skip THEN end - MaxRead ELSE from
       /\ partial' = IF skip \/ end < offset THEN <<>> ELSE partial
       /\ passed' = IF skip THEN passed \cup ToSet(partial)
                          \cup ToSet(SubSeq(content[handle], from + 1, end - MaxRead))
                    ELSE passed
       /\ begun' = IF end < offset THEN 0 ELSE begun
       /\ tpc' = IF end > from THEN "read" ELSE "idle"
    /\ UNCHANGED <<diskVars, handle, identity, everOpened, info, counted,
                   swapped, truncations, faults>>

\* The positions of the newlines of a buffer, and of those that end a segment
\* holding the two halves of one line.  Only such a segment is taken to parse; the
\* tail of a line cut before its quoted request would too (parse.go:139-164).
Newlines(b) == {i \in 1..Len(b) : IsNewline(b[i])}
WholeLines(b) ==
    {i \in Newlines(b) : /\ i >= 2 /\ b[i - 1] = b[i] - 1
                         /\ i >= 3 => IsNewline(b[i - 2])}

\* The lines of a buffer, from the first to the last.
LinesOf(b) ==
    LET upto[i \in 0..Len(b)] ==
            IF i = 0 THEN <<>>
            ELSE IF i \in WholeLines(b) THEN Append(upto[i - 1], b[i] \div 2)
            ELSE upto[i - 1]
    IN  upto[Len(b)]

\* Mutant: the last complete line is held back with the partial one.
HeldTooMuch(b) == SubSeq(b, Max(Newlines(b) \cup {1}), Len(b))

\* What follows the last newline.
Held(b) == SubSeq(b, Max(Newlines(b) \cup {0}) + 1, Len(b))

\* Mutant: the partial line held back is not put in front of the rest.
ReadLogForgetful ==
    /\ tpc = "read"
    /\ LET end == Min({size, Len(content[handle])})
           buffer == SubSeq(content[handle], offset + 1, end)
       IN
       /\ offset' = IF end > offset THEN end ELSE offset
       /\ partial' = Held(buffer)
       /\ counted' = counted \o LinesOf(buffer)
    /\ tpc' = "idle"
    /\ UNCHANGED <<diskVars, handle, identity, everOpened, info, size, passed,
                   begun, swapped, truncations, faults>>

\* At most what Stat announced is read, less if the file has shrunk since.
ReadLog ==
    /\ tpc = "read"
    /\ LET end == Min({size, Len(content[handle])})
           buffer == partial \o SubSeq(content[handle], offset + 1, end)
       IN
       /\ offset' = IF end > offset THEN end ELSE offset
       /\ partial' = Held(buffer)
       /\ counted' = counted \o LinesOf(buffer)
    /\ tpc' = "idle"
    /\ UNCHANGED <<diskVars, handle, identity, everOpened, info, size, passed,
                   begun, swapped, truncations, faults>>

\* fstat, seek or read fails.
ReadFails ==
    /\ tpc \in {"size", "read"} /\ Fault
    /\ DropHandle
    /\ UNCHANGED <<diskVars, info, size, counted, passed, begun, swapped,
                   truncations>>

----------------------------------------------------------------------------
Environment == WriteHalf \/ RotateAway \/ CreateLog \/ ReopenLog \/ Truncate
Tailer == StatLog \/ OpenLog \/ OpenFails \/ SizeLog \/ ReadLog
Failure == StatFails \/ ReadFails

Next == Environment \/ Tailer \/ Failure

Spec == Init /\ [][Next]_vars

\* The agent reads the log on every tick; nothing is assumed of the proxy.
FairSpec == Spec /\ WF_vars(Tailer)

----------------------------------------------------------------------------
\* No line is counted twice and lines are counted in the order they were written,
\* whatever is rotated, emptied or fails, unless the path changed in between a
\* Stat and the Open that followed it (tail.go:8-21).
CountedOnceInOrder ==
    ~swapped => \A i, j \in 1..Len(counted) : i < j => counted[i] < counted[j]

\* Behind the tailer's position, every whole line of the file it follows was
\* counted, or a part of it was skipped and reported as skipped: half-written
\* lines, failed reads and the skip itself cost no line quietly.
NoLineOverlooked ==
    (truncations = 0 /\ ~swapped /\ handle /= None /\ tpc = "idle") =>
      \A i \in (begun + 2)..offset :
        LET file == content[handle] IN
        (IsNewline(file[i]) /\ file[i - 1] = file[i] - 1) =>
          \/ Contains(counted, file[i] \div 2)
          \/ {file[i - 1], file[i]} \cap passed /= {}

\* The tailer catches up with the log at its path, or the path is taken away:
\* no sequence of rotations, truncations and failures leaves it stuck on an old
\* file or at a stale offset.
CatchesUp ==
    path /= None ~>
      (path = None \/ (handle = path /\ offset = Len(content[path])))
=============================================================================
