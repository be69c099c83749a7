------------------------------- MODULE Logger -------------------------------
(***************************************************************************)
(* Logger (utils/logger.cpp): entries written by several threads under     *)
(* log_mutex_, rotation of the log files, on request (rotateLog) or when   *)
(* the file has reached max_file_size_, and what is on disk when the       *)
(* process dies in the middle of it.  An entry that was filtered out never *)
(* gets here; an entry is one unit long and is known by its number.  The   *)
(* disk has room: a write that fails, which logEntry adds to               *)
(* current_file_size_ all the same, is left out.                           *)
(***************************************************************************)
EXTENDS Integers, Sequences, SequencesExt

CONSTANTS
    Threads,
    NoThread,       \* log_mutex_ is free
    MaxFileSize,    \* max_file_size_
    MaxFiles,       \* max_files_
    MaxEntries      \* bound on the entries written

ASSUME LoggerConstants ==
    /\ NoThread \notin Threads
    /\ MaxFileSize \in Nat /\ MaxEntries \in Nat
    /\ MaxFiles \in Nat \ {0}

VARIABLES
    compress,       \* compress_old_logs_, set before anything is logged
    pc,             \* where each thread is
    mutex,          \* the owner of log_mutex_ (not recursive)
    streamOpen,     \* log_stream_ is open, on log_file_
    size,           \* current_file_size_
    index,          \* i of the loop of rotateLog, by the thread that holds the mutex
    file,           \* log_file_ on disk
    rotated,        \* rotated[i] is getLogFilename(i) on disk
    gz,             \* the compressed file on disk
    written         \* history: number of entries written to a file so far

vars == <<compress, pc, mutex, streamOpen, size, index, file, rotated, gz, written>>

Absent == [exists |-> FALSE, lines |-> <<>>]
Empty == [exists |-> TRUE, lines |-> <<>>]

Indices == 0..(MaxFiles - 1)

\* The types of the logger's state and of the files it leaves on disk.
TypeOK ==
    /\ compress \in BOOLEAN
    /\ pc \in [Threads -> {"idle", "log", "write", "rotate", "shift", "move", "open"}]
    /\ mutex \in Threads \cup {NoThread}
    /\ streamOpen \in BOOLEAN
    /\ size \in Nat
    /\ index \in Indices
    /\ file.lines \in Seq(1..MaxEntries) /\ gz.lines \in Seq(1..MaxEntries)
    /\ \A i \in Indices : rotated[i].lines \in Seq(1..MaxEntries)
    /\ written \in 0..MaxEntries

Init ==
    /\ compress \in BOOLEAN
    /\ pc = [t \in Threads |-> "idle"]
    /\ mutex = NoThread
    /\ streamOpen = FALSE /\ size = 0 /\ index = 0
    /\ file = Absent /\ rotated = [i \in Indices |-> Absent] /\ gz = Absent
    /\ written = 0

Goto(t, p) == pc' = [pc EXCEPT ![t] = p]
disk == <<file, rotated, gz, written>>

----------------------------------------------------------------------------
\* setFile: the file is opened for appending; or, with an empty name, only closed.
SetFile ==
    /\ mutex = NoThread
    /\ streamOpen' = TRUE
    /\ file' = [file EXCEPT !.exists = TRUE]
    /\ size' = Len(file.lines)
    /\ UNCHANGED <<compress, pc, mutex, index, rotated, gz, written>>

SetNoFile ==
    /\ mutex = NoThread
    /\ streamOpen' = FALSE
    /\ UNCHANGED <<compress, pc, mutex, size, index, disk>>

\* log() has built its entry and calls logEntry, or somebody calls rotateLog().
Call(t) ==
    /\ pc[t] = "idle"
    /\ Goto(t, "log") \/ Goto(t, "rotate")
    /\ UNCHANGED <<compress, mutex, streamOpen, size, index, disk>>

LockForEntry(t) ==
    /\ pc[t] = "log" /\ mutex = NoThread
    /\ written < MaxEntries
    /\ mutex' = t
    /\ Goto(t, "write")
    /\ UNCHANGED <<compress, streamOpen, size, index, disk>>

\* The body of logEntry.  At the limit it goes on to checkRotation and rotateLog and
\* keeps the mutex.
WriteEntry(t) ==
    /\ pc[t] = "write"
    /\ IF streamOpen
       THEN /\ written' = written + 1
            /\ file' = [file EXCEPT !.lines = Append(@, written + 1)]
            /\ size' = size + 1
            /\ IF size' >= MaxFileSize
               THEN Goto(t, "rotate") /\ UNCHANGED mutex
               ELSE Goto(t, "idle") /\ mutex' = NoThread
       ELSE /\ Goto(t, "idle") /\ mutex' = NoThread
            /\ UNCHANGED <<written, file, size>>
    /\ UNCHANGED <<compress, streamOpen, index, rotated, gz>>

\* Mutant of LockForRotation: the loop begins one file too low.
LockSkipsLast(t) ==
    /\ pc[t] = "rotate" /\ mutex = NoThread
    /\ IF streamOpen
       THEN /\ mutex' = t
            /\ streamOpen' = FALSE
            /\ index' = MaxFiles - 2
            /\ Goto(t, IF MaxFiles > 2 THEN "shift" ELSE "move")
       ELSE Goto(t, "idle") /\ UNCHANGED <<mutex, streamOpen, index>>
    /\ UNCHANGED <<compress, size, disk>>

\* rotateLog locks log_mutex_, whoever called it.
LockForRotation(t) ==
    /\ pc[t] = "rotate" /\ mutex = NoThread
    /\ IF streamOpen
       THEN /\ mutex' = t
            /\ streamOpen' = FALSE
            /\ index' = MaxFiles - 1
            /\ Goto(t, IF MaxFiles > 1 THEN "shift" ELSE "move")
       ELSE Goto(t, "idle") /\ UNCHANGED <<mutex, streamOpen, index>>
    /\ UNCHANGED <<compress, size, disk>>

\* Mutant of Shift: the file is copied, not renamed.
ShiftCopies(t) ==
    /\ pc[t] = "shift"
    /\ rotated' = [rotated EXCEPT ![index] = rotated[index - 1]]
    /\ index' = index - 1
    /\ Goto(t, IF index - 1 > 0 THEN "shift" ELSE "move")
    /\ UNCHANGED <<compress, mutex, streamOpen, size, file, gz, written>>

\* One turn of the loop: file i-1 becomes file i, or the compressed file when i is
\* the highest index.
Shift(t) ==
    LET i == index IN
    /\ pc[t] = "shift"
    /\ IF ~rotated[i - 1].exists
       THEN UNCHANGED <<rotated, gz>>
       ELSE IF i = MaxFiles - 1 /\ compress
       THEN /\ gz' = rotated[i - 1]
            /\ rotated' = [rotated EXCEPT ![i - 1] = Absent]
       ELSE /\ rotated' = [rotated EXCEPT ![i] = rotated[i - 1], ![i - 1] = Absent]
            /\ UNCHANGED gz
    /\ index' = i - 1
    /\ Goto(t, IF i - 1 > 0 THEN "shift" ELSE "move")
    /\ UNCHANGED <<compress, mutex, streamOpen, size, file, written>>

\* The current file becomes file 0.
MoveCurrent(t) ==
    /\ pc[t] = "move"
    /\ IF file.exists
       THEN /\ rotated' = [rotated EXCEPT ![0] = file]
            /\ file' = Absent
       ELSE UNCHANGED <<rotated, file>>
    /\ Goto(t, "open")
    /\ UNCHANGED <<compress, mutex, streamOpen, size, index, gz, written>>

\* Mutant of Reopen: current_file_size_ keeps the size of the old file.
ReopenKeepsSize(t) ==
    /\ pc[t] = "open"
    /\ file' = Empty
    /\ streamOpen' = TRUE
    /\ mutex' = NoThread
    /\ Goto(t, "idle")
    /\ UNCHANGED <<compress, size, index, rotated, gz, written>>

\* The new stream, which may fail to open.
Reopen(t) ==
    /\ pc[t] = "open"
    /\ streamOpen' \in BOOLEAN
    /\ file' = IF streamOpen' THEN Empty ELSE file
    /\ size' = 0
    /\ mutex' = NoThread
    /\ Goto(t, "idle")
    /\ UNCHANGED <<compress, index, rotated, gz, written>>

\* A rename throws: rotateLog is left, the mutex released, the stream still closed.
RenameThrows(t) ==
    /\ \/ pc[t] = "shift" /\ rotated[index - 1].exists
       \/ pc[t] = "move" /\ file.exists
    /\ mutex' = NoThread
    /\ Goto(t, "idle")
    /\ UNCHANGED <<compress, streamOpen, size, index, disk>>

\* The process dies and is started again; the files stay as they are.
Restart ==
    /\ pc' = [t \in Threads |-> "idle"]
    /\ mutex' = NoThread
    /\ streamOpen' = FALSE /\ size' = 0 /\ index' = 0
    /\ UNCHANGED <<compress, disk>>

Step(t) ==
    \/ LockForEntry(t) \/ WriteEntry(t) \/ LockForRotation(t)
    \/ Shift(t) \/ MoveCurrent(t) \/ RenameThrows(t) \/ Reopen(t)

Running ==
    \/ SetFile \/ SetNoFile
    \/ \E t \in Threads : Call(t) \/ Step(t)

Next == Running \/ Restart

Spec == Init /\ [][Next]_vars

\* A process that is not restarted, in which every thread that again and again can
\* take its next step, locks included, takes it.
FairSpec ==
    /\ Init /\ [][Running]_vars
    /\ \A t \in Threads : SF_vars(Step(t))

----------------------------------------------------------------------------
Oldest(i) == rotated[MaxFiles - i].lines

\* What the files hold, oldest file first.
Retained ==
    gz.lines \o FlattenSeq([i \in 1..MaxFiles |-> Oldest(i)]) \o file.lines

\* Rotation only ever drops the oldest entries: what is on disk is the last entries
\* written, complete, in order and once each, also when the process died half way
\* through a rotation and another one follows.
RetainedIsSuffix ==
    \A i \in 1..Len(Retained) : Retained[i] = written - Len(Retained) + i

Lines(f) == {f.lines[i] : i \in DOMAIN f.lines}

OnDisk == Lines(file) \cup Lines(gz) \cup UNION {Lines(rotated[i]) : i \in Indices}

\* The place at the end of the rotation.
LastPlace == IF compress /\ MaxFiles > 1 THEN gz ELSE rotated[MaxFiles - 1]

\* The loop of rotateLog makes room before it moves: an entry leaves the disk only when the
\* last place is overwritten, and never because a rename hits a file that is still needed,
\* whatever gaps failed renames and dead processes have left between the files.
OnlyOldestDropped == [][OnDisk \ OnDisk' \subseteq Lines(LastPlace)]_vars

\* The size that decides about rotation is the size of the file, across rotations,
\* restarts and changes of file.
SizeIsFileSize ==
    streamOpen /\ mutex = NoThread => size = Len(file.lines)

\* "Logs are automatically rotated when they reach log_max_size"
\* (docs/shared/configuration/README.md:196): the thread that writes the entry that
\* reaches the limit rotates the file and comes back.
RotationCompletes ==
    \A t \in Threads : pc[t] = "rotate" ~> pc[t] = "idle"
=============================================================================
