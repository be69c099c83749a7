---------------------------- MODULE LoggerProofs ----------------------------
(***************************************************************************)
(* The log files and their rotation, for any number of threads, files and  *)
(* entries, with renames that throw, streams that do not open again and    *)
(* processes that die in the middle of a rotation.                         *)
(*                                                                         *)
(* That the files hold the last entries written is not inductive: it needs *)
(* the gap that a rotation moves through the files (Phase), which only the *)
(* thread that owns log_mutex_ may see (Mutex), and which a crash leaves   *)
(* behind.  Laid names the boundaries between the files: rotated[i] holds  *)
(* the entries after b[i + 1] up to b[i], and the file those after b[0].   *)
(*                                                                         *)
(* The last two parts are about single steps: what leaves the disk, and    *)
(* what a thread does that calls rotateLog with the mutex locked.          *)
(***************************************************************************)
EXTENDS Logger, SequenceTheorems, WellFoundedInduction, TLAPS

Pcs == {"idle", "log", "write", "rotate", "shift", "move", "open"}
LogFiles == [exists : BOOLEAN, lines : Seq(1..MaxEntries)]

Types ==
    /\ compress \in BOOLEAN
    /\ pc \in [Threads -> Pcs]
    /\ mutex \in Threads \cup {NoThread}
    /\ streamOpen \in BOOLEAN
    /\ size \in Nat
    /\ index \in Indices
    /\ file \in LogFiles /\ gz \in LogFiles
    /\ rotated \in [Indices -> LogFiles]
    /\ written \in 0..MaxEntries

\* A file that does not exist holds nothing.
NoGhosts ==
    /\ ~file.exists => file.lines = <<>>
    /\ \A i \in Indices : ~rotated[i].exists => rotated[i].lines = <<>>

\* Who writes or rotates owns log_mutex_.
Mutex == \A t \in Threads : pc[t] \in {"write", "shift", "move", "open"} => mutex = t

\* The stream is open on a file whose size is known, and never during a rotation.
Stream ==
    /\ streamOpen => file.exists /\ size = Len(file.lines)
    /\ \A t \in Threads : pc[t] \in {"shift", "move", "open"} => ~streamOpen

\* What the loop of rotateLog has made room for.
Phase ==
    \A t \in Threads :
        /\ pc[t] = "shift" =>
             /\ index \in 1..(MaxFiles - 1)
             /\ index < MaxFiles - 1 => rotated[index].lines = <<>>
        /\ pc[t] = "move" => (MaxFiles > 1 => rotated[0].lines = <<>>)
        /\ pc[t] = "open" => file.lines = <<>>
        /\ pc[t] = "write" => written < MaxEntries

\* Either the compressed file is used or the last rotated one.
Compressed ==
    /\ compress /\ MaxFiles > 1 => rotated[MaxFiles - 1].lines = <<>>
    /\ ~compress \/ MaxFiles = 1 => gz.lines = <<>>

\* s holds the entries after a up to b.
Run(s, a, b) ==
    /\ a <= b /\ Len(s) = b - a
    /\ \A j \in 1..Len(s) : s[j] = a + j

Bounds == [0..(MaxFiles + 1) -> Nat]

Layout(b) ==
    /\ Run(file.lines, b[0], written)
    /\ \A i \in Indices : Run(rotated[i].lines, b[i + 1], b[i])
    /\ Run(gz.lines, b[MaxFiles + 1], b[MaxFiles])

Laid == \E b \in Bounds : Layout(b)

IInv == Types /\ NoGhosts /\ Mutex /\ Stream /\ Phase /\ Compressed /\ Laid

----------------------------------------------------------------------------

LEMMA Constants ==
    /\ MaxFiles \in Nat /\ MaxFiles >= 1 /\ MaxFileSize \in Nat /\ MaxEntries \in Nat
    /\ NoThread \notin Threads
    /\ \A i \in Indices : i \in Nat /\ i <= MaxFiles - 1
    /\ 0 \in Indices /\ MaxFiles - 1 \in Indices
  BY LoggerConstants DEF LoggerConstants, Indices

LEMMA EmptyFiles ==
    /\ Absent \in LogFiles /\ Absent.lines = <<>> /\ ~Absent.exists
    /\ Empty \in LogFiles /\ Empty.lines = <<>> /\ Empty.exists
  BY DEF Absent, Empty, LogFiles

\* An empty run, and the run of an empty file.
LEMMA RunEmpty ==
    ASSUME NEW a \in Nat
    PROVE  Run(<<>>, a, a)
  BY DEF Run

LEMMA EmptyRun ==
    ASSUME NEW a \in Nat, NEW b \in Nat, Run(<<>>, a, b)
    PROVE  a = b
  BY DEF Run

LEMMA InitInv == Init => IInv
  <1> SUFFICES ASSUME Init PROVE IInv
    OBVIOUS
  <1>1. Types
    <2>1. FALSE \in BOOLEAN /\ 0 \in Nat /\ 0 \in 0..MaxEntries
      BY Constants
    <2>2. rotated \in [Indices -> LogFiles]
      BY EmptyFiles DEF Init
    <2>3. pc \in [Threads -> Pcs]
      BY DEF Init, Pcs
    <2> QED
      BY <2>1, <2>2, <2>3, Constants, EmptyFiles, Zenon DEF Init, Types
  <1>2. NoGhosts /\ Compressed
    BY Constants, EmptyFiles DEF Init, NoGhosts, Compressed
  <1>3. Mutex /\ Stream /\ Phase
    BY DEF Init, Mutex, Stream, Phase
  <1>4. Laid
    <2> DEFINE b == [i \in 0..(MaxFiles + 1) |-> 0]
    <2>1. b \in Bounds
      BY DEF Bounds
    <2>2. /\ b[0] = 0 /\ b[MaxFiles] = 0 /\ b[MaxFiles + 1] = 0
          /\ \A i \in Indices : b[i] = 0 /\ b[i + 1] = 0
      BY Constants DEF Indices
    <2> HIDE DEF b
    <2>3. Run(<<>>, 0, 0)
      BY RunEmpty
    <2>4. \A i \in Indices : rotated[i].lines = <<>>
      BY EmptyFiles DEF Init
    <2>5. Layout(b)
      BY <2>2, <2>3, <2>4, EmptyFiles DEF Init, Layout
    <2> QED
      BY <2>1, <2>5 DEF Laid
  <1> QED
    BY <1>1, <1>2, <1>3, <1>4 DEF IInv

\* What an action keeps that does not touch the files.
LEMMA LaidKept ==
    ASSUME Laid, UNCHANGED <<file, rotated, gz, written>>
    PROVE  Laid'
  BY DEF Laid, Layout, Run, Bounds

LEMMA LaidKeptLines ==
    ASSUME Laid, UNCHANGED <<rotated, gz, written>>, file'.lines = file.lines
    PROVE  Laid'
  <1>1. PICK b \in Bounds : Layout(b)
    BY DEF Laid
  <1>2. Layout(b)'
    BY <1>1 DEF Layout, Run
  <1> QED
    BY <1>1, <1>2 DEF Laid, Bounds

LEMMA DiskKept ==
    ASSUME NoGhosts, Compressed, UNCHANGED <<compress, file, rotated, gz>>
    PROVE  NoGhosts' /\ Compressed'
  BY DEF NoGhosts, Compressed

----------------------------------------------------------------------------
\* One lemma for each action.

LEMMA SetFileStep == ASSUME IInv, SetFile PROVE IInv'
  <1> USE DEF IInv, SetFile
  <1>1. \A t \in Threads : pc[t] \notin {"write", "shift", "move", "open"}
    BY Constants DEF Mutex
  <1>2. file' \in LogFiles /\ file'.lines = file.lines /\ file'.exists
    BY DEF Types, LogFiles
  <1>3. Len(file.lines) \in Nat
    BY DEF Types, LogFiles
  <1>4. TRUE \in BOOLEAN
    OBVIOUS
  <1>5. Types'
    BY <1>2, <1>3, <1>4 DEF Types
  <1>6. NoGhosts' /\ Compressed'
    BY <1>2 DEF NoGhosts, Compressed
  <1>7. Mutex' /\ Stream' /\ Phase'
    BY <1>1, <1>2 DEF Mutex, Stream, Phase
  <1>8. Laid'
    BY <1>2, LaidKeptLines
  <1> QED
    BY <1>5, <1>6, <1>7, <1>8

LEMMA SetNoFileStep == ASSUME IInv, SetNoFile PROVE IInv'
  <1> USE DEF IInv, SetNoFile, disk
  <1>1. FALSE \in BOOLEAN
    OBVIOUS
  <1>2. Types'
    BY <1>1 DEF Types
  <1>3. Mutex' /\ Stream' /\ Phase'
    BY DEF Mutex, Stream, Phase
  <1> QED
    BY <1>2, <1>3, LaidKept, DiskKept

LEMMA CallStep == ASSUME IInv, NEW t \in Threads, Call(t) PROVE IInv'
  <1> USE DEF IInv, Call, Goto, disk
  <1>1. Types'
    BY DEF Types, Pcs
  <1>2. Mutex' /\ Stream' /\ Phase'
    BY DEF Types, Mutex, Stream, Phase
  <1> QED
    BY <1>1, <1>2, LaidKept, DiskKept

LEMMA LockForEntryStep == ASSUME IInv, NEW t \in Threads, LockForEntry(t) PROVE IInv'
  <1> USE DEF IInv, LockForEntry, Goto, disk
  <1>1. \A s \in Threads : pc[s] \notin {"write", "shift", "move", "open"}
    BY Constants DEF Mutex
  <1>2. Types'
    BY DEF Types, Pcs
  <1>3. Mutex' /\ Stream' /\ Phase'
    BY <1>1 DEF Types, Mutex, Stream, Phase
  <1> QED
    BY <1>2, <1>3, LaidKept, DiskKept

\* The entry goes to the end of the last file.
LEMMA RunAppend ==
    ASSUME NEW S, NEW s \in Seq(S), NEW a \in Nat, NEW b \in Nat, Run(s, a, b), b + 1 \in S
    PROVE  Append(s, b + 1) \in Seq(S) /\ Run(Append(s, b + 1), a, b + 1)
  <1> DEFINE new == Append(s, b + 1)
  <1>1. /\ new \in Seq(S) /\ Len(new) = Len(s) + 1 /\ Len(s) \in Nat
        /\ \A i \in 1..Len(s) : new[i] = s[i]
        /\ new[Len(s) + 1] = b + 1
    BY AppendProperties
  <1> HIDE DEF new
  <1>2. a <= b /\ Len(s) = b - a /\ \A j \in 1..Len(s) : s[j] = a + j
    BY DEF Run
  <1>3. Len(new) = (b + 1) - a /\ a <= b + 1
    BY <1>1, <1>2
  <1>4. ASSUME NEW j \in 1..Len(new) PROVE new[j] = a + j
    <2>1. CASE j = Len(s) + 1
      BY <1>1, <1>2, <2>1
    <2>2. CASE j # Len(s) + 1
      <3>1. j \in 1..Len(s)
        BY <1>1, <2>2
      <3> QED
        BY <1>1, <1>2, <3>1
    <2> QED
      BY <2>1, <2>2
  <1>5. Run(new, a, b + 1)
    BY <1>3, <1>4 DEF Run
  <1> QED
    BY <1>1, <1>5 DEF new

LEMMA WriteStep == ASSUME IInv, NEW t \in Threads, WriteEntry(t) PROVE IInv'
  <1>0. pc[t] = "write" /\ mutex = t
    BY DEF IInv, WriteEntry, Mutex
  <1>1. \A s \in Threads : s # t => pc[s] \notin {"write", "shift", "move", "open"}
    BY <1>0 DEF IInv, Mutex
  <1>2. CASE ~streamOpen
    <2>1. /\ pc' = [pc EXCEPT ![t] = "idle"] /\ mutex' = NoThread
          /\ UNCHANGED <<compress, streamOpen, index, rotated, gz, written, file, size>>
      BY <1>2 DEF WriteEntry, Goto
    <2>2. Types'
      BY <2>1 DEF IInv, Types, Pcs
    <2>3. Mutex' /\ Stream' /\ Phase'
      BY <1>1, <2>1 DEF IInv, Types, Mutex, Stream, Phase
    <2> QED
      BY <2>1, <2>2, <2>3, LaidKept, DiskKept DEF IInv
  <1>3. CASE streamOpen
    <2>1. /\ written' = written + 1
          /\ file' = [file EXCEPT !.lines = Append(file.lines, written + 1)]
          /\ size' = size + 1
          /\ \/ pc' = [pc EXCEPT ![t] = "rotate"] /\ mutex' = mutex
             \/ pc' = [pc EXCEPT ![t] = "idle"] /\ mutex' = NoThread
          /\ UNCHANGED <<compress, streamOpen, index, rotated, gz>>
      BY <1>3 DEF WriteEntry, Goto
    <2>2. PICK b \in Bounds : Layout(b)
      BY DEF IInv, Laid
    <2>3. /\ b[0] \in Nat /\ written \in Nat /\ file.lines \in Seq(1..MaxEntries)
          /\ written + 1 \in 1..MaxEntries
      BY <1>0, Constants DEF Bounds, IInv, Types, LogFiles, Phase
    <2>4. /\ Append(file.lines, written + 1) \in Seq(1..MaxEntries)
          /\ Run(Append(file.lines, written + 1), b[0], written + 1)
      BY <2>2, <2>3, RunAppend DEF Layout
    <2>5. Len(Append(file.lines, written + 1)) = Len(file.lines) + 1
      BY <2>3
    <2> DEFINE ls == Append(file.lines, written + 1)
    <2> HIDE DEF ls
    <2>6. file' \in LogFiles /\ file'.lines = ls /\ file'.exists = file.exists
      BY <2>1, <2>4 DEF IInv, Types, LogFiles, ls
    <2>7. written' \in 0..MaxEntries /\ size' \in Nat
      BY <2>1, <2>3 DEF IInv, Types
    <2>8. Types'
      BY <2>1, <2>6, <2>7 DEF IInv, Types, Pcs
    <2>9. NoGhosts' /\ Compressed'
      BY <1>3, <2>1, <2>6 DEF IInv, NoGhosts, Compressed, Stream
    <2>10. Mutex' /\ Phase'
      BY <1>1, <2>1 DEF IInv, Types, Mutex, Phase
    <2>11. Stream'
      <3>1. file'.exists /\ size' = Len(file'.lines)
        BY <1>3, <2>1, <2>5, <2>6 DEF IInv, Stream, ls
      <3>2. \A s \in Threads : pc'[s] \notin {"shift", "move", "open"}
        BY <1>1, <2>1 DEF IInv, Types
      <3> QED
        BY <3>1, <3>2 DEF Stream
    <2>12. Laid'
      <3>1. Layout(b)'
        BY <2>1, <2>2, <2>4, <2>6 DEF Layout, ls, Run
      <3> QED
        BY <2>2, <3>1 DEF Laid, Bounds
    <2> QED
      BY <2>8, <2>9, <2>10, <2>11, <2>12 DEF IInv
  <1> QED
    BY <1>2, <1>3

LEMMA LockForRotationStep ==
    ASSUME IInv, NEW t \in Threads, LockForRotation(t)
    PROVE  IInv'
  <1>0. \A s \in Threads : pc[s] \notin {"write", "shift", "move", "open"}
    BY Constants DEF IInv, Mutex, LockForRotation
  <1>1. CASE ~streamOpen
    <2>1. /\ pc' = [pc EXCEPT ![t] = "idle"]
          /\ UNCHANGED <<mutex, streamOpen, index, compress, size, disk>>
      BY <1>1 DEF LockForRotation, Goto
    <2>2. Types'
      BY <2>1 DEF IInv, Types, Pcs, disk
    <2>3. Mutex' /\ Stream' /\ Phase'
      BY <1>0, <2>1 DEF IInv, Types, Mutex, Stream, Phase, disk
    <2> QED
      BY <2>1, <2>2, <2>3, LaidKept, DiskKept DEF IInv, disk
  <1>2. CASE streamOpen
    <2>1. PICK p \in {"shift", "move"} :
            /\ p = IF MaxFiles > 1 THEN "shift" ELSE "move"
            /\ pc' = [pc EXCEPT ![t] = p]
            /\ mutex' = t /\ streamOpen' = FALSE /\ index' = MaxFiles - 1
            /\ UNCHANGED <<compress, size, disk>>
      BY <1>2 DEF LockForRotation, Goto
    <2>2. streamOpen' \in BOOLEAN
      BY <2>1
    <2>3. Types'
      BY <2>1, <2>2, Constants DEF IInv, Types, Pcs, disk
    <2>4. Mutex' /\ Stream'
      BY <1>0, <2>1 DEF IInv, Types, Mutex, Stream, disk
    <2>5. Phase'
      <3>1. MaxFiles > 1 => MaxFiles - 1 \in 1..(MaxFiles - 1) /\ ~(MaxFiles - 1 < MaxFiles - 1)
        BY Constants
      <3> QED
        BY <1>0, <2>1, <3>1 DEF IInv, Types, Phase, disk
    <2> QED
      BY <2>1, <2>3, <2>4, <2>5, LaidKept, DiskKept DEF IInv, disk
  <1> QED
    BY <1>1, <1>2

\* File i - 1 becomes file i, into the gap or in the place of the oldest file.
LEMMA LaidShift ==
    ASSUME Types, Laid, Compressed, NEW i \in 1..(MaxFiles - 1),
           i < MaxFiles - 1 => rotated[i].lines = <<>>,
           i = MaxFiles - 1 => ~compress,
           rotated' = [rotated EXCEPT ![i] = rotated[i - 1], ![i - 1] = Absent],
           UNCHANGED <<gz, file, written>>
    PROVE  Laid'
  <1>0. PICK b \in Bounds : Layout(b)
    BY DEF Laid
  <1>1. /\ MaxFiles \in Nat /\ i \in Nat /\ 1 <= i /\ i <= MaxFiles - 1
        /\ i - 1 \in Indices /\ i \in Indices
        /\ \A k \in Indices : k \in Nat /\ k <= MaxFiles - 1
    BY Constants DEF Indices
  <1>2. \A k \in 0..(MaxFiles + 1) : b[k] \in Nat
    BY DEF Bounds
  <1>3. /\ rotated'[i].lines = rotated[i - 1].lines /\ rotated'[i - 1].lines = <<>>
        /\ \A k \in Indices : k # i /\ k # i - 1 => rotated'[k].lines = rotated[k].lines
    BY <1>1, EmptyFiles DEF Types
  <1>4. Run(rotated[i - 1].lines, b[i], b[i - 1])
    <2>1. i - 1 + 1 = i
      BY <1>1
    <2> QED
      BY <1>0, <1>1, <2>1 DEF Layout
  <1>5. CASE i < MaxFiles - 1
    <2>1. b[i + 1] = b[i]
      BY <1>0, <1>1, <1>2, <1>5, EmptyRun DEF Layout
    <2> DEFINE c == [b EXCEPT ![i] = b[i - 1]]
    <2>2. /\ c \in Bounds /\ c[i] = b[i - 1]
          /\ \A k \in 0..(MaxFiles + 1) : k # i => c[k] = b[k]
      BY <1>1, <1>2 DEF Bounds
    <2> HIDE DEF c
    <2>3. /\ c[0] = b[0] /\ c[MaxFiles] = b[MaxFiles] /\ c[MaxFiles + 1] = b[MaxFiles + 1]
          /\ c[i - 1] = b[i - 1] /\ c[i + 1] = b[i]
      BY <1>1, <2>1, <2>2
    <2>4. ASSUME NEW k \in Indices PROVE Run(rotated'[k].lines, c[k + 1], c[k])
      <3>1. CASE k = i
        BY <1>3, <1>4, <2>2, <2>3, <3>1
      <3>2. CASE k = i - 1
        <4>1. k + 1 = i /\ b[i - 1] \in Nat
          BY <1>1, <1>2, <3>2
        <4> QED
          BY <1>3, <2>2, <2>3, <3>2, <4>1, RunEmpty
      <3>3. CASE k # i /\ k # i - 1
        <4>1. c[k + 1] = b[k + 1] /\ c[k] = b[k]
          BY <1>1, <2>2, <3>3
        <4> QED
          BY <1>0, <1>3, <3>3, <4>1 DEF Layout
      <3> QED
        BY <3>1, <3>2, <3>3
    <2>5. Layout(c)'
      BY <1>0, <2>3, <2>4 DEF Layout, Run
    <2> QED
      BY <2>2, <2>5 DEF Laid, Bounds
  <1>6. CASE i = MaxFiles - 1
    <2>1. gz.lines = <<>> /\ i + 1 = MaxFiles /\ i + 2 = MaxFiles + 1
      BY <1>1, <1>6 DEF Compressed
    <2> DEFINE c == [k \in 0..(MaxFiles + 1) |->
                       IF k = i THEN b[i - 1] ELSE IF k > i THEN b[i] ELSE b[k]]
    <2>2. /\ c \in Bounds /\ c[i] = b[i - 1] /\ c[i - 1] = b[i - 1]
          /\ c[i + 1] = b[i] /\ c[MaxFiles] = b[i] /\ c[MaxFiles + 1] = b[i]
          /\ \A k \in 0..(i - 1) : c[k] = b[k]
      BY <1>1, <1>2, <1>6 DEF Bounds
    <2> HIDE DEF c
    <2>3. c[0] = b[0] /\ b[i] \in Nat /\ b[i - 1] \in Nat
      BY <1>1, <1>2, <2>2
    <2>4. ASSUME NEW k \in Indices PROVE Run(rotated'[k].lines, c[k + 1], c[k])
      <3>1. CASE k = i
        BY <1>3, <1>4, <2>2, <3>1
      <3>2. CASE k = i - 1
        <4>1. k + 1 = i
          BY <1>1, <3>2
        <4> QED
          BY <1>3, <2>2, <2>3, <3>2, <4>1, RunEmpty
      <3>3. CASE k # i /\ k # i - 1
        <4>1. c[k + 1] = b[k + 1] /\ c[k] = b[k]
          <5>1. k \in 0..(i - 1) /\ k + 1 \in 0..(i - 1)
            BY <1>1, <1>6, <3>3
          <5> QED
            BY <2>2, <5>1
        <4> QED
          BY <1>0, <1>3, <3>3, <4>1 DEF Layout
      <3> QED
        BY <3>1, <3>2, <3>3
    <2>5. Run(gz.lines, c[MaxFiles + 1], c[MaxFiles])
      BY <2>1, <2>2, <2>3, RunEmpty
    <2>6. Layout(c)'
      BY <1>0, <2>3, <2>4, <2>5 DEF Layout, Run
    <2> QED
      BY <2>2, <2>6 DEF Laid, Bounds
  <1> QED
    BY <1>1, <1>5, <1>6

\* The oldest file but one is compressed, in the place of the compressed file.
LEMMA LaidCompress ==
    ASSUME Types, Laid, Compressed, compress, MaxFiles > 1,
           gz' = rotated[MaxFiles - 2],
           rotated' = [rotated EXCEPT ![MaxFiles - 2] = Absent],
           UNCHANGED <<file, written>>
    PROVE  Laid'
  <1>0. PICK b \in Bounds : Layout(b)
    BY DEF Laid
  <1> DEFINE i == MaxFiles - 1
  <1>1. /\ MaxFiles \in Nat /\ i \in Nat /\ 1 <= i /\ i - 1 = MaxFiles - 2 /\ i + 1 = MaxFiles
        /\ i - 1 \in Indices /\ i \in Indices
        /\ \A k \in Indices : k \in Nat /\ k <= i
    BY Constants DEF Indices
  <1>2. \A k \in 0..(MaxFiles + 1) : b[k] \in Nat
    BY DEF Bounds
  <1>3. rotated[i].lines = <<>>
    BY DEF Compressed
  <1> HIDE DEF i
  <1>4. /\ rotated'[i - 1].lines = <<>> /\ rotated'[i].lines = <<>>
        /\ gz'.lines = rotated[i - 1].lines
        /\ \A k \in Indices : k # i - 1 => rotated'[k].lines = rotated[k].lines
    BY <1>1, <1>3, EmptyFiles DEF Types
  <1>5. Run(rotated[i - 1].lines, b[i], b[i - 1])
    <2>1. i - 1 + 1 = i
      BY <1>1
    <2> QED
      BY <1>0, <1>1, <2>1 DEF Layout
  <1> DEFINE c == [k \in 0..(MaxFiles + 1) |->
                     IF k = MaxFiles + 1 THEN b[i] ELSE IF k >= i THEN b[i - 1] ELSE b[k]]
  <1>6. /\ c \in Bounds /\ c[i] = b[i - 1] /\ c[i - 1] = b[i - 1]
        /\ c[i + 1] = b[i - 1] /\ c[MaxFiles] = b[i - 1] /\ c[MaxFiles + 1] = b[i]
        /\ \A k \in 0..(i - 1) : c[k] = b[k]
    BY <1>1, <1>2 DEF Bounds
  <1> HIDE DEF c
  <1>7. c[0] = b[0] /\ b[i - 1] \in Nat
    BY <1>1, <1>2, <1>6
  <1>8. ASSUME NEW k \in Indices PROVE Run(rotated'[k].lines, c[k + 1], c[k])
    <2>1. CASE k = i
      BY <1>4, <1>6, <1>7, <2>1, RunEmpty
    <2>2. CASE k = i - 1
      <3>1. k + 1 = i
        BY <1>1, <2>2
      <3> QED
        BY <1>4, <1>6, <1>7, <2>2, <3>1, RunEmpty
    <2>3. CASE k # i /\ k # i - 1
      <3>1. k \in 0..(i - 1) /\ k + 1 \in 0..(i - 1)
        BY <1>1, <2>3
      <3>2. c[k + 1] = b[k + 1] /\ c[k] = b[k]
        BY <1>6, <3>1
      <3> QED
        BY <1>0, <1>4, <2>3, <3>2 DEF Layout
    <2> QED
      BY <2>1, <2>2, <2>3
  <1>9. Run(gz'.lines, c[MaxFiles + 1], c[MaxFiles])
    BY <1>4, <1>5, <1>6
  <1>10. Layout(c)'
    BY <1>0, <1>7, <1>8, <1>9 DEF Layout, Run
  <1> QED
    BY <1>6, <1>10 DEF Laid, Bounds

\* The current file becomes file 0.
LEMMA LaidMove ==
    ASSUME Types, Laid, Compressed, MaxFiles > 1 => rotated[0].lines = <<>>,
           rotated' = [rotated EXCEPT ![0] = file], file' = Absent,
           UNCHANGED <<gz, written>>
    PROVE  Laid'
  <1>0. PICK b \in Bounds : Layout(b)
    BY DEF Laid
  <1>1. /\ MaxFiles \in Nat /\ MaxFiles >= 1 /\ 0 \in Indices /\ written \in Nat
        /\ \A k \in Indices : k \in Nat /\ k <= MaxFiles - 1
    BY Constants DEF Types
  <1>2. \A k \in 0..(MaxFiles + 1) : b[k] \in Nat
    BY DEF Bounds
  <1>3. /\ rotated'[0].lines = file.lines /\ file'.lines = <<>>
        /\ \A k \in Indices : k # 0 => rotated'[k].lines = rotated[k].lines
    BY <1>1, EmptyFiles DEF Types
  <1>w. PICK w \in Nat : w = written
    BY <1>1
  <1>4. Run(file.lines, b[0], written)
    BY <1>0 DEF Layout
  <1>5. CASE MaxFiles > 1
    <2>1. b[1] = b[0]
      <3>1. Run(<<>>, b[0 + 1], b[0])
        BY <1>0, <1>1, <1>5 DEF Layout
      <3>2. 0 + 1 = 1 /\ b[0] \in Nat /\ b[1] \in Nat
        BY <1>1, <1>2
      <3> QED
        BY <3>1, <3>2, EmptyRun
    <2> DEFINE c == [b EXCEPT ![0] = w]
    <2>2. /\ c \in Bounds /\ c[0] = written
          /\ \A k \in 0..(MaxFiles + 1) : k # 0 => c[k] = b[k]
      BY <1>1, <1>2, <1>w DEF Bounds
    <2> HIDE DEF c
    <2>3. c[MaxFiles] = b[MaxFiles] /\ c[MaxFiles + 1] = b[MaxFiles + 1] /\ c[1] = b[0]
      BY <1>1, <2>1, <2>2
    <2>4. ASSUME NEW k \in Indices PROVE Run(rotated'[k].lines, c[k + 1], c[k])
      <3>1. CASE k = 0
        <4>1. 0 + 1 = 1
          OBVIOUS
        <4> QED
          BY <1>3, <1>4, <2>2, <2>3, <3>1, <4>1
      <3>2. CASE k # 0
        <4>1. c[k + 1] = b[k + 1] /\ c[k] = b[k]
          BY <1>1, <2>2, <3>2
        <4> QED
          BY <1>0, <1>3, <3>2, <4>1 DEF Layout
      <3> QED
        BY <3>1, <3>2
    <2>5. Run(<<>>, c[0], written)
      BY <1>1, <2>2, RunEmpty
    <2>6. Layout(c)'
      BY <1>0, <1>3, <2>3, <2>4, <2>5 DEF Layout, Run
    <2> QED
      BY <2>2, <2>6 DEF Laid, Bounds
  <1>6. CASE MaxFiles = 1
    <2>1. gz.lines = <<>>
      BY <1>6 DEF Compressed
    <2> DEFINE c == [k \in 0..(MaxFiles + 1) |-> IF k = 0 THEN w ELSE b[0]]
    <2>2. c \in Bounds /\ c[0] = written /\ c[1] = b[0] /\ c[2] = b[0] /\ b[0] \in Nat
      BY <1>1, <1>2, <1>6, <1>w DEF Bounds
    <2> HIDE DEF c
    <2>3. \A k \in Indices : k = 0
      BY <1>1, <1>6
    <2>4. Run(rotated'[0].lines, c[0 + 1], c[0])
      <3>1. 0 + 1 = 1
        OBVIOUS
      <3> QED
        BY <1>3, <1>4, <2>2, <3>1
    <2>5. Run(gz.lines, c[MaxFiles + 1], c[MaxFiles])
      <3>1. MaxFiles + 1 = 2
        BY <1>6
      <3> QED
        BY <1>6, <2>1, <2>2, <3>1, RunEmpty
    <2>6. Run(<<>>, c[0], written)
      BY <1>1, <2>2, RunEmpty
    <2>7. Layout(c)'
      BY <1>3, <2>3, <2>4, <2>5, <2>6 DEF Layout, Run
    <2> QED
      BY <2>2, <2>7 DEF Laid, Bounds
  <1> QED
    BY <1>1, <1>5, <1>6

LEMMA ShiftStep == ASSUME IInv, NEW t \in Threads, Shift(t) PROVE IInv'
  <1>0. /\ pc[t] = "shift" /\ mutex = t /\ ~streamOpen
        /\ index \in 1..(MaxFiles - 1)
        /\ index < MaxFiles - 1 => rotated[index].lines = <<>>
    BY DEF IInv, Shift, Mutex, Stream, Phase
  <1>1. \A s \in Threads : s # t => pc[s] \notin {"write", "shift", "move", "open"}
    BY <1>0 DEF IInv, Mutex
  <1>2. /\ MaxFiles \in Nat /\ index \in Nat /\ 1 <= index /\ index <= MaxFiles - 1
        /\ index \in Indices /\ index - 1 \in Indices /\ MaxFiles > 1 /\ MaxFiles - 1 \in Indices
    BY <1>0, Constants DEF Indices
  <1>3. rotated \in [Indices -> LogFiles] /\ gz \in LogFiles /\ pc \in [Threads -> Pcs]
    BY DEF IInv, Types
  <1>4. PICK p \in {"shift", "move"} :
          /\ p = IF index - 1 > 0 THEN "shift" ELSE "move"
          /\ pc' = [pc EXCEPT ![t] = p]
          /\ index' = index - 1
          /\ UNCHANGED <<compress, mutex, streamOpen, size, file, written>>
    BY DEF Shift, Goto
  <1>5. /\ rotated' \in [Indices -> LogFiles] /\ gz' \in LogFiles
        /\ rotated'[index - 1].lines = <<>>
        /\ \A i \in Indices : ~rotated'[i].exists => rotated'[i].lines = <<>>
        /\ Compressed' /\ Laid'
    <2>1. CASE ~rotated[index - 1].exists
      <3>1. UNCHANGED <<rotated, gz>>
        BY <2>1 DEF Shift
      <3>2. rotated[index - 1].lines = <<>>
        BY <1>2, <2>1 DEF IInv, NoGhosts
      <3>3. Laid'
        BY <1>4, <3>1, LaidKept DEF IInv
      <3> QED
        BY <1>3, <1>4, <3>1, <3>2, <3>3 DEF IInv, NoGhosts, Compressed
    <2>2. CASE rotated[index - 1].exists /\ index = MaxFiles - 1 /\ compress
      <3>1. gz' = rotated[index - 1] /\ rotated' = [rotated EXCEPT ![index - 1] = Absent]
        BY <2>2 DEF Shift
      <3>2. index - 1 = MaxFiles - 2
        BY <1>2, <2>2
      <3>3. Laid'
        BY <1>2, <1>4, <2>2, <3>1, <3>2, LaidCompress DEF IInv
      <3>4. /\ rotated' \in [Indices -> LogFiles] /\ gz' \in LogFiles
            /\ rotated'[index - 1].lines = <<>>
            /\ \A i \in Indices : ~rotated'[i].exists => rotated'[i].lines = <<>>
        BY <1>2, <1>3, <3>1, EmptyFiles DEF IInv, NoGhosts
      <3>5. rotated'[MaxFiles - 1].lines = <<>>
        BY <1>2, <1>3, <2>2, <3>1 DEF IInv, Compressed
      <3>6. Compressed'
        BY <1>2, <1>4, <2>2, <3>5 DEF Compressed
      <3> QED
        BY <3>3, <3>4, <3>6
    <2>3. CASE rotated[index - 1].exists /\ ~(index = MaxFiles - 1 /\ compress)
      <3>1. /\ rotated' = [rotated EXCEPT ![index] = rotated[index - 1], ![index - 1] = Absent]
            /\ gz' = gz
        BY <2>3 DEF Shift
      <3>2. Laid'
        <4>1. PICK i \in 1..(MaxFiles - 1) : i = index
          BY <1>0
        <4>2. /\ i < MaxFiles - 1 => rotated[i].lines = <<>>
              /\ i = MaxFiles - 1 => ~compress
              /\ rotated' = [rotated EXCEPT ![i] = rotated[i - 1], ![i - 1] = Absent]
          BY <1>0, <2>3, <3>1, <4>1
        <4> QED
          BY <1>4, <3>1, <4>2, LaidShift DEF IInv
      <3>3. /\ rotated' \in [Indices -> LogFiles] /\ gz' \in LogFiles
            /\ rotated'[index - 1].lines = <<>>
            /\ \A i \in Indices : ~rotated'[i].exists => rotated'[i].lines = <<>>
        BY <1>2, <1>3, <3>1, EmptyFiles DEF IInv, NoGhosts
      <3>4. compress => rotated'[MaxFiles - 1].lines = <<>>
        <4>1. compress => MaxFiles - 1 # index /\ MaxFiles - 1 # index - 1
          BY <1>2, <2>3
        <4> QED
          BY <1>2, <1>3, <3>1, <4>1 DEF IInv, Compressed
      <3>5. Compressed'
        BY <1>2, <1>4, <3>1, <3>4 DEF IInv, Compressed
      <3> QED
        BY <3>2, <3>3, <3>5
    <2> QED
      BY <2>1, <2>2, <2>3
  <1>6. Types'
    BY <1>2, <1>4, <1>5 DEF IInv, Types, Pcs
  <1>7. NoGhosts' /\ Mutex' /\ Stream'
    BY <1>0, <1>1, <1>3, <1>4, <1>5 DEF IInv, NoGhosts, Mutex, Stream
  <1>8. Phase'
    <2>1. index - 1 > 0 => index - 1 \in 1..(MaxFiles - 1)
      BY <1>2
    <2>2. ~(index - 1 > 0) => index - 1 = 0
      BY <1>2
    <2>3. pc'[t] = p /\ \A s \in Threads : s # t => pc'[s] = pc[s]
      BY <1>3, <1>4
    <2> QED
      BY <1>1, <1>4, <1>5, <2>1, <2>2, <2>3 DEF Phase
  <1> QED
    BY <1>5, <1>6, <1>7, <1>8 DEF IInv

LEMMA MoveStep == ASSUME IInv, NEW t \in Threads, MoveCurrent(t) PROVE IInv'
  <1>0. /\ pc[t] = "move" /\ mutex = t /\ ~streamOpen
        /\ MaxFiles > 1 => rotated[0].lines = <<>>
    BY DEF IInv, MoveCurrent, Mutex, Stream, Phase
  <1>1. \A s \in Threads : s # t => pc[s] \notin {"write", "shift", "move", "open"}
    BY <1>0 DEF IInv, Mutex
  <1>2. /\ rotated \in [Indices -> LogFiles] /\ pc \in [Threads -> Pcs] /\ file \in LogFiles
        /\ 0 \in Indices
    BY Constants DEF IInv, Types
  <1>3. /\ pc' = [pc EXCEPT ![t] = "open"]
        /\ UNCHANGED <<compress, mutex, streamOpen, size, index, gz, written>>
    BY DEF MoveCurrent, Goto
  <1>4. /\ rotated' \in [Indices -> LogFiles] /\ file' \in LogFiles /\ file'.lines = <<>>
        /\ NoGhosts' /\ Compressed' /\ Laid'
    <2>1. CASE ~file.exists
      <3>1. UNCHANGED <<rotated, file>>
        BY <2>1 DEF MoveCurrent
      <3>2. file.lines = <<>>
        BY <2>1 DEF IInv, NoGhosts
      <3> QED
        BY <1>2, <1>3, <3>1, <3>2, LaidKept, DiskKept DEF IInv
    <2>2. CASE file.exists
      <3>1. rotated' = [rotated EXCEPT ![0] = file] /\ file' = Absent
        BY <2>2 DEF MoveCurrent
      <3>2. Laid'
        BY <1>0, <1>3, <3>1, LaidMove DEF IInv
      <3>3. NoGhosts'
        BY <1>2, <2>2, <3>1, EmptyFiles DEF IInv, NoGhosts
      <3>4. Compressed'
        <4>1. MaxFiles > 1 => MaxFiles - 1 # 0 /\ MaxFiles - 1 \in Indices
          BY Constants
        <4> QED
          BY <1>2, <1>3, <3>1, <4>1 DEF IInv, Compressed
      <3> QED
        BY <1>2, <3>1, <3>2, <3>3, <3>4, EmptyFiles
    <2> QED
      BY <2>1, <2>2
  <1>5. Types'
    BY <1>3, <1>4 DEF IInv, Types, Pcs
  <1>6. Mutex' /\ Stream' /\ Phase'
    BY <1>0, <1>1, <1>2, <1>3, <1>4 DEF IInv, Mutex, Stream, Phase
  <1> QED
    BY <1>4, <1>5, <1>6 DEF IInv

LEMMA ReopenStep == ASSUME IInv, NEW t \in Threads, Reopen(t) PROVE IInv'
  <1>0. pc[t] = "open" /\ mutex = t /\ file.lines = <<>>
    BY DEF IInv, Reopen, Mutex, Phase
  <1>1. \A s \in Threads : s # t => pc[s] \notin {"write", "shift", "move", "open"}
    BY <1>0 DEF IInv, Mutex
  <1>2. /\ pc' = [pc EXCEPT ![t] = "idle"] /\ mutex' = NoThread /\ streamOpen' \in BOOLEAN
        /\ file' = (IF streamOpen' THEN Empty ELSE file) /\ size' = 0
        /\ UNCHANGED <<compress, index, rotated, gz, written>>
    BY DEF Reopen, Goto
  <1>3. file' \in LogFiles /\ file'.lines = <<>> /\ (streamOpen' => file'.exists)
    BY <1>0, <1>2, EmptyFiles DEF IInv, Types
  <1>4. Types'
    BY <1>2, <1>3 DEF IInv, Types, Pcs
  <1>5. NoGhosts' /\ Compressed'
    BY <1>2, <1>3 DEF IInv, NoGhosts, Compressed
  <1>6. Mutex' /\ Stream' /\ Phase'
    BY <1>1, <1>2, <1>3 DEF IInv, Types, Mutex, Stream, Phase
  <1>7. Laid'
    BY <1>0, <1>2, <1>3, LaidKeptLines DEF IInv
  <1> QED
    BY <1>4, <1>5, <1>6, <1>7 DEF IInv

LEMMA ThrowStep == ASSUME IInv, NEW t \in Threads, RenameThrows(t) PROVE IInv'
  <1>0. pc[t] \in {"shift", "move"} /\ mutex = t
    BY DEF IInv, RenameThrows, Mutex
  <1>1. \A s \in Threads : s # t => pc[s] \notin {"write", "shift", "move", "open"}
    BY <1>0 DEF IInv, Mutex
  <1>2. /\ pc' = [pc EXCEPT ![t] = "idle"] /\ mutex' = NoThread
        /\ UNCHANGED <<compress, streamOpen, size, index, file, rotated, gz, written>>
    BY DEF RenameThrows, Goto, disk
  <1>3. Types'
    BY <1>2 DEF IInv, Types, Pcs
  <1>4. Mutex' /\ Stream' /\ Phase'
    BY <1>1, <1>2 DEF IInv, Types, Mutex, Stream, Phase
  <1> QED
    BY <1>2, <1>3, <1>4, LaidKept, DiskKept DEF IInv

LEMMA RestartStep == ASSUME IInv, Restart PROVE IInv'
  <1>1. /\ pc' = [t \in Threads |-> "idle"] /\ mutex' = NoThread
        /\ streamOpen' = FALSE /\ size' = 0 /\ index' = 0
        /\ UNCHANGED <<compress, file, rotated, gz, written>>
    BY DEF Restart, disk
  <1>2. streamOpen' \in BOOLEAN /\ index' \in Indices /\ size' \in Nat
    BY <1>1, Constants
  <1>3. Types'
    BY <1>1, <1>2 DEF IInv, Types, Pcs
  <1>4. Mutex' /\ Stream' /\ Phase'
    BY <1>1 DEF IInv, Mutex, Stream, Phase
  <1> QED
    BY <1>1, <1>3, <1>4, LaidKept, DiskKept DEF IInv

LEMMA NextInv == IInv /\ [Next]_vars => IInv'
  <1> SUFFICES ASSUME IInv, [Next]_vars PROVE IInv'
    OBVIOUS
  <1>1. CASE SetFile \/ SetNoFile
    BY <1>1, SetFileStep, SetNoFileStep
  <1>2. ASSUME NEW t \in Threads, Call(t) PROVE IInv'
    BY <1>2, CallStep
  <1>3. ASSUME NEW t \in Threads, Step(t) PROVE IInv'
    BY <1>3, LockForEntryStep, WriteStep, LockForRotationStep, ShiftStep, MoveStep,
       ThrowStep, ReopenStep DEF Step
  <1>4. CASE Restart
    BY <1>4, RestartStep
  <1>5. CASE UNCHANGED vars
    <2>1. Types' /\ Mutex' /\ Stream' /\ Phase'
      BY <1>5 DEF vars, IInv, Types, Mutex, Stream, Phase
    <2> QED
      BY <1>5, <2>1, LaidKept, DiskKept DEF IInv, vars
  <1> QED
    BY <1>1, <1>2, <1>3, <1>4, <1>5 DEF Next, Running

\* Mutual exclusion by log_mutex_, the gap that a rotation moves through the files, and
\* the boundaries between the files, in every reachable state.
THEOREM LoggerInvariant == Spec => []IInv
  BY InitInv, NextInv, PTL DEF Spec

\* The types of the logger's state and of its files.
THEOREM LoggerTypeCorrect == Spec => []TypeOK
  <1>1. IInv => TypeOK
    BY DEF IInv, Types, LogFiles, Pcs, TypeOK
  <1> QED
    BY <1>1, LoggerInvariant, PTL

\* current_file_size_ is the size of the file whenever logEntry or setFile looks at it,
\* across rotations, restarts and changes of file.
THEOREM SizeStaysFileSize == Spec => []SizeIsFileSize
  <1>1. IInv => SizeIsFileSize
    BY DEF IInv, Stream, SizeIsFileSize
  <1> QED
    BY <1>1, LoggerInvariant, PTL
----------------------------------------------------------------------------
\* FlattenSeq is a recursive function: that there is one, and what it yields on runs that
\* follow one another, by induction on the number of the files.

\* A nonempty set of natural numbers has a least element.
LEMMA LeastNumber ==
    ASSUME NEW T, T \subseteq Nat, T # {}
    PROVE  \E n \in T : \A m \in T : n <= m
  <1>1. PICK n \in T : \A m \in T : ~(<<m, n>> \in OpToRel(<, Nat))
    BY NatLessThanWellFounded, WFMin
  <1>2. ASSUME NEW m \in T PROVE n <= m
    <2>1. ~(<<m, n>> \in {p \in Nat \X Nat : p[1] < p[2]})
      BY <1>1 DEF OpToRel
    <2> QED
      BY <2>1
  <1> QED
    BY <1>2

\* f flattens the first n of the sequences ss.
Flattens(f, ss, n) ==
    f = [i \in 1..n |-> IF i = 1 THEN ss[i] ELSE f[i - 1] \o ss[i]]

\* What flattens the first n sequences is prolonged by one.
LEMMA FlattenExtends ==
    ASSUME NEW ss, NEW n \in Nat, NEW f, Flattens(f, ss, n)
    PROVE  \E g : Flattens(g, ss, n + 1)
  <1> DEFINE g == [i \in 1..(n + 1) |-> IF i = n + 1
                                        THEN IF i = 1 THEN ss[i] ELSE f[i - 1] \o ss[i]
                                        ELSE f[i]]
  <1>1. ASSUME NEW i \in 1..n
        PROVE  f[i] = IF i = 1 THEN ss[i] ELSE f[i - 1] \o ss[i]
    BY DEF Flattens
  <1>2. ASSUME NEW i \in 1..(n + 1)
        PROVE  g[i] = IF i = 1 THEN ss[i] ELSE g[i - 1] \o ss[i]
    <2>1. CASE i = n + 1
      <3>1. CASE i = 1
        BY <2>1, <3>1
      <3>2. CASE i # 1
        <4>1. i - 1 \in 1..(n + 1) /\ i - 1 # n + 1
          BY <2>1, <3>2
        <4>2. g[i - 1] = f[i - 1]
          BY <4>1
        <4> QED
          BY <2>1, <3>2, <4>2
      <3> QED
        BY <3>1, <3>2
    <2>2. CASE i # n + 1
      <3>1. i \in 1..n /\ g[i] = f[i]
        BY <2>2
      <3>2. CASE i = 1
        BY <1>1, <3>1, <3>2
      <3>3. CASE i # 1
        <4>1. i - 1 \in 1..(n + 1) /\ i - 1 # n + 1
          BY <2>2, <3>3
        <4>2. g[i - 1] = f[i - 1]
          BY <4>1
        <4> QED
          BY <1>1, <3>1, <3>3, <4>2
      <3> QED
        BY <3>2, <3>3
    <2> QED
      BY <2>1, <2>2
  <1> DEFINE h == [i \in 1..(n + 1) |-> IF i = 1 THEN ss[i] ELSE g[i - 1] \o ss[i]]
  <1>3. g = [i \in 1..(n + 1) |-> g[i]]
    OBVIOUS
  <1> HIDE DEF g
  <1>4. g = h
    BY <1>2, <1>3
  <1> QED
    BY <1>4 DEF Flattens

LEMMA FlattenExists ==
    ASSUME NEW ss, NEW n \in Nat
    PROVE  \E f : Flattens(f, ss, n)
  <1> DEFINE T == {m \in Nat : ~\E f : Flattens(f, ss, m)}
  <1> SUFFICES ASSUME T # {} PROVE FALSE
    OBVIOUS
  <1>1. PICK m \in T : \A k \in T : m <= k
    BY LeastNumber
  <1>2. m # 0
    <2> DEFINE e == [i \in 1..0 |-> 0]
    <2>1. Flattens(e, ss, 0)
      <3>1. 1..0 = {}
        OBVIOUS
      <3>2. [i \in 1..0 |-> IF i = 1 THEN ss[i] ELSE e[i - 1] \o ss[i]] = e
        BY <3>1
      <3> QED
        BY <3>2 DEF Flattens
    <2> QED
      BY <2>1
  <1>3. m - 1 \in Nat /\ ~(m - 1 \in T) /\ (m - 1) + 1 = m
    BY <1>1, <1>2
  <1>4. PICK f : Flattens(f, ss, m - 1)
    BY <1>3
  <1> QED
    BY <1>3, <1>4, FlattenExtends

LEMMA FlattenUnfolds ==
    ASSUME NEW ss \in Seq(Seq(1..MaxEntries)), Len(ss) # 0
    PROVE  \E f : Flattens(f, ss, Len(ss)) /\ FlattenSeq(ss) = f[Len(ss)]
  <1> DEFINE f == CHOOSE g : g = [i \in 1..Len(ss) |-> IF i = 1 THEN ss[i]
                                                       ELSE g[i - 1] \o ss[i]]
  <1>1. FlattenSeq(ss) = f[Len(ss)]
    BY Zenon DEF FlattenSeq
  <1>2. Flattens(f, ss, Len(ss))
    <2>1. \E g : Flattens(g, ss, Len(ss))
      <3>1. Len(ss) \in Nat
        OBVIOUS
      <3> QED
        BY <3>1, FlattenExists
    <2> QED
      BY <2>1, Zenon DEF Flattens
  <1> QED
    BY <1>1, <1>2

\* Two runs that follow one another are a run.
LEMMA RunConcat ==
    ASSUME NEW s \in Seq(1..MaxEntries), NEW t \in Seq(1..MaxEntries),
           NEW a \in Nat, NEW b \in Nat, NEW c \in Nat, Run(s, a, b), Run(t, b, c)
    PROVE  s \o t \in Seq(1..MaxEntries) /\ Run(s \o t, a, c)
  <1>1. /\ s \o t \in Seq(1..MaxEntries) /\ Len(s \o t) = Len(s) + Len(t)
        /\ \A j \in 1..(Len(s) + Len(t)) :
              (s \o t)[j] = IF j <= Len(s) THEN s[j] ELSE t[j - Len(s)]
    BY ConcatProperties
  <1>2. Len(s) \in Nat /\ Len(t) \in Nat /\ Len(s) = b - a /\ Len(t) = c - b
    BY DEF Run
  <1> DEFINE u == s \o t
  <1>3. ASSUME NEW j \in 1..(Len(s) + Len(t)) PROVE u[j] = a + j
    <2>1. CASE j <= Len(s)
      <3>1. j \in 1..Len(s) /\ u[j] = s[j]
        BY <1>1, <1>2, <2>1
      <3> QED
        BY <3>1 DEF Run
    <2>2. CASE ~(j <= Len(s))
      <3>1. j - Len(s) \in 1..Len(t) /\ u[j] = t[j - Len(s)]
        BY <1>1, <1>2, <2>2
      <3>2. t[j - Len(s)] = b + (j - Len(s))
        BY <3>1 DEF Run
      <3> QED
        BY <1>2, <3>1, <3>2
    <2> QED
      BY <2>1, <2>2
  <1>4. a <= c
    BY DEF Run
  <1>5. u \in Seq(1..MaxEntries) /\ Len(u) = Len(s) + Len(t) /\ Len(u) = c - a
    BY <1>1, <1>2
  <1> HIDE DEF u
  <1>6. Run(u, a, c)
    BY <1>3, <1>4, <1>5 DEF Run
  <1> QED
    BY <1>5, <1>6 DEF u
\* The rotated files, oldest first, are one run.
LEMMA RotatedRun ==
    ASSUME IInv, NEW b \in Bounds, Layout(b), NEW ss,
           ss = [i \in 1..MaxFiles |-> Oldest(i)]
    PROVE  /\ FlattenSeq(ss) \in Seq(1..MaxEntries)
           /\ Run(FlattenSeq(ss), b[MaxFiles], b[0])
  <1>1. ASSUME NEW i \in 1..MaxFiles
        PROVE  /\ MaxFiles - i \in Indices
               /\ ss[i] = rotated[MaxFiles - i].lines
               /\ ss[i] \in Seq(1..MaxEntries)
               /\ Run(ss[i], b[(MaxFiles - i) + 1], b[MaxFiles - i])
    <2>1. MaxFiles - i \in Indices
      BY Constants DEF Indices
    <2>2. ss[i] = rotated[MaxFiles - i].lines
      BY DEF Oldest
    <2>3. rotated[MaxFiles - i] \in LogFiles
      BY <2>1 DEF IInv, Types
    <2>4. rotated[MaxFiles - i].lines \in Seq(1..MaxEntries)
      BY <2>3 DEF LogFiles
    <2>5. Run(rotated[MaxFiles - i].lines, b[(MaxFiles - i) + 1], b[MaxFiles - i])
      BY <2>1 DEF Layout
    <2> QED
      BY <2>1, <2>2, <2>4, <2>5
  <1>2. ss \in Seq(Seq(1..MaxEntries)) /\ Len(ss) = MaxFiles
    <2>1. ss \in [1..MaxFiles -> Seq(1..MaxEntries)]
      BY <1>1
    <2> QED
      BY <2>1, Constants
  <1>3. PICK f : Flattens(f, ss, MaxFiles) /\ FlattenSeq(ss) = f[MaxFiles]
    <2>1. Len(ss) # 0
      BY <1>2, Constants
    <2>2. \E f : Flattens(f, ss, Len(ss)) /\ FlattenSeq(ss) = f[Len(ss)]
      BY <1>2, <2>1, FlattenUnfolds
    <2> QED
      BY <1>2, <2>2
  <1>4. ASSUME NEW i \in 1..MaxFiles
        PROVE  f[i] = IF i = 1 THEN ss[i] ELSE f[i - 1] \o ss[i]
    BY <1>3 DEF Flattens
  <1> DEFINE Good(n) == /\ f[n] \in Seq(1..MaxEntries)
                        /\ Run(f[n], b[MaxFiles], b[MaxFiles - n])
             T == {n \in 1..MaxFiles : ~Good(n)}
  <1>5. T = {}
    <2> SUFFICES ASSUME T # {} PROVE FALSE
      OBVIOUS
    <2>1. T \subseteq Nat
      OBVIOUS
    <2>2. PICK n \in T : \A m \in T : n <= m
      BY <2>1, LeastNumber
    <2>3. n \in 1..MaxFiles /\ ~Good(n)
      OBVIOUS
    <2>4. n # 1
      <3>1. SUFFICES ASSUME n = 1 PROVE Good(n)
        BY <2>3
      <3>2. f[n] = ss[n] /\ (MaxFiles - n) + 1 = MaxFiles
        BY <1>4, <2>3, <3>1, Constants
      <3> QED
        BY <1>1, <2>3, <3>2
    <2>5. n - 1 \in 1..MaxFiles /\ n - 1 \notin T
      BY <2>2, <2>3, <2>4, Constants
    <2>6. Good(n - 1)
      BY <2>5
    <2>7. f[n] = f[n - 1] \o ss[n]
      BY <1>4, <2>3, <2>4
    <2>8. MaxFiles - (n - 1) = (MaxFiles - n) + 1
      BY <2>3, Constants
    <2>9. /\ b[MaxFiles] \in Nat /\ b[(MaxFiles - n) + 1] \in Nat
          /\ b[MaxFiles - n] \in Nat
      <3>1. /\ MaxFiles \in 0..(MaxFiles + 1) /\ (MaxFiles - n) + 1 \in 0..(MaxFiles + 1)
            /\ MaxFiles - n \in 0..(MaxFiles + 1)
        BY <2>3, Constants
      <3> QED
        BY <3>1 DEF Bounds
    <2>10. Run(f[n - 1], b[MaxFiles], b[(MaxFiles - n) + 1])
      BY <2>6, <2>8
    <2>11. Good(n)
      BY <1>1, <2>3, <2>6, <2>7, <2>9, <2>10, RunConcat
    <2> QED
      BY <2>3, <2>11
  <1>6. MaxFiles \in 1..MaxFiles /\ MaxFiles - MaxFiles = 0
    BY Constants
  <1>7. Good(MaxFiles)
    BY <1>5, <1>6
  <1> QED
    BY <1>3, <1>6, <1>7

\* Rotation only ever drops the oldest entries: what is on disk is the last entries
\* written, complete, in order and once each, for any number of files, also after
\* processes that died in the middle of a rotation and renames that threw.
THEOREM RetainedStaysSuffix == Spec => []RetainedIsSuffix
  <1>1. ASSUME IInv PROVE RetainedIsSuffix
    <2>1. PICK b \in Bounds : Layout(b)
      BY <1>1 DEF IInv, Laid
    <2> DEFINE ss == [i \in 1..MaxFiles |-> Oldest(i)]
               mid == FlattenSeq(ss)
    <2>2. mid \in Seq(1..MaxEntries) /\ Run(mid, b[MaxFiles], b[0])
      BY <1>1, <2>1, RotatedRun
    <2>3. /\ gz.lines \in Seq(1..MaxEntries) /\ file.lines \in Seq(1..MaxEntries)
          /\ written \in Nat
      BY <1>1, Constants DEF IInv, Types, LogFiles
    <2>4. b[0] \in Nat /\ b[MaxFiles] \in Nat /\ b[MaxFiles + 1] \in Nat
      BY Constants DEF Bounds
    <2>5. /\ Run(gz.lines, b[MaxFiles + 1], b[MaxFiles])
          /\ Run(file.lines, b[0], written)
      BY <2>1 DEF Layout
    <2>6. Retained = (gz.lines \o mid) \o file.lines
      BY DEF Retained
    <2> HIDE DEF mid
    <2>7. /\ gz.lines \o mid \in Seq(1..MaxEntries)
          /\ Run(gz.lines \o mid, b[MaxFiles + 1], b[0])
      BY <2>2, <2>3, <2>4, <2>5, RunConcat
    <2>8. Retained \in Seq(1..MaxEntries) /\ Run(Retained, b[MaxFiles + 1], written)
      BY <2>3, <2>4, <2>5, <2>6, <2>7, RunConcat
    <2>9. Len(Retained) = written - b[MaxFiles + 1] /\ Len(Retained) \in Nat
      BY <2>8 DEF Run
    <2>10. ASSUME NEW i \in 1..Len(Retained)
           PROVE  Retained[i] = (written - Len(Retained)) + i
      <3>1. Retained[i] = b[MaxFiles + 1] + i
        BY <2>8 DEF Run
      <3> QED
        BY <2>3, <2>4, <2>9, <3>1
    <2> QED
      BY <2>10 DEF RetainedIsSuffix
  <1> QED
    BY <1>1, LoggerInvariant, PTL
----------------------------------------------------------------------------
\* The automatic rotation, which logEntry starts with log_mutex_ locked.

\* A thread in rotateLog that waits for the mutex that it has locked itself.
SelfBlocked(t) == pc[t] = "rotate" /\ mutex = t

\* Whoever writes the entry that reaches log_max_size waits for itself from then on, and
\* until the process is restarted nothing is written, rotated or unlocked any more.
AutomaticRotationBlocks ==
    [][/\ written' # written /\ size' >= MaxFileSize => \E t \in Threads : SelfBlocked(t)'
       /\ \A t \in Threads :
             SelfBlocked(t) => Restart \/ (SelfBlocked(t)' /\ UNCHANGED <<mutex, disk>>)]_vars

\* While the mutex is a thread's, others can only call and wait, and it cannot lock.
LEMMA BlockedStays ==
    ASSUME IInv, NEW t \in Threads, SelfBlocked(t), Running
    PROVE  SelfBlocked(t)' /\ UNCHANGED <<mutex, disk>>
  <1>1. mutex = t /\ mutex # NoThread /\ pc[t] = "rotate" /\ pc \in [Threads -> Pcs]
    BY Constants DEF SelfBlocked, IInv, Types
  <1>2. ~SetFile /\ ~SetNoFile
    BY <1>1 DEF SetFile, SetNoFile
  <1>3. PICK u \in Threads : Call(u) \/ Step(u)
    BY <1>2 DEF Running
  <1>4. pc[u] \notin {"write", "shift", "move", "open"}
    BY <1>1 DEF IInv, Mutex
  <1>5. Call(u)
    BY <1>1, <1>3, <1>4 DEF Step, LockForEntry, WriteEntry, LockForRotation, Shift,
       MoveCurrent, RenameThrows, Reopen
  <1>6. u # t
    BY <1>1, <1>5 DEF Call
  <1>7. pc'[t] = pc[t] /\ UNCHANGED <<mutex, disk>>
    BY <1>1, <1>5, <1>6 DEF Call, Goto
  <1> QED
    BY <1>1, <1>7 DEF SelfBlocked

LEMMA LimitBlocks ==
    ASSUME IInv, Next, written' # written, size' >= MaxFileSize
    PROVE  \E t \in Threads : SelfBlocked(t)'
  <1>1. PICK t \in Threads : WriteEntry(t)
    BY DEF Next, Running, Restart, SetFile, SetNoFile, Call, Step, LockForEntry,
       LockForRotation, Shift, MoveCurrent, RenameThrows, Reopen, disk
  <1>2. pc[t] = "write" /\ mutex = t /\ pc \in [Threads -> Pcs]
    BY <1>1 DEF WriteEntry, IInv, Types, Mutex
  <1>3. pc' = [pc EXCEPT ![t] = "rotate"] /\ mutex' = mutex
    BY <1>1 DEF WriteEntry, Goto
  <1> QED
    BY <1>2, <1>3 DEF SelfBlocked

\* The first automatic rotation is the end of the log, for any limit, any number of files
\* and any other threads: what the run LoggerRotation shows of one instance.
THEOREM RotationDoesBlock == Spec => AutomaticRotationBlocks
  <1>1. ASSUME IInv, [Next]_vars
        PROVE  [/\ written' # written /\ size' >= MaxFileSize
                     => \E t \in Threads : SelfBlocked(t)'
                /\ \A t \in Threads :
                      SelfBlocked(t)
                        => Restart \/ (SelfBlocked(t)' /\ UNCHANGED <<mutex, disk>>)]_vars
    <2>1. CASE UNCHANGED vars
      BY <2>1
    <2>2. CASE Next
      <3>1. written' # written /\ size' >= MaxFileSize => \E t \in Threads : SelfBlocked(t)'
        BY <1>1, <2>2, LimitBlocks
      <3>2. ASSUME NEW t \in Threads, SelfBlocked(t), ~Restart
            PROVE  SelfBlocked(t)' /\ UNCHANGED <<mutex, disk>>
        BY <1>1, <2>2, <3>2, BlockedStays DEF Next
      <3> QED
        BY <3>1, <3>2
    <2> QED
      BY <1>1, <2>1, <2>2
  <1> QED
    BY <1>1, LoggerInvariant, PTL DEF Spec, AutomaticRotationBlocks
----------------------------------------------------------------------------
\* What leaves the disk.

LEMMA LinesOfEmpty ==
    ASSUME NEW f, f.lines = <<>>
    PROVE  Lines(f) = {}
  BY DEF Lines

\* What a set of files holds survives if each of them is still held somewhere.
LEMMA KeptOnDisk ==
    ASSUME Lines(file) \subseteq OnDisk' \cup Lines(LastPlace),
           Lines(gz) \subseteq OnDisk' \cup Lines(LastPlace),
           \A i \in Indices : Lines(rotated[i]) \subseteq OnDisk' \cup Lines(LastPlace)
    PROVE  OnDisk \ OnDisk' \subseteq Lines(LastPlace)
  BY DEF OnDisk

LEMMA DiskUnchanged ==
    ASSUME file' = file, gz' = gz, rotated' = rotated
    PROVE  OnDisk' = OnDisk
  BY DEF OnDisk, Lines

\* One turn of the loop: only the last place is overwritten while it holds something.
LEMMA ShiftDrops ==
    ASSUME IInv, NEW t \in Threads, Shift(t)
    PROVE  OnDisk \ OnDisk' \subseteq Lines(LastPlace)
  <1> DEFINE i == index
  <1>1. /\ i \in 1..(MaxFiles - 1) /\ (i < MaxFiles - 1 => rotated[i].lines = <<>>)
        /\ rotated \in [Indices -> LogFiles] /\ file' = file
    BY DEF Shift, IInv, Phase, Types
  <1>2. i \in Indices /\ i - 1 \in Indices /\ MaxFiles > 1 /\ i - 1 # i
    BY <1>1, Constants DEF Indices
  <1>3. Lines(file') \subseteq OnDisk' /\ Lines(gz') \subseteq OnDisk'
        /\ \A k \in Indices : Lines(rotated'[k]) \subseteq OnDisk'
    BY DEF OnDisk, Lines
  <1>4. CASE ~rotated[i - 1].exists
    <2>1. rotated' = rotated /\ gz' = gz
      BY <1>4 DEF Shift
    <2> QED
      BY <1>1, <2>1, DiskUnchanged
  <1>5. CASE rotated[i - 1].exists /\ i = MaxFiles - 1 /\ compress
    <2>1. gz' = rotated[i - 1] /\ rotated' = [rotated EXCEPT ![i - 1] = Absent]
      BY <1>5 DEF Shift
    <2>2. LastPlace = gz
      BY <1>2, <1>5 DEF LastPlace
    <2>3. ASSUME NEW k \in Indices PROVE Lines(rotated[k]) \subseteq OnDisk'
      <3>1. CASE k = i - 1
        BY <1>3, <2>1, <3>1
      <3>2. CASE k # i - 1
        BY <1>1, <1>3, <2>1, <3>2
      <3> QED
        BY <3>1, <3>2
    <2> QED
      BY <1>1, <1>3, <2>2, <2>3, KeptOnDisk
  <1>6. CASE rotated[i - 1].exists /\ ~(i = MaxFiles - 1 /\ compress)
    <2>1. /\ rotated' = [rotated EXCEPT ![i] = rotated[i - 1], ![i - 1] = Absent]
          /\ gz' = gz
      BY <1>6 DEF Shift
    <2>2. rotated'[i] = rotated[i - 1] /\ \A k \in Indices \ {i, i - 1} : rotated'[k] = rotated[k]
      BY <1>1, <1>2, <2>1
    <2>3. Lines(rotated[i]) \subseteq Lines(LastPlace)
      <3>1. CASE i = MaxFiles - 1
        BY <1>6, <3>1 DEF LastPlace
      <3>2. CASE i < MaxFiles - 1
        BY <1>1, <3>2, LinesOfEmpty
      <3> QED
        BY <1>1, <3>1, <3>2, Constants
    <2>4. ASSUME NEW k \in Indices
          PROVE  Lines(rotated[k]) \subseteq OnDisk' \cup Lines(LastPlace)
      <3>1. CASE k = i
        BY <2>3, <3>1
      <3>2. CASE k = i - 1
        BY <1>2, <1>3, <2>2, <3>2
      <3>3. CASE k \in Indices \ {i, i - 1}
        BY <1>3, <2>2, <3>3
      <3> QED
        BY <3>1, <3>2, <3>3
    <2> QED
      BY <1>1, <1>3, <2>1, <2>4, KeptOnDisk
  <1> QED
    BY <1>4, <1>5, <1>6

\* The current file takes the place of file 0, which is empty or the last.
LEMMA MoveDrops ==
    ASSUME IInv, NEW t \in Threads, MoveCurrent(t)
    PROVE  OnDisk \ OnDisk' \subseteq Lines(LastPlace)
  <1>1. /\ MaxFiles > 1 => rotated[0].lines = <<>>
        /\ rotated \in [Indices -> LogFiles] /\ gz' = gz
    BY DEF MoveCurrent, IInv, Phase, Types
  <1>2. Lines(gz') \subseteq OnDisk' /\ \A k \in Indices : Lines(rotated'[k]) \subseteq OnDisk'
    BY DEF OnDisk, Lines
  <1>3. CASE ~file.exists
    <2>1. rotated' = rotated /\ file' = file
      BY <1>3 DEF MoveCurrent
    <2> QED
      BY <1>1, <2>1, DiskUnchanged
  <1>4. CASE file.exists
    <2>1. rotated' = [rotated EXCEPT ![0] = file]
      BY <1>4 DEF MoveCurrent
    <2>2. rotated'[0] = file /\ \A k \in Indices \ {0} : rotated'[k] = rotated[k]
      BY <1>1, <2>1, Constants
    <2>3. Lines(rotated[0]) \subseteq Lines(LastPlace)
      <3>1. CASE MaxFiles > 1
        BY <1>1, <3>1, LinesOfEmpty
      <3>2. CASE MaxFiles = 1
        BY <3>2 DEF LastPlace
      <3> QED
        BY <3>1, <3>2, Constants
    <2>4. \A k \in Indices : Lines(rotated[k]) \subseteq OnDisk' \cup Lines(LastPlace)
      BY <1>2, <2>2, <2>3
    <2>5. Lines(file) \subseteq OnDisk'
      BY <1>2, <2>2, Constants
    <2> QED
      BY <1>1, <1>2, <2>4, <2>5, KeptOnDisk
  <1> QED
    BY <1>3, <1>4

\* The steps that only touch the current file add to it, or open an empty one.
LEMMA FileDrops ==
    ASSUME IInv, rotated' = rotated, gz' = gz, Lines(file) \subseteq Lines(file')
    PROVE  OnDisk \ OnDisk' \subseteq Lines(LastPlace)
  BY DEF OnDisk, Lines

LEMMA WriteDrops ==
    ASSUME IInv, NEW t \in Threads, WriteEntry(t)
    PROVE  OnDisk \ OnDisk' \subseteq Lines(LastPlace)
  <1>1. rotated' = rotated /\ gz' = gz
    BY DEF WriteEntry
  <1>2. CASE ~streamOpen
    <2>1. file' = file
      BY <1>2 DEF WriteEntry
    <2> QED
      BY <1>1, <2>1, DiskUnchanged
  <1>3. CASE streamOpen
    <2> DEFINE old == file.lines
    <2>1. file \in LogFiles /\ old \in Seq(1..MaxEntries)
      BY DEF IInv, Types, LogFiles
    <2>2. file' = [file EXCEPT !.lines = Append(@, written + 1)]
      BY <1>3 DEF WriteEntry
    <2>3. file'.lines = Append(old, written + 1)
      BY <2>1, <2>2 DEF LogFiles
    <2> HIDE DEF old
    <2>4. \A k \in DOMAIN old :
             k \in DOMAIN Append(old, written + 1) /\ Append(old, written + 1)[k] = old[k]
      BY <2>1
    <2>5. Lines(file) \subseteq Lines(file')
      BY <2>3, <2>4 DEF Lines, old
    <2> QED
      BY <1>1, <2>5, FileDrops
  <1> QED
    BY <1>2, <1>3

\* Entries leave the disk only from the last place of the rotation, for any number of
\* files, any pattern of failing renames and any process that dies between two of them.
THEOREM OldestDoesDrop == Spec => OnlyOldestDropped
  <1>1. ASSUME IInv, [Next]_vars
        PROVE  [OnDisk \ OnDisk' \subseteq Lines(LastPlace)]_vars
    <2> SUFFICES ASSUME Next PROVE OnDisk \ OnDisk' \subseteq Lines(LastPlace)
      BY <1>1
    <2>1. CASE Restart \/ SetNoFile
      BY <2>1, DiskUnchanged DEF Restart, SetNoFile, disk
    <2>2. CASE SetFile
      <3>1. file'.lines = file.lines /\ rotated' = rotated /\ gz' = gz
        BY <1>1, <2>2 DEF SetFile, IInv, Types, LogFiles
      <3>2. Lines(file) \subseteq Lines(file')
        BY <3>1 DEF Lines
      <3> QED
        BY <1>1, <3>1, <3>2, FileDrops
    <2>3. ASSUME NEW t \in Threads,
                 Call(t) \/ LockForEntry(t) \/ LockForRotation(t) \/ RenameThrows(t)
          PROVE  OnDisk \ OnDisk' \subseteq Lines(LastPlace)
      BY <2>3, DiskUnchanged DEF Call, LockForEntry, LockForRotation, RenameThrows, disk
    <2>4. ASSUME NEW t \in Threads, Reopen(t)
          PROVE  OnDisk \ OnDisk' \subseteq Lines(LastPlace)
      <3>1. file.lines = <<>> /\ rotated' = rotated /\ gz' = gz
        BY <1>1, <2>4 DEF Reopen, IInv, Phase
      <3>2. Lines(file) \subseteq Lines(file')
        BY <3>1, LinesOfEmpty
      <3> QED
        BY <1>1, <3>1, <3>2, FileDrops
    <2> QED
      BY <1>1, <2>1, <2>2, <2>3, <2>4, ShiftDrops, MoveDrops, WriteDrops
         DEF Next, Running, Step
  <1> QED
    BY <1>1, LoggerInvariant, PTL DEF Spec, OnlyOldestDropped
=============================================================================
