------------------------- MODULE ModuleFilesProofs -------------------------
(***************************************************************************)
(* The operations of a file system module, for any number of threads that  *)
(* call them at once and for any tree of paths.                            *)
(*                                                                         *)
(* The invariant says of the tree that what is present lies in a directory *)
(* (WellFormed), which needs that a path's parent is one of the module's   *)
(* directories and that the test file is nobody's parent; and of every     *)
(* request that it got past the settings that its step depends on          *)
(* (Entitled), which is all a step relies on: none looks at them again.    *)
(***************************************************************************)
EXTENDS ModuleFiles, SequenceTheorems, TLAPS

AllNames == Names \cup {Probe}

\* Front and prefix of a path.
LEMMA PrefixFacts ==
    ASSUME NEW S, NEW n \in Seq(S), NEW k \in 0..Len(n)
    PROVE  /\ SubSeq(n, 1, k) \in Seq(S) /\ Len(SubSeq(n, 1, k)) = k
           /\ \A i \in 1..k : SubSeq(n, 1, k)[i] = n[i]
  <1>1. \A i \in 1..k : n[i] \in S
    BY ElementOfSeq
  <1>2. /\ SubSeq(n, 1, k) \in Seq(S)
        /\ Len(SubSeq(n, 1, k)) = IF 1 <= k THEN k - 1 + 1 ELSE 0
        /\ \A i \in 1..(k - 1 + 1) : SubSeq(n, 1, k)[i] = n[1 + i - 1]
    BY <1>1, SubSeqProperties
  <1> QED
    BY <1>2

\* A prefix of a prefix.
LEMMA PrefixOfPrefix ==
    ASSUME NEW S, NEW n \in Seq(S), NEW k \in 0..Len(n), NEW j \in 0..k
    PROVE  SubSeq(SubSeq(n, 1, k), 1, j) = SubSeq(n, 1, j)
  <1> DEFINE p == SubSeq(n, 1, k)
             q == SubSeq(n, 1, j)
             r == SubSeq(p, 1, j)
  <1>1. /\ p \in Seq(S) /\ Len(p) = k
        /\ \A i \in 1..k : p[i] = n[i]
    BY PrefixFacts
  <1>2. j \in 0..Len(n) /\ j \in 0..Len(p)
    BY <1>1
  <1>3. q \in Seq(S) /\ Len(q) = j /\ \A i \in 1..j : q[i] = n[i]
    BY <1>2, PrefixFacts
  <1> HIDE DEF p, q
  <1>4. r \in Seq(S) /\ Len(r) = j /\ \A i \in 1..j : r[i] = p[i]
    BY <1>1, <1>2, PrefixFacts
  <1> HIDE DEF r
  <1>5. \A i \in 1..j : r[i] = q[i]
    BY <1>1, <1>3, <1>4
  <1>6. r = q
    BY <1>3, <1>4, <1>5, SeqEqual
  <1> QED
    BY <1>6 DEF p, q, r

\* The parent of a path.
LEMMA ParentFacts ==
    ASSUME NEW S, NEW n \in Seq(S), n # Root
    PROVE  /\ Parent(n) \in Seq(S) /\ Len(Parent(n)) = Len(n) - 1
           /\ Parent(n) # n /\ Within(Parent(n), n)
  <1>1. Len(n) \in Nat /\ Len(n) > 0
    BY EmptySeq DEF Root
  <1>2. Len(n) - 1 \in 0..Len(n)
    BY <1>1
  <1>3. Parent(n) = SubSeq(n, 1, Len(n) - 1)
    BY DEF Parent, Front
  <1>4. Parent(n) \in Seq(S) /\ Len(Parent(n)) = Len(n) - 1
    BY <1>2, <1>3, PrefixFacts
  <1>5. Parent(n) # n
    BY <1>1, <1>4
  <1>6. SubSeq(Parent(n), 1, Len(Parent(n))) = Parent(n)
    BY <1>4, SubSeqFull
  <1>7. Within(Parent(n), n)
    BY <1>1, <1>3, <1>4, <1>6 DEF Within, IsPrefix
  <1> QED
    BY <1>4, <1>5, <1>7

LEMMA RootParent == Parent(Root) = Root
  BY EmptySeq, SubSeqEmpty DEF Parent, Front, Root

\* The directories are the proper prefixes of the targets.
LEMMA PrefixIsDirectory ==
    ASSUME NEW n \in Targets, NEW k \in 0..(Len(n) - 1)
    PROVE  SubSeq(n, 1, k) \in Directories
  BY DEF Directories

LEMMA DirectoryFacts ==
    ASSUME NEW d \in Directories
    PROVE  /\ d \in Seq(Names)
           /\ d # Root => Parent(d) \in Directories
  <1>1. PICK n \in Targets : \E k \in 0..(Len(n) - 1) : d = SubSeq(n, 1, k)
    BY DEF Directories
  <1>2. n \in Seq(Names) /\ Len(n) \in Nat
    BY ModuleFilesConstants DEF ModuleFilesConstants
  <1>3. PICK k \in 0..(Len(n) - 1) : d = SubSeq(n, 1, k)
    BY <1>1
  <1>4. k \in 0..Len(n) /\ k \in Nat
    BY <1>2, <1>3
  <1>5. d \in Seq(Names) /\ Len(d) = k
    BY <1>2, <1>3, <1>4, PrefixFacts
  <1>6. ASSUME d # Root PROVE Parent(d) \in Directories
    <2>1. k > 0
      BY <1>4, <1>5, <1>6, EmptySeq DEF Root
    <2>2. Parent(d) = SubSeq(d, 1, k - 1)
      BY <1>5 DEF Parent, Front
    <2>3. k - 1 \in 0..k
      BY <1>4, <2>1
    <2>4. Parent(d) = SubSeq(n, 1, k - 1)
      <3>1. SubSeq(SubSeq(n, 1, k), 1, k - 1) = SubSeq(n, 1, k - 1)
        BY <1>2, <1>4, <2>3, PrefixOfPrefix
      <3> QED
        BY <1>3, <2>2, <3>1
    <2>5. k - 1 \in 0..(Len(n) - 1)
      BY <1>2, <1>3, <2>1
    <2> QED
      BY <2>4, <2>5, PrefixIsDirectory
  <1> QED
    BY <1>5, <1>6

LEMMA TargetFacts ==
    ASSUME NEW n \in Targets
    PROVE  n \in Seq(Names) /\ n # Root /\ Parent(n) \in Directories
  <1>1. n \in Seq(Names) /\ n # Root
    BY ModuleFilesConstants DEF ModuleFilesConstants
  <1>2. Len(n) \in Nat /\ Len(n) > 0
    BY <1>1, EmptySeq DEF Root
  <1>3. Len(n) - 1 \in 0..(Len(n) - 1)
    BY <1>2
  <1> QED
    BY <1>1, <1>3 DEF Directories, Parent, Front

LEMMA RootIsDirectory == Root \in Directories
  <1>1. PICK n \in Targets : TRUE
    BY ModuleFilesConstants DEF ModuleFilesConstants
  <1>2. n \in Seq(Names) /\ n # Root
    BY TargetFacts
  <1>3. Len(n) \in Nat /\ Len(n) > 0
    BY <1>2, EmptySeq DEF Root
  <1>4. 0 \in 0..(Len(n) - 1)
    BY <1>3
  <1>5. SubSeq(n, 1, 0) = Root
    BY <1>2, <1>3, PrefixFacts, EmptySeq DEF Root
  <1> QED
    BY <1>4, <1>5, PrefixIsDirectory

\* The test file lies in its directory, has a name of its own and holds no files.
LEMMA ProbeFacts ==
    ASSUME NEW d \in Directories
    PROVE  /\ ProbeIn(d) \in Nodes /\ ProbeIn(d) \in Seq(AllNames)
           /\ ProbeIn(d) # Root /\ Parent(ProbeIn(d)) = d
           /\ ProbeIn(d) \notin Targets /\ ProbeIn(d) \notin Directories
           /\ \A e \in Directories : ProbeIn(d) = ProbeIn(e) => d = e
  <1>1. \A e \in Directories : e \in Seq(AllNames)
    BY DirectoryFacts, SeqMonotonic DEF AllNames
  <1>2. Probe \in AllNames
    BY DEF AllNames
  <1> DEFINE p == ProbeIn(d)
  <1>3. /\ p \in Seq(AllNames) /\ p # Root /\ Len(p) = Len(d) + 1
        /\ \A i \in 1..Len(d) : p[i] = d[i]
        /\ p[Len(d) + 1] = Probe
    BY <1>1, <1>2, AppendProperties DEF ProbeIn, Root
  <1>4. p \in Nodes
    BY DEF Nodes
  <1>5. p \notin Seq(Names)
    <2> SUFFICES ASSUME p \in Seq(Names) PROVE FALSE
      OBVIOUS
    <2>1. Len(d) \in Nat
      BY <1>1
    <2>2. Len(d) + 1 \in 1..Len(p)
      BY <1>3, <2>1
    <2>3. p[Len(d) + 1] \in Names
      BY <2>2, ElementOfSeq
    <2> QED
      BY <1>3, <2>3, ModuleFilesConstants DEF ModuleFilesConstants
  <1>6. p \notin Targets /\ p \notin Directories
    BY <1>5, TargetFacts, DirectoryFacts
  <1>7. ASSUME NEW e \in Directories, ProbeIn(d) = ProbeIn(e) PROVE d = e
    BY <1>1, <1>2, <1>7, AppendInjective DEF ProbeIn
  <1>8. Parent(p) = d
    <2>1. Len(d) \in Nat /\ Parent(p) = SubSeq(p, 1, Len(d))
      BY <1>1, <1>3 DEF Parent, Front
    <2>2. Len(d) \in 0..Len(p)
      BY <1>3, <2>1
    <2> DEFINE q == SubSeq(p, 1, Len(d))
    <2>3. q \in Seq(AllNames) /\ Len(q) = Len(d) /\ \A i \in 1..Len(d) : q[i] = p[i]
      BY <1>3, <2>2, PrefixFacts
    <2> HIDE DEF p, q
    <2>4. \A i \in 1..Len(q) : q[i] = d[i]
      BY <1>3, <2>3
    <2>5. q = d
      BY <1>1, <2>3, <2>4, SeqEqual
    <2> QED
      BY <2>1, <2>5 DEF q
  <1> QED
    BY <1>3, <1>4, <1>6, <1>7, <1>8

\* The parent of a node is a directory of the module.
LEMMA NodeFacts ==
    ASSUME NEW n \in Nodes
    PROVE  /\ n \in Seq(AllNames)
           /\ n # Root => /\ Parent(n) \in Directories /\ Parent(n) \in Nodes
                          /\ Parent(n) # n /\ Within(Parent(n), n)
           /\ n = Root => Parent(n) = Root
  <1>1. n \in Seq(AllNames)
    <2>1. CASE n \in Targets
      BY <2>1, TargetFacts, SeqMonotonic DEF AllNames
    <2>2. CASE n \in Directories
      BY <2>2, DirectoryFacts, SeqMonotonic DEF AllNames
    <2>3. CASE n \in {ProbeIn(d) : d \in Directories}
      BY <2>3, ProbeFacts
    <2> QED
      BY <2>1, <2>2, <2>3 DEF Nodes
  <1>2. ASSUME n # Root PROVE Parent(n) \in Directories
    BY <1>2, TargetFacts, DirectoryFacts, ProbeFacts DEF Nodes
  <1>3. Directories \subseteq Nodes
    BY DEF Nodes
  <1> QED
    BY <1>1, <1>2, <1>3, ParentFacts, RootParent
----------------------------------------------------------------------------
\* The invariant.
Configs == [read_only : BOOLEAN, allow_delete : BOOLEAN, allow_symlinks : BOOLEAN]
Jobs == [at : Steps, op : Ops, path : Targets \cup {Root}, dotted : BOOLEAN,
         flag : BOOLEAN, probed : Directories, entry : Nodes, seen : SUBSET Nodes,
         listing : SUBSET Listed]

WriteSteps == {"permission", "probing", "create", "exists", "parents", "copy",
               "write"}
DeleteSteps == {"lookup", "isFile", "unlink", "rmdir", "removeAll"}

\* A request may take step s under the settings c.
Entitled(s, c) ==
    /\ s \in WriteSteps \cup DeleteSteps => c.read_only = FALSE
    /\ s \in DeleteSteps => c.allow_delete = TRUE

GoodJob(j, c) ==
    /\ j \in Jobs
    /\ j.at # "idle" => j.path \in Targets
    /\ Entitled(j.at, c)
    /\ \A e \in j.listing : e.as = "file" => e.size # Indeterminate

WellFormed ==
    /\ tree \in [Nodes -> {"none", "dir"} \cup Files]
    /\ \A n \in Nodes : n # Root /\ tree[n] # "none" => tree[Parent(n)] = "dir"

GoodJobs ==
    /\ config \in Configs
    /\ job \in [Threads -> Jobs]
    /\ \A t \in Threads : GoodJob(job[t], config)

IInv == WellFormed /\ GoodJobs /\ ProbesRemoved

LEMMA FileFacts ==
    /\ "none" \notin Files /\ "dir" \notin Files /\ Indeterminate \notin Files
    /\ \A t \in Threads : t \in Files
  BY ModuleFilesConstants DEF ModuleFilesConstants, Files, Indeterminate

LEMMA NoJobGood == \A c : GoodJob(NoJob, c)
  <1>1. Root \in Directories /\ Root \in Nodes
    BY RootIsDirectory DEF Nodes
  <1>2. NoJob \in Jobs
    BY <1>1 DEF NoJob, Jobs, Steps, Ops
  <1> QED
    BY <1>2 DEF NoJob, GoodJob, Entitled, WriteSteps, DeleteSteps

LEMMA InitInv == Init => IInv
  <1> SUFFICES ASSUME Init PROVE IInv
    OBVIOUS
  <1>1. WellFormed
    <2>1. tree \in [Nodes -> {"none", "dir"} \cup Files]
      BY DEF Init, Files
    <2> QED
      BY <2>1 DEF Init, WellFormed
  <1>2. GoodJobs
    BY NoJobGood DEF Init, GoodJobs, GoodJob, Configs
  <1>3. ProbesRemoved
    BY DEF Init, ProbesRemoved, Present
  <1> QED
    BY <1>1, <1>2, <1>3 DEF IInv

----------------------------------------------------------------------------
\* What a step does to the tree.

LEMMA TreeKept ==
    ASSUME WellFormed, UNCHANGED tree
    PROVE  WellFormed'
  BY DEF WellFormed

\* Something comes to be in a directory; a file only where no directory was.
LEMMA TreeGrows ==
    ASSUME WellFormed, NEW n \in Nodes, NEW v \in {"dir"} \cup Files, n # Root,
           tree[Parent(n)] = "dir", v = "dir" \/ tree[n] # "dir",
           tree' = [tree EXCEPT ![n] = v]
    PROVE  WellFormed'
  <1>1. tree' \in [Nodes -> {"none", "dir"} \cup Files]
    BY DEF WellFormed
  <1>2. ASSUME NEW m \in Nodes, m # Root, tree'[m] # "none"
        PROVE  tree'[Parent(m)] = "dir"
    <2>1. Parent(m) \in Nodes /\ Parent(m) # m
      BY <1>2, NodeFacts
    <2>2. CASE m = n
      BY <2>1, <2>2 DEF WellFormed
    <2>3. CASE m # n
      <3>1. tree[Parent(m)] = "dir"
        BY <1>2, <2>3 DEF WellFormed
      <3>2. CASE Parent(m) = n
        BY <3>1, <3>2 DEF WellFormed
      <3>3. CASE Parent(m) # n
        BY <2>1, <3>1, <3>3 DEF WellFormed
      <3> QED
        BY <3>2, <3>3
    <2> QED
      BY <2>2, <2>3
  <1> QED
    BY <1>1, <1>2 DEF WellFormed

\* Something goes that nothing lies in.
LEMMA TreeShrinks ==
    ASSUME WellFormed, NEW n \in Nodes,
           \A m \in Nodes : m # Root /\ Parent(m) = n => tree[m] = "none",
           tree' = [tree EXCEPT ![n] = "none"]
    PROVE  WellFormed'
  <1>1. tree' \in [Nodes -> {"none", "dir"} \cup Files]
    BY DEF WellFormed
  <1>2. ASSUME NEW m \in Nodes, m # Root, tree'[m] # "none"
        PROVE  tree'[Parent(m)] = "dir"
    <2>1. Parent(m) \in Nodes
      BY <1>2, NodeFacts
    <2>2. m # n /\ tree'[m] = tree[m]
      BY <1>2 DEF WellFormed
    <2>3. tree[Parent(m)] = "dir" /\ Parent(m) # n
      BY <1>2, <2>2 DEF WellFormed
    <2> QED
      BY <2>1, <2>3 DEF WellFormed
  <1> QED
    BY <1>1, <1>2 DEF WellFormed

\* What remove() finds empty has nothing in it.
LEMMA EmptyHasNoChild ==
    ASSUME WellFormed, NEW n \in Nodes, Empty(n)
    PROVE  \A m \in Nodes : m # Root /\ Parent(m) = n => tree[m] = "none"
  BY NodeFacts DEF Empty, Present

----------------------------------------------------------------------------
\* What a step does to the requests.

Others(t) == \A u \in Threads : u # t => job'[u] = job[u]

LEMMA JobsKept ==
    ASSUME GoodJobs, UNCHANGED <<config, job>>
    PROVE  GoodJobs'
  BY DEF GoodJobs

LEMMA JobStep ==
    ASSUME GoodJobs, NEW t \in Threads, NEW j, GoodJob(j, config),
           job' = [job EXCEPT ![t] = j], UNCHANGED config
    PROVE  GoodJobs' /\ Others(t) /\ job'[t] = j
  <1>1. j \in Jobs
    BY DEF GoodJob
  <1>2. job' \in [Threads -> Jobs] /\ job'[t] = j /\ Others(t)
    BY <1>1 DEF GoodJobs, Others
  <1>3. \A u \in Threads : GoodJob(job'[u], config)
    BY <1>2 DEF GoodJobs, Others
  <1> QED
    BY <1>2, <1>3 DEF GoodJobs

LEMMA DoneStep ==
    ASSUME GoodJobs, NEW t \in Threads, Done(t), UNCHANGED config
    PROVE  GoodJobs' /\ Others(t) /\ job'[t] = NoJob
  BY NoJobGood, JobStep DEF Done

LEMMA GotoStep ==
    ASSUME GoodJobs, NEW t \in Threads, NEW s \in Steps, job[t].at # "idle",
           Entitled(s, config), Goto(t, s), UNCHANGED config
    PROVE  GoodJobs' /\ Others(t) /\ job'[t] = [job[t] EXCEPT !.at = s]
  <1> DEFINE j == [job[t] EXCEPT !.at = s]
  <1>1. job[t] \in Jobs /\ GoodJob(job[t], config)
    BY DEF GoodJobs
  <1>2. j \in Jobs /\ j.at = s /\ j.path = job[t].path /\ j.listing = job[t].listing
    BY <1>1 DEF Jobs
  <1>3. GoodJob(j, config)
    BY <1>1, <1>2 DEF GoodJob
  <1>4. job' = [job EXCEPT ![t] = j]
    BY DEF Goto
  <1> HIDE DEF j
  <1>5. GoodJobs' /\ Others(t) /\ job'[t] = j
    BY <1>3, <1>4, JobStep
  <1> QED
    BY <1>5 DEF j

\* No test file appears, and whoever is in checkWritePermission stays there.
LEMMA ProbesKept ==
    ASSUME ProbesRemoved, NEW t \in Threads, Others(t), job[t].at # "probing",
           \A d \in Directories : tree[ProbeIn(d)] = "none" => tree'[ProbeIn(d)] = "none"
    PROVE  ProbesRemoved'
  BY DEF ProbesRemoved, Others, Present
----------------------------------------------------------------------------
\* What no step does, besides keeping the invariant.
Respects ==
    /\ config.read_only => UNCHANGED tree
    /\ ~config.allow_delete => \A n \in Nodes \ Probes : Present(n) => tree'[n] # "none"

Good == IInv' /\ Respects

LEMMA LooksOnly ==
    ASSUME IInv, NEW t \in Threads, job[t].at # "probing", GoodJobs', Others(t),
           UNCHANGED tree
    PROVE  Good
  <1>1. ProbesRemoved'
    BY ProbesKept DEF IInv
  <1>2. WellFormed'
    BY TreeKept DEF IInv
  <1>3. Respects
    BY DEF Respects, Present
  <1> QED
    BY <1>1, <1>2, <1>3 DEF Good, IInv

LEMMA StutterStep == ASSUME IInv, UNCHANGED vars PROVE Good
  <1>1. GoodJobs' /\ WellFormed'
    BY JobsKept, TreeKept DEF IInv, vars
  <1>2. ProbesRemoved'
    BY DEF IInv, vars, ProbesRemoved, Present
  <1>3. Respects
    BY DEF vars, Respects, Present
  <1> QED
    BY <1>1, <1>2, <1>3 DEF Good, IInv

LEMMA BeginStep == ASSUME IInv, NEW t \in Threads, NEW r \in Request, Begin(t, r) PROVE Good
  <1> DEFINE s == CASE r.op = "delete" -> "lookup"
                    [] r.op = "list" -> "readable"
                    [] OTHER -> "permission"
             j == [NoJob EXCEPT !.op = r.op, !.path = r.path, !.dotted = r.dotted,
                                !.flag = r.flag, !.at = s]
  <1>1. job' = [job EXCEPT ![t] = j] /\ UNCHANGED <<config, tree>>
    BY DEF Begin
  <1>2. r.op \in Ops /\ r.path \in Targets /\ r.dotted \in BOOLEAN /\ r.flag \in BOOLEAN
    BY DEF Request
  <1>3. s \in Steps /\ s \in {"lookup", "readable", "permission"}
    BY <1>2 DEF Steps, Ops
  <1>4. Entitled(s, config)
    <2>1. config \in Configs
      BY DEF IInv, GoodJobs
    <2>2. config.read_only \in BOOLEAN /\ config.allow_delete \in BOOLEAN
      BY <2>1 DEF Configs
    <2>3. Permitted(r)
      BY DEF Begin, Accepted
    <2> QED
      BY <1>2, <1>3, <2>2, <2>3 DEF Permitted, Entitled, WriteSteps, DeleteSteps, Ops
  <1> HIDE DEF s
  <1>5. j \in Jobs /\ j.at = s /\ j.path = r.path /\ j.listing = {}
    <2>1. NoJob \in Jobs /\ NoJob.listing = {}
      BY NoJobGood DEF GoodJob, NoJob
    <2>2. r.path \in Targets \cup {Root}
      BY <1>2
    <2> QED
      BY <1>2, <1>3, <2>1, <2>2 DEF Jobs
  <1>6. GoodJob(j, config)
    BY <1>2, <1>4, <1>5 DEF GoodJob
  <1> HIDE DEF j
  <1>7. GoodJobs' /\ Others(t)
    BY <1>1, <1>6, JobStep DEF IInv
  <1>8. job[t].at # "probing"
    BY DEF Begin, NoJob
  <1> QED
    BY <1>1, <1>7, <1>8, LooksOnly

LEMMA FailsStep == ASSUME IInv, NEW t \in Threads, Fails(t) PROVE Good
  BY DoneStep, LooksOnly DEF Fails, IInv

\* The questions of transferFile, handleDelete, deleteFile and listDirectory.
LEMMA AskStep ==
    ASSUME IInv, NEW t \in Threads, NEW s \in Steps, job[t].at \notin {"idle", "probing"},
           Entitled(s, config), Goto(t, s), UNCHANGED <<config, tree>>
    PROVE  Good
  BY GotoStep, LooksOnly DEF IInv

LEMMA EntitledNow ==
    ASSUME IInv, NEW t \in Threads
    PROVE  job[t] \in Jobs /\ Entitled(job[t].at, config)
  BY DEF IInv, GoodJobs, GoodJob

LEMMA FileExistsStep == ASSUME IInv, NEW t \in Threads, FileExists(t) PROVE Good
  BY AskStep, EntitledNow DEF FileExists, Entitled, WriteSteps, DeleteSteps, Steps

LEMMA LookupStep == ASSUME IInv, NEW t \in Threads, Lookup(t) PROVE Good
  <1> DEFINE s == IF IsFile(job[t].path) THEN "isFile"
                  ELSE IF job[t].flag THEN "removeAll" ELSE "rmdir"
  <1>1. job[t].at = "lookup" /\ Goto(t, s) /\ UNCHANGED <<config, tree>>
    BY DEF Lookup
  <1>2. s \in Steps /\ s \in DeleteSteps
    BY DEF Steps, DeleteSteps
  <1> HIDE DEF s
  <1>3. Entitled(s, config)
    BY <1>1, <1>2, EntitledNow DEF Entitled, DeleteSteps
  <1> QED
    BY <1>1, <1>2, <1>3, AskStep

LEMMA IsRegularFileStep == ASSUME IInv, NEW t \in Threads, IsRegularFile(t) PROVE Good
  BY AskStep, EntitledNow DEF IsRegularFile, Entitled, WriteSteps, DeleteSteps, Steps

LEMMA CheckReadStep == ASSUME IInv, NEW t \in Threads, CheckReadPermission(t) PROVE Good
  <1>1. CASE Goto(t, "open")
    BY <1>1, AskStep DEF CheckReadPermission, Entitled, WriteSteps, DeleteSteps, Steps
  <1>2. CASE Done(t)
    BY <1>2, DoneStep, LooksOnly DEF CheckReadPermission, IInv
  <1> QED
    BY <1>1, <1>2 DEF CheckReadPermission

LEMMA OpenDirectoryStep == ASSUME IInv, NEW t \in Threads, OpenDirectory(t) PROVE Good
  BY AskStep DEF OpenDirectory, Entitled, WriteSteps, DeleteSteps, Steps

LEMMA AddFileInfoStep == ASSUME IInv, NEW t \in Threads, AddFileInfo(t) PROVE Good
  <1> DEFINE s == IF IsFile(job[t].entry) THEN "size" ELSE "notFile"
  <1>1. job[t].at = "entry" /\ Goto(t, s) /\ UNCHANGED <<config, tree>>
    BY DEF AddFileInfo
  <1>2. s \in Steps /\ Entitled(s, config)
    BY DEF Steps, Entitled, WriteSteps, DeleteSteps
  <1> HIDE DEF s
  <1> QED
    BY <1>1, <1>2, AskStep

LEMMA NextEntryStep == ASSUME IInv, NEW t \in Threads, NEW n \in Nodes, NextEntry(t, n) PROVE Good
  <1> DEFINE j == [job[t] EXCEPT !.at = "entry", !.entry = n, !.seen = @ \cup {n}]
  <1>1. job' = [job EXCEPT ![t] = j] /\ UNCHANGED <<config, tree>> /\ job[t].at = "iterate"
    BY DEF NextEntry
  <1>2. job[t] \in Jobs /\ GoodJob(job[t], config)
    BY DEF IInv, GoodJobs
  <1>3. job[t].seen \cup {n} \in SUBSET Nodes /\ "entry" \in Steps
    BY <1>2 DEF Jobs, Steps
  <1>4. j \in Jobs /\ j.at = "entry" /\ j.path = job[t].path /\ j.listing = job[t].listing
    BY <1>2, <1>3 DEF Jobs
  <1>5. GoodJob(j, config)
    BY <1>1, <1>2, <1>4 DEF GoodJob, Entitled, WriteSteps, DeleteSteps
  <1> HIDE DEF j
  <1>6. GoodJobs' /\ Others(t)
    BY <1>1, <1>5, JobStep DEF IInv
  <1> QED
    BY <1>1, <1>6, LooksOnly

LEMMA PushStep ==
    ASSUME IInv, NEW t \in Threads, NEW as \in {"file", "directory", "other"},
           NEW size \in Files \cup {Indeterminate}, as = "file" => size # Indeterminate,
           job[t].at \notin {"idle", "probing"}, Push(t, as, size),
           UNCHANGED <<config, tree>>
    PROVE  Good
  <1> DEFINE e == [path |-> job[t].entry, as |-> as, size |-> size]
             j == [job[t] EXCEPT !.at = "iterate", !.listing = @ \cup {e}]
  <1>1. job' = [job EXCEPT ![t] = j]
    BY DEF Push
  <1>2. job[t] \in Jobs /\ GoodJob(job[t], config)
    BY DEF IInv, GoodJobs
  <1>3. e \in Listed /\ (e.as = "file" => e.size # Indeterminate)
    BY <1>2 DEF Jobs, Listed
  <1> HIDE DEF e
  <1>4. job[t].listing \cup {e} \in SUBSET Listed /\ "iterate" \in Steps
    BY <1>2, <1>3 DEF Jobs, Steps
  <1>5. /\ j \in Jobs /\ j.at = "iterate" /\ j.path = job[t].path
        /\ j.listing = job[t].listing \cup {e}
    BY <1>2, <1>4 DEF Jobs
  <1>6. GoodJob(j, config)
    BY <1>2, <1>3, <1>5 DEF GoodJob, Entitled, WriteSteps, DeleteSteps
  <1> HIDE DEF j
  <1>7. GoodJobs' /\ Others(t)
    BY <1>1, <1>6, JobStep DEF IInv
  <1> QED
    BY <1>7, LooksOnly

LEMMA AddNoFileStep == ASSUME IInv, NEW t \in Threads, AddNoFile(t) PROVE Good
  <1> DEFINE as == IF IsDir(job[t].entry) THEN "directory" ELSE "other"
  <1>1. as \in {"directory", "other"}
    OBVIOUS
  <1>2. /\ job[t].at = "notFile" /\ Push(t, as, Indeterminate) /\ UNCHANGED <<config, tree>>
    BY DEF AddNoFile
  <1> HIDE DEF as
  <1> QED
    BY <1>1, <1>2, PushStep

LEMMA AddFileStep == ASSUME IInv, NEW t \in Threads, AddFile(t) PROVE Good
  <1>1. CASE IsFile(job[t].entry)
    <2>1. tree[job[t].entry] \in Files /\ tree[job[t].entry] # Indeterminate
      BY <1>1, FileFacts DEF IsFile
    <2> QED
      BY <1>1, <2>1, PushStep DEF AddFile
  <1>2. CASE ~IsFile(job[t].entry)
    BY <1>2, AskStep DEF AddFile, Entitled, WriteSteps, DeleteSteps, Steps
  <1> QED
    BY <1>1, <1>2
----------------------------------------------------------------------------
\* The steps that change the tree.

\* Where a request's thread is, it has a target; and no target or directory is a test file.
LEMMA JobPath ==
    ASSUME IInv, NEW t \in Threads, job[t].at # "idle"
    PROVE  /\ job[t].path \in Targets /\ job[t].path \in Nodes /\ job[t].path # Root
           /\ Parent(job[t].path) \in Directories /\ Parent(job[t].path) \in Nodes
  <1>1. job[t].path \in Targets
    BY DEF IInv, GoodJobs, GoodJob
  <1> QED
    BY <1>1, TargetFacts DEF Nodes

LEMMA NoProbe ==
    ASSUME NEW n \in Targets \cup Directories
    PROVE  n \in Nodes /\ n \notin Probes /\ \A d \in Directories : n # ProbeIn(d)
  BY ProbeFacts DEF Nodes, Probes

\* The settings that a step's request got past.
LEMMA MayWrite ==
    ASSUME IInv, NEW t \in Threads, job[t].at \in WriteSteps \cup DeleteSteps
    PROVE  config.read_only = FALSE
  BY DEF IInv, GoodJobs, GoodJob, Entitled

LEMMA MayDelete ==
    ASSUME IInv, NEW t \in Threads, job[t].at \in DeleteSteps
    PROVE  config.allow_delete = TRUE
  BY DEF IInv, GoodJobs, GoodJob, Entitled

LEMMA CheckWriteStep == ASSUME IInv, NEW t \in Threads, CheckWritePermission(t) PROVE Good
  <1> DEFINE above == Parent(job[t].path)
             dir == IF Present(above) THEN above ELSE Root
             j == [job[t] EXCEPT !.at = "probing", !.probed = dir]
  <1>1. /\ job[t].at = "permission" /\ tree[dir] = "dir"
        /\ tree' = [tree EXCEPT ![ProbeIn(dir)] = t]
        /\ job' = [job EXCEPT ![t] = j] /\ UNCHANGED config
    BY DEF CheckWritePermission, IsDir
  <1>2. dir \in Directories
    BY <1>1, JobPath, RootIsDirectory
  <1> HIDE DEF dir
  <1>3. job[t] \in Jobs /\ GoodJob(job[t], config)
    BY DEF IInv, GoodJobs
  <1>4. j \in Jobs /\ j.at = "probing" /\ j.probed = dir /\ j.path = job[t].path
        /\ j.listing = job[t].listing
    BY <1>2, <1>3 DEF Jobs, Steps
  <1>5. GoodJob(j, config)
    BY <1>1, <1>3, <1>4 DEF GoodJob, Entitled, WriteSteps, DeleteSteps
  <1> HIDE DEF j
  <1>6. GoodJobs' /\ Others(t) /\ job'[t] = j
    BY <1>1, <1>5, JobStep DEF IInv
  <1> DEFINE p == ProbeIn(dir)
  <1>7. p \in Nodes /\ p # Root /\ Parent(p) = dir /\ p \notin Directories /\ p \in Probes
    BY <1>2, ProbeFacts DEF Probes
  <1>8. WellFormed'
    <2>1. \A m \in Nodes : m # Root => Parent(m) # p
      BY <1>7, NodeFacts
    <2>2. tree' \in [Nodes -> {"none", "dir"} \cup Files]
      BY <1>1, FileFacts DEF IInv, WellFormed
    <2>3. ASSUME NEW m \in Nodes, m # Root, tree'[m] # "none"
          PROVE  tree'[Parent(m)] = "dir"
      <3>1. Parent(m) \in Nodes /\ Parent(m) # p
        BY <2>1, <2>3, NodeFacts
      <3>2. tree[Parent(m)] = "dir"
        <4>1. CASE m = p
          BY <1>1, <1>7, <4>1
        <4>2. CASE m # p
          BY <1>1, <2>3, <4>2 DEF IInv, WellFormed
        <4> QED
          BY <4>1, <4>2
      <3> QED
        BY <1>1, <3>1, <3>2 DEF IInv, WellFormed
    <2> QED
      BY <2>2, <2>3 DEF WellFormed
  <1>9. \A n \in Nodes : n # p => tree'[n] = tree[n]
    BY <1>1 DEF IInv, WellFormed
  <1>10. ProbesRemoved'
    <2>1. ASSUME NEW d \in Directories, tree'[ProbeIn(d)] # "none"
          PROVE  \E u \in Threads : job'[u].at = "probing" /\ job'[u].probed = d
      <3>1. CASE d = dir
        BY <1>4, <1>6, <3>1
      <3>2. CASE d # dir
        <4>1. ProbeIn(d) \in Nodes /\ ProbeIn(d) # p
          BY <1>2, <3>2, ProbeFacts
        <4>2. tree[ProbeIn(d)] # "none"
          BY <1>9, <2>1, <4>1
        <4>3. PICK u \in Threads : job[u].at = "probing" /\ job[u].probed = d
          BY <4>2 DEF IInv, ProbesRemoved, Present
        <4> QED
          BY <1>1, <1>6, <4>3 DEF Others
      <3> QED
        BY <3>1, <3>2
    <2> QED
      BY <2>1 DEF ProbesRemoved, Present
  <1>13. Respects
    BY <1>1, <1>7, <1>9, MayWrite DEF Respects, Present, WriteSteps
  <1> QED
    BY <1>6, <1>8, <1>10, <1>13 DEF Good, IInv

LEMMA RemoveProbeStep == ASSUME IInv, NEW t \in Threads, RemoveProbe(t) PROVE Good
  <1> DEFINE dir == job[t].probed
             p == ProbeIn(dir)
             j == AfterProbe(job[t])
  <1>1. /\ job[t].at = "probing" /\ tree' = [tree EXCEPT ![p] = "none"]
        /\ job' = [job EXCEPT ![t] = j] /\ UNCHANGED config
    BY DEF RemoveProbe
  <1>2. job[t] \in Jobs /\ GoodJob(job[t], config)
    BY DEF IInv, GoodJobs
  <1>3. dir \in Directories
    BY <1>2 DEF Jobs
  <1>4. GoodJob(j, config)
    <2>1. CASE ~IsPathSafe(job[t])
      BY <2>1, NoJobGood DEF AfterProbe
    <2>2. CASE IsPathSafe(job[t])
      <3> DEFINE s == IF job[t].op = "mkdir" THEN "create" ELSE "exists"
      <3>1. j = [job[t] EXCEPT !.at = s]
        BY <2>2 DEF AfterProbe
      <3>2. s \in Steps /\ s \in WriteSteps /\ s \notin DeleteSteps
        BY DEF Steps, WriteSteps, DeleteSteps
      <3> HIDE DEF s
      <3>3. j \in Jobs /\ j.at = s /\ j.path = job[t].path /\ j.listing = job[t].listing
        BY <1>2, <3>1, <3>2 DEF Jobs
      <3>4. Entitled(s, config)
        BY <1>1, <1>2, <3>2 DEF GoodJob, Entitled, WriteSteps
      <3> HIDE DEF j
      <3> QED
        BY <1>1, <1>2, <3>3, <3>4 DEF GoodJob
    <2> QED
      BY <2>1, <2>2
  <1> HIDE DEF j
  <1>5. GoodJobs' /\ Others(t) /\ job'[t] = j
    BY <1>1, <1>4, JobStep DEF IInv
  <1>6. p \in Nodes /\ p # Root /\ p \notin Directories /\ p \in Probes
    BY <1>3, ProbeFacts DEF Probes
  <1>7. WellFormed'
    <2>1. \A m \in Nodes : m # Root => Parent(m) # p
      BY <1>6, NodeFacts
    <2> QED
      BY <1>1, <1>6, <2>1, TreeShrinks DEF IInv
  <1>8. \A n \in Nodes : n # p => tree'[n] = tree[n]
    BY <1>1 DEF IInv, WellFormed
  <1>9. tree'[p] = "none"
    BY <1>1, <1>6 DEF IInv, WellFormed
  <1>10. ProbesRemoved'
    <2>1. ASSUME NEW d \in Directories, tree'[ProbeIn(d)] # "none"
          PROVE  \E u \in Threads : job'[u].at = "probing" /\ job'[u].probed = d
      <3>1. d # dir /\ ProbeIn(d) \in Nodes /\ ProbeIn(d) # p
        BY <1>9, <2>1, ProbeFacts
      <3>2. tree[ProbeIn(d)] # "none"
        BY <1>8, <2>1, <3>1
      <3>3. PICK u \in Threads : job[u].at = "probing" /\ job[u].probed = d
        BY <3>2 DEF IInv, ProbesRemoved, Present
      <3>4. u # t
        BY <3>1, <3>3
      <3> QED
        BY <1>5, <3>3, <3>4 DEF Others
    <2> QED
      BY <2>1 DEF ProbesRemoved, Present
  <1>13. Respects
    BY <1>1, <1>6, <1>8, MayWrite DEF Respects, Present, WriteSteps
  <1> QED
    BY <1>5, <1>7, <1>10, <1>13 DEF Good, IInv

\* A directory or file that comes to be at a path clients may name.
LEMMA GrowStep ==
    ASSUME IInv, NEW t \in Threads, job[t].at \in WriteSteps \ {"probing"},
           NEW n \in Targets \cup Directories, NEW v \in {"dir"} \cup Files, n # Root,
           tree[Parent(n)] = "dir", v = "dir" \/ tree[n] # "dir",
           tree' = [tree EXCEPT ![n] = v],
           GoodJobs', Others(t), UNCHANGED config
    PROVE  Good
  <1>1. n \in Nodes /\ n \notin Probes /\ \A d \in Directories : n # ProbeIn(d)
    BY NoProbe
  <1>2. WellFormed'
    BY <1>1, TreeGrows DEF IInv
  <1>3. /\ \A m \in Nodes : m # n => tree'[m] = tree[m]
        /\ tree'[n] = v
    BY <1>1 DEF IInv, WellFormed
  <1>4. ProbesRemoved'
    <2>1. \A d \in Directories : tree'[ProbeIn(d)] = tree[ProbeIn(d)]
      BY <1>1, <1>3, ProbeFacts
    <2> QED
      BY <2>1, ProbesKept DEF IInv
  <1>7. Respects
    BY <1>3, MayWrite, FileFacts DEF Respects, Present
  <1> QED
    BY <1>2, <1>4, <1>7 DEF Good, IInv

LEMMA CreateDirectoryStep ==
    ASSUME IInv, NEW t \in Threads, NEW n \in Nodes, CreateDirectory(t, n)
    PROVE  Good
  <1>1. /\ job[t].at = "create" /\ tree[n] = "none" /\ tree[Parent(n)] = "dir"
        /\ tree' = [tree EXCEPT ![n] = "dir"] /\ UNCHANGED config
        /\ Done(t) \/ UNCHANGED job
    BY DEF CreateDirectory, Present, IsDir
  <1>2. n \in Targets \cup Directories
    BY <1>1, JobPath DEF CreateDirectory
  <1>3. n # Root
    BY <1>1, RootParent
  <1>4. GoodJobs' /\ Others(t)
    BY <1>1, DoneStep, JobsKept DEF IInv, Others
  <1> QED
    BY <1>1, <1>2, <1>3, <1>4, GrowStep DEF WriteSteps

LEMMA CreateParentStep == ASSUME IInv, NEW t \in Threads, CreateParent(t) PROVE Good
  <1> DEFINE n == Parent(job[t].path)
  <1>1. /\ job[t].at = "parents" /\ (tree[n] # "none" \/ tree[Parent(n)] = "dir")
        /\ tree' = [tree EXCEPT ![n] = IF tree[n] # "none" THEN tree[n] ELSE "dir"]
        /\ Goto(t, "copy") /\ UNCHANGED config
    BY DEF CreateParent, Present, IsDir
  <1>2. n \in Directories /\ n \in Nodes
    BY <1>1, JobPath
  <1> HIDE DEF n
  <1>3. GoodJobs' /\ Others(t)
    BY <1>1, GotoStep, EntitledNow DEF IInv, Steps, Entitled, WriteSteps, DeleteSteps
  <1>4. CASE tree[n] # "none"
    <2>1. tree' = tree
      BY <1>1, <1>2, <1>4 DEF IInv, WellFormed
    <2> QED
      BY <1>1, <1>3, <2>1, LooksOnly
  <1>5. CASE tree[n] = "none"
    <2>1. tree' = [tree EXCEPT ![n] = "dir"] /\ tree[Parent(n)] = "dir"
      BY <1>1, <1>5
    <2>2. n # Root
      BY <1>5, <2>1, RootParent
    <2> QED
      BY <1>1, <1>2, <1>3, <2>1, <2>2, GrowStep DEF WriteSteps
  <1> QED
    BY <1>4, <1>5

LEMMA CopyFileStep == ASSUME IInv, NEW t \in Threads, CopyFile(t) PROVE Good
  BY AskStep, EntitledNow DEF CopyFile, Entitled, WriteSteps, DeleteSteps, Steps

LEMMA WriteCopyStep == ASSUME IInv, NEW t \in Threads, WriteCopy(t) PROVE Good
  <1> DEFINE n == job[t].path
  <1>1. /\ job[t].at = "write" /\ tree[Parent(n)] = "dir" /\ tree[n] # "dir"
        /\ tree' = [tree EXCEPT ![n] = t] /\ UNCHANGED config
        /\ Done(t)
    BY DEF WriteCopy, IsDir
  <1>2. n \in Targets /\ n # Root
    BY <1>1, JobPath
  <1> HIDE DEF n
  <1>3. GoodJobs' /\ Others(t)
    BY <1>1, DoneStep DEF IInv
  <1>4. t \in Files
    BY FileFacts
  <1> QED
    BY <1>1, <1>2, <1>3, <1>4, GrowStep DEF WriteSteps

\* A file or an empty directory that goes.
LEMMA ShrinkStep ==
    ASSUME IInv, NEW t \in Threads, job[t].at \in DeleteSteps,
           NEW n \in Nodes, Empty(n), tree' = [tree EXCEPT ![n] = "none"],
           GoodJobs', Others(t), UNCHANGED config
    PROVE  Good
  <1>1. WellFormed'
    BY EmptyHasNoChild, TreeShrinks DEF IInv
  <1>2. /\ \A m \in Nodes : m # n => tree'[m] = tree[m]
        /\ tree'[n] = "none"
    BY DEF IInv, WellFormed
  <1>3. ProbesRemoved'
    <2>1. \A d \in Directories : ProbeIn(d) \in Nodes
      BY ProbeFacts
    <2>2. \A d \in Directories : tree[ProbeIn(d)] = "none" => tree'[ProbeIn(d)] = "none"
      BY <1>2, <2>1
    <2> QED
      BY <2>2, ProbesKept DEF IInv, DeleteSteps
  <1>6. Respects
    BY MayWrite, MayDelete DEF Respects
  <1> QED
    BY <1>1, <1>3, <1>6 DEF Good, IInv

LEMMA RemovePathStep == ASSUME IInv, NEW t \in Threads, RemovePath(t) PROVE Good
  <1>1. job[t].at \in {"unlink", "rmdir"} /\ Empty(job[t].path)
    BY DEF RemovePath
  <1>2. job[t].path \in Nodes
    BY <1>1, JobPath
  <1>3. GoodJobs' /\ Others(t)
    BY DoneStep DEF RemovePath, IInv
  <1> QED
    BY <1>1, <1>2, <1>3, ShrinkStep DEF RemovePath, DeleteSteps

LEMMA RemoveAllStep ==
    ASSUME IInv, NEW t \in Threads, NEW n \in Nodes, RemoveAll(t, n)
    PROVE  Good
  <1>1. job[t].at = "removeAll" /\ Empty(n) /\ (Done(t) \/ UNCHANGED job)
    BY DEF RemoveAll
  <1>2. GoodJobs' /\ Others(t)
    BY <1>1, DoneStep, JobsKept DEF RemoveAll, IInv, Others
  <1> QED
    BY <1>1, <1>2, ShrinkStep DEF RemoveAll, DeleteSteps

LEMMA NextGood == IInv /\ [Next]_vars => Good
  <1> SUFFICES ASSUME IInv, [Next]_vars PROVE Good
    OBVIOUS
  <1>1. CASE UNCHANGED vars
    BY <1>1, StutterStep
  <1>2. CASE Next
    <2>1. PICK t \in Threads :
              \/ \E r \in Request : Begin(t, r) \/ Refuse(t, r)
              \/ Fails(t) \/ CheckWritePermission(t) \/ RemoveProbe(t)
              \/ FileExists(t) \/ CreateParent(t) \/ CopyFile(t) \/ WriteCopy(t)
              \/ Lookup(t) \/ IsRegularFile(t) \/ RemovePath(t)
              \/ CheckReadPermission(t) \/ OpenDirectory(t)
              \/ AddFileInfo(t) \/ AddNoFile(t) \/ AddFile(t)
              \/ \E n \in Nodes : CreateDirectory(t, n) \/ RemoveAll(t, n) \/ NextEntry(t, n)
      BY <1>2, Zenon DEF Next
    <2>2. ASSUME NEW r \in Request, Refuse(t, r) PROVE Good
      BY <2>2, StutterStep DEF Refuse
    <2>3. CASE FileExists(t) \/ CreateParent(t) \/ CopyFile(t) \/ WriteCopy(t)
      BY <2>3, FileExistsStep, CreateParentStep, CopyFileStep, WriteCopyStep
    <2>4. CASE Fails(t) \/ CheckWritePermission(t) \/ RemoveProbe(t)
      BY <2>4, FailsStep, CheckWriteStep, RemoveProbeStep
    <2>5. CASE Lookup(t) \/ IsRegularFile(t) \/ RemovePath(t)
      BY <2>5, LookupStep, IsRegularFileStep, RemovePathStep
    <2>6. CASE CheckReadPermission(t) \/ OpenDirectory(t) \/ AddFileInfo(t)
      BY <2>6, CheckReadStep, OpenDirectoryStep, AddFileInfoStep
    <2>7. CASE AddNoFile(t) \/ AddFile(t)
      BY <2>7, AddNoFileStep, AddFileStep
    <2>8. ASSUME NEW n \in Nodes, CreateDirectory(t, n) \/ RemoveAll(t, n) \/ NextEntry(t, n)
          PROVE  Good
      BY <2>8, CreateDirectoryStep, RemoveAllStep, NextEntryStep
    <2> QED
      BY <2>1, <2>2, <2>3, <2>4, <2>5, <2>6, <2>7, <2>8, BeginStep
  <1> QED
    BY <1>1, <1>2

\* The tree is a tree and every request is entitled to its step, in every reachable state.
THEOREM ModuleFilesInvariant == Spec => []IInv
  <1>1. IInv /\ [Next]_vars => IInv'
    BY NextGood DEF Good
  <1> QED
    BY <1>1, InitInv, PTL DEF Spec

\* The types of the settings, the files and the requests; what is present lies in a
\* directory, whatever the threads create and remove at once.
THEOREM ModuleFilesTypeCorrect == Spec => []TypeOK
  <1>1. IInv => TypeOK
    BY DEF IInv, WellFormed, GoodJobs, GoodJob, Jobs, Configs, TypeOK
  <1> QED
    BY <1>1, ModuleFilesInvariant, PTL

\* The file that checkWritePermission writes is there only while some thread is in that
\* function for that directory.
THEOREM ProbesDoGo == Spec => []ProbesRemoved
  <1>1. IInv => ProbesRemoved
    BY DEF IInv
  <1> QED
    BY <1>1, ModuleFilesInvariant, PTL

\* A listed file has the size of a file that was at that path, for any number of threads
\* that delete and replace it between the questions of addFileInfo.
THEOREM ListedFilesDoHaveSizes == Spec => []ListedFilesHaveSizes
  <1>1. IInv => ListedFilesHaveSizes
    BY DEF IInv, GoodJobs, GoodJob, ListedFilesHaveSizes
  <1> QED
    BY <1>1, ModuleFilesInvariant, PTL

\* No thread changes a read-only module, or removes anything where deletion is not allowed,
\* however long ago its request was let through.
THEOREM SettingsAreRespected == Spec => SettingsRespected
  <1>1. IInv /\ [Next]_vars => [Respects]_vars
    BY NextGood DEF Good
  <1> QED
    BY <1>1, ModuleFilesInvariant, PTL DEF Spec, SettingsRespected, Respects
=============================================================================
