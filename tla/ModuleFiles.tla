---------------------------- MODULE ModuleFiles ----------------------------
(***************************************************************************)
(* FileSystemModule (core/module.cpp): the operations that change or list  *)
(* the files of a module, called by several worker threads on the one      *)
(* Module object they share.  Nothing is locked, so other threads come     *)
(* between any two looks at the file system: every such look is a step.    *)
(*                                                                         *)
(* A path is the sequence of its names.  There are no symbolic links, so   *)
(* resolvePath is a matter of the path alone, and a request that leads out *)
(* of the module ends there (resolvePath compares strings: the directories *)
(* beside the module whose names begin with its name are not among the     *)
(* targets, nor is the module's own directory).  A client does not use the *)
(* name of the file that checkWritePermission writes.                      *)
(***************************************************************************)
EXTENDS Integers, Sequences, SequencesExt

CONSTANTS
    Threads,
    Targets,    \* the paths clients name
    Probe       \* the name ".rsyncd_write_test"

Root == <<>>
Parent(n) == Front(n)
ProbeIn(dir) == Append(dir, Probe)

Directories == UNION {{SubSeq(n, 1, k) : k \in 0..(Len(n) - 1)} : n \in Targets}
Nodes == Targets \cup Directories \cup {ProbeIn(d) : d \in Directories}

\* The names that clients use.
Names == UNION {{n[i] : i \in 1..Len(n)} : n \in Targets}

ASSUME ModuleFilesConstants ==
    /\ Targets # {} /\ Targets \subseteq Seq(Names) \ {Root}
    /\ Probe \notin Names
    /\ \A t \in Threads : t \notin {"none", "dir", "?"}

VARIABLES
    config,     \* the settings of the module
    tree,       \* each path: "none", "dir", or the writer of the file there
    job         \* the request each thread is working on

vars == <<config, tree, job>>

Files == Threads \cup {"owner"}

Steps == {"idle", "permission", "probing", "create", "exists", "parents", "copy",
          "write", "lookup", "isFile", "unlink", "rmdir", "removeAll",
          "readable", "open", "iterate", "entry", "notFile", "size"}
Ops == {"mkdir", "put", "delete", "list"}

\* dotted: the path goes through ".." and comes back; flag: recursive, or overwrite for
\* "put".
Request == [op : Ops, path : Targets, dotted : BOOLEAN, flag : BOOLEAN]

\* A FileInfo has no initial size: until one is assigned, it is indeterminate.
Indeterminate == "?"
Listed == [path : Nodes, as : {"file", "directory", "other"},
           size : Files \cup {Indeterminate}]

\* probed: the directory of the test file; entry: what a listing is at; seen: what it has
\* been at; listing: what it will show.
NoJob == [at |-> "idle", op |-> "mkdir", path |-> Root, dotted |-> FALSE,
          flag |-> FALSE, probed |-> Root, entry |-> Root, seen |-> {}, listing |-> {}]

\* The types of the module's settings, of its files and of the requests under way.
TypeOK ==
    /\ config \in [read_only : BOOLEAN, allow_delete : BOOLEAN, allow_symlinks : BOOLEAN]
    /\ tree \in [Nodes -> {"none", "dir"} \cup Files]
    /\ \A n \in Nodes : n # Root /\ tree[n] # "none" => tree[Parent(n)] = "dir"
    /\ job \in [Threads -> [at : Steps, op : Ops, path : Targets \cup {Root},
                            dotted : BOOLEAN, flag : BOOLEAN, probed : Directories,
                            entry : Nodes, seen : SUBSET Nodes, listing : SUBSET Listed]]

Init ==
    /\ config \in [read_only : BOOLEAN, allow_delete : BOOLEAN, allow_symlinks : BOOLEAN]
    /\ tree \in {f \in [Nodes -> {"none", "dir", "owner"}] :
                    /\ f[Root] = "dir"
                    /\ \A d \in Directories : f[ProbeIn(d)] = "none"
                    /\ \A n \in Nodes \ {Root} : f[n] # "none" => f[Parent(n)] = "dir"}
    /\ job = [t \in Threads |-> NoJob]

Present(n) == tree[n] # "none"
IsFile(n) == tree[n] \in Files
IsDir(n) == tree[n] = "dir"
Within(d, n) == IsPrefix(d, n)
Empty(n) == \A m \in Nodes : m # n /\ Within(n, m) => ~Present(m)

Goto(t, s) == job' = [job EXCEPT ![t].at = s]
Done(t) == job' = [job EXCEPT ![t] = NoJob]

\* resolvePath yields a path; without allow_symlinks it refuses any "..".
Resolves(r) == r.dotted => config.allow_symlinks

\* isPathSafe: a path that contains ".." never is.
IsPathSafe(r) == ~r.dotted

----------------------------------------------------------------------------
\* Mutant of Permitted: the settings are not looked at for deletions.
PermittedLoosely(r) == r.op \in {"mkdir", "put"} => ~config.read_only

\* isReadOnly and allowsDeletion, asked first.
Permitted(r) ==
    /\ r.op # "list" => ~config.read_only
    /\ r.op = "delete" => config.allow_delete

\* What is decided before the file system is looked at.
Accepted(r) ==
    /\ Permitted(r)
    /\ Resolves(r)
    /\ r.op = "delete" => IsPathSafe(r)

Refuse(t, r) ==
    /\ job[t] = NoJob
    /\ ~Accepted(r)
    /\ UNCHANGED vars

Begin(t, r) ==
    /\ job[t] = NoJob
    /\ Accepted(r)
    /\ job' = [job EXCEPT ![t] =
                 [NoJob EXCEPT !.op = r.op, !.path = r.path, !.dotted = r.dotted,
                               !.flag = r.flag,
                               !.at = CASE r.op = "delete" -> "lookup"
                                        [] r.op = "list" -> "readable"
                                        [] OTHER -> "permission"]]
    /\ UNCHANGED <<config, tree>>

\* A check says no, or the file system does (exceptions are caught): the request ends.  A
\* listing ends when it has been through, or before, with what it has: nobody can tell.
Fails(t) ==
    /\ job[t].at \notin {"idle", "probing"}
    /\ Done(t)
    /\ UNCHANGED <<config, tree>>

\* checkWritePermission writes a file next to the target, or in the root if the target's
\* directory is not there.
CheckWritePermission(t) ==
    LET above == Parent(job[t].path)
        dir == IF Present(above) THEN above ELSE Root IN
    /\ job[t].at = "permission"
    /\ IsDir(dir)
    /\ tree' = [tree EXCEPT ![ProbeIn(dir)] = t]
    /\ job' = [job EXCEPT ![t].at = "probing", ![t].probed = dir]
    /\ UNCHANGED config

AfterProbe(j) ==
    IF ~IsPathSafe(j) THEN NoJob
    ELSE [j EXCEPT !.at = IF j.op = "mkdir" THEN "create" ELSE "exists"]

\* Mutant of RemoveProbe: a request that will be refused leaves the file.
RemoveProbeIfSafe(t) ==
    LET n == ProbeIn(job[t].probed) IN
    /\ job[t].at = "probing"
    /\ tree' = IF IsPathSafe(job[t]) THEN [tree EXCEPT ![n] = "none"] ELSE tree
    /\ job' = [job EXCEPT ![t] = AfterProbe(@)]
    /\ UNCHANGED config

\* ... and removes it again; the path's safety is looked at only then.
RemoveProbe(t) ==
    LET n == ProbeIn(job[t].probed) IN
    /\ job[t].at = "probing"
    /\ tree' = [tree EXCEPT ![n] = "none"]
    /\ job' = [job EXCEPT ![t] = AfterProbe(@)]
    /\ UNCHANGED config

----------------------------------------------------------------------------
\* createDirectory; with recursive, missing directories above come first, one by one.
CreateDirectory(t, n) ==
    /\ job[t].at = "create"
    /\ n = job[t].path \/ (job[t].flag /\ n \in Directories /\ Within(n, job[t].path))
    /\ ~Present(n) /\ IsDir(Parent(n))
    /\ tree' = [tree EXCEPT ![n] = "dir"]
    /\ IF n = job[t].path THEN Done(t) ELSE UNCHANGED job
    /\ UNCHANGED config

\* transferFile: the look for an existing file, the parent directory, the copy.
FileExists(t) ==
    /\ job[t].at = "exists"
    /\ job[t].flag \/ ~IsFile(job[t].path)
    /\ Goto(t, "parents")
    /\ UNCHANGED <<config, tree>>

CreateParent(t) ==
    LET above == Parent(job[t].path) IN
    /\ job[t].at = "parents"
    /\ Present(above) \/ IsDir(Parent(above))
    /\ tree' = [tree EXCEPT ![above] = IF Present(above) THEN @ ELSE "dir"]
    /\ Goto(t, "copy")
    /\ UNCHANGED config

\* std::filesystem::copy_file looks at the destination, ...
CopyFile(t) ==
    /\ job[t].at = "copy"
    /\ ~IsDir(job[t].path)
    /\ IsFile(job[t].path) => job[t].flag
    /\ Goto(t, "write")
    /\ UNCHANGED <<config, tree>>

\* ... and then opens it.  Nothing promises that the two are one step: where the library
\* asks for an exclusive open, what has come in between makes it fail, elsewhere it is
\* written over.
WriteCopy(t) ==
    LET n == job[t].path IN
    /\ job[t].at = "write"
    /\ IsDir(Parent(n)) /\ ~IsDir(n)
    /\ tree' = [tree EXCEPT ![n] = t]
    /\ Done(t)
    /\ UNCHANGED config

----------------------------------------------------------------------------
\* handleDelete: is it a file, is it a directory.
Lookup(t) ==
    /\ job[t].at = "lookup"
    /\ Present(job[t].path)
    /\ Goto(t, IF IsFile(job[t].path) THEN "isFile"
               ELSE IF job[t].flag THEN "removeAll" ELSE "rmdir")
    /\ UNCHANGED <<config, tree>>

\* deleteFile looks again.
IsRegularFile(t) ==
    /\ job[t].at = "isFile"
    /\ IsFile(job[t].path)
    /\ Goto(t, "unlink")
    /\ UNCHANGED <<config, tree>>

\* std::filesystem::remove takes a file or an empty directory, whatever is there by now.
RemovePath(t) ==
    /\ job[t].at \in {"unlink", "rmdir"}
    /\ Present(job[t].path) /\ Empty(job[t].path)
    /\ tree' = [tree EXCEPT ![job[t].path] = "none"]
    /\ Done(t)
    /\ UNCHANGED config

\* std::filesystem::remove_all, one entry after the other.
RemoveAll(t, n) ==
    /\ job[t].at = "removeAll"
    /\ Within(job[t].path, n) /\ Present(n) /\ Empty(n)
    /\ tree' = [tree EXCEPT ![n] = "none"]
    /\ IF n = job[t].path THEN Done(t) ELSE UNCHANGED job
    /\ UNCHANGED config

----------------------------------------------------------------------------
\* listDirectory.

\* checkReadPermission: in the end there is a directory, or a file that can be opened.  Then
\* the path's safety is looked at.
CheckReadPermission(t) ==
    /\ job[t].at = "readable"
    /\ Present(job[t].path)
    /\ IF IsPathSafe(job[t]) THEN Goto(t, "open") ELSE Done(t)
    /\ UNCHANGED <<config, tree>>

OpenDirectory(t) ==
    /\ job[t].at = "open"
    /\ IsDir(job[t].path)
    /\ Goto(t, "iterate")
    /\ UNCHANGED <<config, tree>>

\* directory_iterator or recursive_directory_iterator: some entry it has not been at.
NextEntry(t, n) ==
    /\ job[t].at = "iterate"
    /\ n # job[t].path /\ Within(job[t].path, n) /\ n \notin job[t].seen
    /\ Present(n)
    /\ job[t].flag \/ Parent(n) = job[t].path
    /\ job' = [job EXCEPT ![t].at = "entry", ![t].entry = n, ![t].seen = @ \cup {n}]
    /\ UNCHANGED <<config, tree>>

\* push_back on one of the lists, and on with the next entry.
Push(t, as, size) ==
    job' = [job EXCEPT ![t].at = "iterate",
                       ![t].listing = @ \cup {[path |-> job[t].entry, as |-> as,
                                               size |-> size]}]

\* addFileInfo looks again, at each question: is it a file?
AddFileInfo(t) ==
    /\ job[t].at = "entry"
    /\ Goto(t, IF IsFile(job[t].entry) THEN "size" ELSE "notFile")
    /\ UNCHANGED <<config, tree>>

\* A directory?  What has gone since, or has become a file, is something else.  Neither
\* gets a size, and total_size grows by the one it has.
AddNoFile(t) ==
    /\ job[t].at = "notFile"
    /\ Push(t, IF IsDir(job[t].entry) THEN "directory" ELSE "other", Indeterminate)
    /\ UNCHANGED <<config, tree>>

\* Mutant of AddFile: the file is put on the list before its size is asked for.
AddFileFirst(t) ==
    /\ job[t].at = "size"
    /\ Push(t, "file", IF IsFile(job[t].entry) THEN tree[job[t].entry] ELSE Indeterminate)
    /\ UNCHANGED <<config, tree>>

\* file_size throws if there is no file any more: the entry is skipped.
AddFile(t) ==
    /\ job[t].at = "size"
    /\ IF IsFile(job[t].entry) THEN Push(t, "file", tree[job[t].entry])
       ELSE Goto(t, "iterate")
    /\ UNCHANGED <<config, tree>>

Next ==
    \E t \in Threads :
        \/ \E r \in Request : Begin(t, r) \/ Refuse(t, r)
        \/ Fails(t) \/ CheckWritePermission(t) \/ RemoveProbe(t)
        \/ FileExists(t) \/ CreateParent(t) \/ CopyFile(t) \/ WriteCopy(t)
        \/ Lookup(t) \/ IsRegularFile(t) \/ RemovePath(t)
        \/ CheckReadPermission(t) \/ OpenDirectory(t)
        \/ AddFileInfo(t) \/ AddNoFile(t) \/ AddFile(t)
        \/ \E n \in Nodes : CreateDirectory(t, n) \/ RemoveAll(t, n) \/ NextEntry(t, n)

Spec == Init /\ [][Next]_vars

----------------------------------------------------------------------------
Probes == {ProbeIn(d) : d \in Directories}

\* The file that checkWritePermission writes is there only while a thread is in that
\* function: no other exit, and no other thread's use of the same name, leaves it.
ProbesRemoved ==
    \A d \in Directories :
        Present(ProbeIn(d)) => \E t \in Threads : job[t].at = "probing" /\ job[t].probed = d

\* A file that a listing shows is shown with the size that a file at that path had, also
\* when another thread deletes it or puts a directory in its place between the questions.
ListedFilesHaveSizes ==
    \A t \in Threads : \A e \in job[t].listing : e.as = "file" => e.size # Indeterminate

\* Nothing changes in a read-only module, the test file included, and nothing disappears
\* where deletion is not allowed.
SettingsRespected ==
    [][/\ config.read_only => UNCHANGED tree
       /\ ~config.allow_delete =>
             \A n \in Nodes \ Probes : Present(n) => tree'[n] # "none"]_vars
=============================================================================
