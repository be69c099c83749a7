# TLA+ models of simple-rsyncd

TLA+ specifications of the core of simple-rsyncd, TLC configurations that check
them on small instances, and TLAPS proofs of the invariants that matter most.
Source paths below are relative to the repository root (`src/...` is its C++ tree);
`PROJECT.json` maps every definition to its lines.

## 1. The system

simple-rsyncd is one process. Its parts, what they keep and what they do:

| part | source | state | operations | hard parts |
|---|---|---|---|---|
| daemon | core/daemon.cpp, main.cpp | `running_`, `shutdown_requested_`, listening socket, `active_sessions_`, threads | `start`, `stop`, `acceptLoop`, `workerLoop`, `configMonitorLoop`, signal handler | four kinds of threads; sessions change hands in two critical sections; `stop()` runs inside `stop()` and inside `start()` |
| session and protocol | core/session.cpp, core/protocol.cpp | `active_`, socket, TLS connection, user, current module, transfer state and streams | `processRequest` (parse, authorise, handle, transfer), `close`, destructor | every exit of a request; short reads and writes; the client leaving in any state; `close()` called three times |
| TLS | security/ssl_context.cpp | `open_` of a connection | `acceptConnection`, `read`, `write`, `close` | close_notify leaves a session on the plain socket; SIGPIPE |
| rate limiter | security/rate_limiter.cpp | a minute and an hour window per client | `allowConnection`, `recordConnection` | time passes between check and record; window boundaries |
| logger | utils/logger.cpp | stream, `current_file_size_`, the log files | `logEntry`, `rotateLog`, `setFile` | rotation in several renames, crashes between them; a mutex taken twice |
| authentication | core/auth.cpp | password file or key database, sessions | login, `reload`, `addKey`, `removeKey`, session upkeep | file and memory drift apart; failed opens; ages cut to whole seconds in three places |
| user database | core/auth.cpp | `users_` and its file | `createUser`, `updatePassword`, `deleteUser`, `save`, `load` | the file format's round trip; a crash during `save` cuts the file anywhere |
| network access | security/network_access.cpp | none | allow and deny lists, CIDR | boundaries of masks, malformed rules |
| modules | core/module.cpp | settings of a module, its directory | path checks, listing, `createDirectory`, `deleteFile`, `deleteDirectory`, `transferFile` | checks and effects are separate system calls, and threads share the module without a lock |
| configuration | config/config.cpp | the settings, `is_valid_` | loading INI, JSON and YAML, validation, `reload` | settings are assigned in place, without a lock, under running sessions; loads that fail half way; copies taken at start-up |
| others | security/privileges.cpp, security/ssh_key.cpp, core/error.cpp | none | system calls, OpenSSL decoding, exception texts | |

How they interact: `main` starts the daemon and waits; the accept thread asks the
access lists and the rate limiter, makes a session and pushes it to
`active_sessions_`; each worker repeatedly takes *all* sessions out of that list,
calls `processRequest` on each, closes the failed ones and puts the active ones back;
a session asks the authentication manager and works on its module's files; a signal
makes the main thread call `stop()`, which joins the threads and then closes what is
left. Everybody logs.

What makes each part correct:

- daemon: a session has one owner; closed sessions are not served; shutdown touches
  sessions only when no thread can; the process exits with everything joined and
  closed; a shutdown request is eventually honoured;
- session: transfer state and open streams agree; completed transfers are complete;
  the descriptor is closed once; nothing is done that was not authorised; a session
  whose client left goes away;
- rate limiter: limits hold per window in spite of the gap, and admissions are counted;
- logger: files always hold the latest entries, in order, without gaps; rotation ends;
- authentication: who can log in follows from the file last loaded; revoked keys and
  lapsed sessions stay out;
- modules: settings are respected by every step; listings say what was there;
- user database: what is saved can be loaded; deleted users stay deleted;
- configuration: after a good load the settings that the file mentions are what it says,
  whatever was loaded before; modules are replaced only from valid settings; no setting is laxer than
  every document while it is being assigned; access lists mean what their bits say.

## 2. The modules

| module | models | extends / uses |
|---|---|---|
| `Connections` | abstract specification: who owns a connection | |
| `Daemon` | core/daemon.cpp and `handleStart`, `signalHandler` of main.cpp | implements `Connections` |
| `DaemonProofs` | theorems about `Daemon` | `Daemon`, TLAPS |
| `Session` | core/session.cpp, core/protocol.cpp, the connection of ssl_context.cpp | |
| `SessionProofs` | theorems about `Session` | `Session`, TLAPS |
| `RateLimiter` | security/rate_limiter.cpp and the accept loop's use of it | |
| `RateHistory` | the same with the times of the admissions recorded | `RateLimiter` |
| `RateLimiterProofs` | theorems about `RateLimiter` and `RateHistory` | `RateHistory`, TLAPS |
| `Logger` | utils/logger.cpp | |
| `LoggerProofs` | theorems about `Logger` | `Logger`, TLAPS |
| `Auth` | `PasswordFile`, `PublicKeyDatabase`, `SessionManager`, `AuthenticationManager` | |
| `AuthProofs` | theorems about `Auth` | `Auth`, TLAPS |
| `UserDatabase` | `UserDatabase`, `PasswordHasher`, the policy check | |
| `UserDatabaseProofs` | theorems about `UserDatabase` | `UserDatabase`, TLAPS |
| `ModuleFiles` | the operations of core/module.cpp that change files, `listDirectory`, `handleDelete` | |
| `ModuleFilesProofs` | theorems about `ModuleFiles` | `ModuleFiles`, TLAPS |
| `NetworkAccess` | security/network_access.cpp as operators, and the same question asked bit by bit | |
| `Configuration` | config/config.cpp as operators: what each format reads and assigns, defaults, validation, and what a document means in one go | |
| `DaemonConfig` | loading and reloading: `loadFromFile`, `handleStart`, the constructor, `start`, `reloadConfig`, and the settings as the accept loop and sessions read them | `Configuration`, `NetworkAccess` |
| `DaemonConfigProofs` | theorems about `DaemonConfig` and the operators of `Configuration` and `NetworkAccess` | `DaemonConfig`, TLAPS |
| `MC...` | model-checking instances: symmetry sets and the documents, names and trees of an instance | |

### Daemon
`mainPc`, `acceptPc`, `workerPc` and `monitorPc` are places in the code; a critical
section of `sessions_mutex_` is one step. `frames` is the stack of calls of `stop()`
on the main thread: a signal pushes a frame on whatever the thread was doing, so
that `stop()` nests. A session is seen from outside: one `processRequest` succeeds,
fails, finds the client gone (then session.cpp:117 has cleared `active_`, `close()` does
nothing for a plain session and the descriptor is "left"), or kills the process.
`CloseAll` is `close()`, called by name (`StopCloseSessions`) and by the destructor of
every session that is dropped (`StopCleanup`, `GiveBack`). `Session` gives the details.
The accept thread's checks (`GateRejects` for access list and rate limiter,
`CapRejects` for `max_connections`) keep their order and their locks.

### Session
One session, from the worker's point of view; `pc` tells whether it is in the pool,
failed, closed, destroyed, or took the process with it. Each exit of `processRequest`
is an action with the whole effect of that exit: the reply that is sent, the transfer
that is started, the state that is cleared. Requests range over every combination of
command, header, module, path and argument that a line can have; `Outside` are the paths
that `resolvePath` refuses, which listings, downloads and deletions ask (`Resolves`) and
`startFileUpload` does not (session.cpp:280). Results of `recv`,
`send` and `open`, the size of files and their changes by other writers, and the
verdict of authentication are chosen freely. The protocol handler's module map is a
reference to a local variable of `acceptLoop` that no longer exists
(daemon.cpp:708, protocol.hpp:153): a lookup finds the module, finds nothing, or
crashes. `Init` picks plain TCP or TLS.

### RateLimiter
The two windows per client with the expiry and increment of `incrementWindow`;
`Allow`, `RefuseMinute`, `RefuseHour` are the outcomes of `allowConnection`, `Record`
and `Abandon` what the accept loop does next. `Callers` generalises the accept
thread to several, to see what the unlocked gap would cost. `RateHistory` adds `upto`,
the number of connections of a client admitted by each time, so that intervals that are
no windows can be spoken of.

### Logger
Threads with the non-recursive `log_mutex_`, the stream, the rotation as one step per
rename, and the files on disk; renames may throw, opens may fail, `Restart` kills the
process at any point and keeps the disk.

### Auth
The store (passwords: the last acceptable line of a user; keys: all lines), its file,
which is edited from outside, loading and saving that may fail to open the file, the
login decision, and sessions with the clock read of `createSession` before its lock. The
clock has `TicksPerSecond` ticks in a second, and `Elapsed` is the `duration_cast` to
whole seconds that every expiry test makes.
A digest or signature check is equality.

### UserDatabase
Text with colons is a sequence of words, which is what `save` concatenates and `load`
splits. Each operation saves; a save succeeds, fails to open the file (which no caller
looks at), or is cut short by a crash after which the file is loaded. The stream is
buffered, so the crash leaves whole lines and any beginning of the next: cut in a word
(`Piece`) or behind a colon (`Empty`). `torn` remembers whose line was cut.

### ModuleFiles
The tree of one module, with every look at it and every change of it a step, as the
workers share the `Module` without a lock. A file is known by its last writer, and so is
its size. `copy_file` looks at the destination (`CopyFile`) and opens it later
(`WriteCopy`): the library promises no more. `checkWritePermission` writes and removes
`.rsyncd_write_test`. `listDirectory` goes through the entries one by one and asks three
questions about each; a size that was never assigned is `Indeterminate`.
`Fails` ends a request at any of its checks or system calls. `transferFile` and
`createDirectory` are not called by the protocol handlers; the model covers them as the
module's interface.

### NetworkAccess, Configuration, DaemonConfig
A configuration file is a document: what it says at which place (section and key), and
the places where a number or a flag cannot be read. `IniReads`, `JsonReads` and
`YamlReads` are the places that the parsers look at; they differ, as the code does: an
INI file has no `denied_users` and no `auto_reload`, "allow_delete" is unknown there and
"delete" in JSON. Ports are cut to 16 bits (`PortModulus`), lists grow by `push_back`, an
unreadable number is skipped (INI), ends the load (YAML) or the process (JSON, whose
exceptions nobody catches). In `DaemonConfig` each assignment is a step, because the
`Configuration` object is shared with running sessions and not locked; the operator may
change the file and the paths it names between any two steps. `loader` is the one thread
that loads: first `handleStart`, then whoever calls `reloadConfig`. `manager`, `tls` and
`served` are what the daemon copies out of the settings: at construction, in `start` and
in `loadModules`. One session stands for all. `access` is chosen at the start, for
no parser assigns it.

## 3. The runs

| run | what it shows |
|---|---|
| `RateLimiter` | two callers, two clients, windows of 2 and 4 ticks, 5 ticks: no window admits more than limit + (callers − 1); missed counts are bounded likewise; any interval of a window's length admits at most two windows' worth |
| `SessionRequests` | two modules (one read-only), one user, a path inside and one outside, files of up to 3 units with a buffer of 2, TCP and TLS, public-key authentication: all session properties; each call on a session whose client left brings it nearer to its end |
| `SessionUpload` | *violation*: an upload reported as successful was never renamed (session.cpp:382 clears the names that line 385 tests) |
| `DaemonSafety` | two connections, two workers, limit 1, two signals: ownership, shutdown order, clean exit, and refinement of `Connections` |
| `DaemonStop` | TLS, one worker, two connections: if every client leaves some day, a shutdown request ends the process, and a session whose client has gone is dropped |
| `DaemonSignalInStart` | *violation*: a signal while `start()` creates threads leaves threads nobody joins |
| `LoggerFiles` | two threads, 3 files of 3 entries, 6 entries, failing renames and restarts: files hold a suffix of what was written, entries are lost only from the last place of the rotation; the size counter is right |
| `LoggerRotation` | *violation*: automatic rotation locks `log_mutex_` twice and blocks |
| `Auth` | two users (one denied), two secrets, two lines, one session, a timeout of one second, two ticks in a second, five ticks, password and key method: the store follows its file, revoked keys stay out, sessions lapse before timeout plus a second, and the three expiry tests agree |
| `ModuleFiles` | two threads, a directory and a file in it, all settings: the write test leaves nothing, read-only modules stay as they are, listed files have the size of a file that was there |
| `UserDatabase` | two users, two passwords (one weak), a permission, crashes that cut the file anywhere: all lines but a cut one survive load and save; deleted users stay deleted; passwords hold until the file is read again |
| `Config` | three formats, six documents each, two modules, ports of 2 and addresses of 3 bits, two edits, two reloads: after a good load the settings that the file decides are what it alone means and lists end with what it adds, modules are replaced from valid settings only, no lax moment, users denied at the start stay out, masks mean their bits |

A violation run states what the quoted comment or document says and TLC's
counterexample shows what the code does; `findings` in `PROJECT.json` quotes the line.

Why the bounds are enough. Ownership needs two connections (one served, one in
another place) and two workers (two lists); a limit of 1 makes the cap reject; two
signals make `stop()` nest. Transfers need a file shorter than, equal to and longer
than the buffer: sizes 0..3 with a buffer of 2. The rate limiter needs two windows
to pass and two callers to be in the gap at once; five ticks cross both boundaries. The
logger needs at least two rotations for a gap in the numbering to matter: three
files and six entries give them. With two ticks in a second a session of `Auth` can be
idle for its timeout and a part of a second, and five ticks are enough to lapse and to
come back. Lines of two users in `UserDatabase` make a crash between two lines and
inside either possible; a line has at most five words, so that a password can be changed
after the file was read. `Config` needs two edits and two reloads for a load that fails and
one that repairs it; a port of 2^2 is the 65536 that becomes 0; addresses of three bits
have prefixes at both ends and in between, and `AccessMatchesBits` goes through every
rule of that width besides the lists of the run.

The runs of `Session`, `Daemon` and `DaemonConfig` check the type invariant, which there
has work to do (a served session's user, a counter, a port's width). `RateLimiter`,
`Logger`, `Auth`, `ModuleFiles` and `UserDatabase` state theirs for the proofs, which
establish it; it takes no part in their runs.

Deadlock is checked everywhere but in `LoggerRotation`, where the deadlock is the
finding. A process that has exited or died stutters explicitly (`Over`).

Fairness. `Daemon!FairSpec`: threads run (weak fairness of main, accept, monitor and
worker steps that wait for nobody). A step that waits for a client is owed only once
the client is gone; it is strongly fair because a worker serves other sessions in
between, and that it ends at all follows from `GoneClientCostsLess` of `Session`, a
safety property: of the calls on a session whose client is gone only finitely many return
true. `Session` has no fairness of its own, for a worker serves its list in turn and may
sit in another session's `recv`.
`FairClientsSpec` adds that clients leave, which the code cannot enforce, and which
only `DaemonStop` assumes; without it `StopTerminates` and `GoneClientIsDropped` fail,
because `recv` has no timeout: `stop()` joins the worker that is in it (daemon.cpp:185),
and the sessions behind it in the worker's list wait (daemon.cpp:393). `Logger!FairSpec` is strong fairness of each
thread's steps, a fair mutex, so that its violation is not for lack of scheduling.

## 4. What is proved

Everything below holds for every value of the constants: any sets of connections,
workers, callers, clients, users, modules and threads, any limits, sizes and documents,
and any value of the bounds that make the runs finite. The assumptions are the named
`ASSUME`s of the modules, which TLC evaluates on every run; section 5 lists those that
restrict anything. Each proof rests on an inductive invariant, a conjunction of named parts.

`DaemonProofs`. The inductive invariant is
`TypeOK /\ OneOwner /\ OnlyOpenSessionsServed /\ ShutdownAlone /\ OwnersAtWork`
(`DaemonInvariant`). None of the middle ones is inductive alone: `Take` hands over the
whole pool, so that `OneOwner` needs that the worker's list was empty
(`OwnersAtWork`); that closing sessions in `stop()` spares served ones needs that no
worker holds any (`ShutdownAlone`), and that in turn that a joined thread owns
nothing (`OwnersAtWork`), for every frame of the stack, because an outer `stop()`
resumes where a nested one has already been. From it follow `DaemonTypeCorrect`,
`SessionsHaveOneOwner`, `ServedSessionsAreOpen`, `StopRunsAlone`, `OwnersFit` and
`DaemonRefines`: initial states map to initial states of `Connections`, and each
action to one of its steps or to a stutter.

`ExitIsClean` and `ExitLeaksOnlyLeft` assume `~SignalDuringStart`; the run
`DaemonSignalInStart` shows why. `ExitInv` adds what a call of `stop()` past each step has
done (`Steps`), that once `running_` is clear some call is past the assignment or
everything is done (`Leaving`: this is what makes it right that the final `stop()`
returns at once), that `stop()` does not run between the first thread and the last
(`Starting`), and who answers for each descriptor (`Descriptors`); sessions that are
destroyed are closed by their destructor, so the only ones left are those whose read
found the end of the stream first.

`RateLimiterProofs`. The invariant is `TypeOK /\ WindowsAccount`: a window's
admissions plus the permissions that callers still hold are at most limit + callers − 1,
which uses that a caller that is allowed found the window not full and holds no other
permission. `TypeCorrect`, `AccountInvariant`, `LimitHolds` and
`CountingIsExact` follow; with one caller, as in the daemon, the limit is exact.
`IntervalsAreBounded` is about any interval of a window's length: `Spread` says that the
present window has admitted all there was since its start, none after its end, and that
less than one period before its start there were no more admissions than fit a window,
since they all belong to the window before.

`SessionProofs`. `IInv` is `TypeOK` with `Streams` (the open streams are those of the
transfer state), `Descriptor` (`close()` can be called again because the socket, the TLS
connection and the count of closes agree after each of its three callers), `Position`
(what was read of the file is what was sent or what a failed send lost) and `Identity`.
From it: `SessionTypeCorrect`, `StreamsFollowTransfer`, `DownloadsAreIntact`,
`DescriptorClosedOnce`, `HandlersStayWithinRights` (which says of uploads only that the
module was asked), and the action property `GoneClientsCostLess`. `UploadsAreNeverInstalled` says of every
upload what the run `SessionUpload` shows of one: `endFileTransfer` has cleared the names,
so the rename never happens.

`AuthProofs`. For sessions, the stamp that a thread in `createSession` read before it
waits for the lock is part of the invariant (`IdleSessionsDoLapse`, and the action property
`ExpiryDoesAgree`); the bound of timeout plus one second comes from the division by
`TicksPerSecond` (`WholeUnits`). For the store, what loading computes is a fold over the lines, and
what it holds for a line's user is shown by a least counterexample over prefixes of the
file (`StoreDoesFollowFile`); `RevokedDoesStayOut` needs that a removed key is missing from
the lines that were saved, not only from memory.

`UserDatabaseProofs`. `FileDoesSurviveLoad` needs that the lines stand in the order of the
map, one per user, and that those of users who are not `torn` are long enough for `load` to
take (`Whole`), for every prefix of the file too, because that is what a crash inside `save`
leaves in front of the line it cut; `DeletedDoesStayDeleted` that the deleted
user is missing from the file; `PasswordDoesHold` that the hash in memory is the one made
of the password given last.

`LoggerProofs`. That the files hold the last entries is not inductive in the middle of a
rotation. `Phase` describes the gap that moves through the files, `Mutex` says that only
the owner of `log_mutex_` sees it, and `Laid` that there are boundaries b such that
rotated file i holds the entries after b[i + 1] up to b[i], which also holds of the gap
that a process leaves that dies between two renames. `SizeStaysFileSize` and
`RetainedStaysSuffix` follow, for any number of files. A suffix could be too short;
`OldestDoesDrop` says that a step loses entries only from the last place of the rotation,
because `Phase` has emptied every other place that a rename hits. `RotationDoesBlock`
generalises the finding of `LoggerRotation`: the entry that reaches the limit leaves its
thread waiting for itself, `Mutex` keeps all others out, and nothing reaches the disk again
until the process is restarted.

`ModuleFilesProofs`. `WellFormed` (what is present lies in a directory), `GoodJobs` (a
request that is at a step has passed the checks that the step relies on and never looks at
again) and `ProbesRemoved`. `ListedFilesDoHaveSizes` and the action property
`SettingsAreRespected` are consequences.

`DaemonConfigProofs`. The invariant follows a load through the places of its document:
behind the place it is at, each setting has the value of the last place that assigned it
(`Through`), and what no document mentioned is the default (`Untouched`); with `ListInv`,
which says the same of the lists (entries come from documents, and a load past a list's
place has appended to it), that gives `ReloadDoesRestart` for documents of any length. `Strict` and `Denied` say from which
assignment on a switch is on, or a user denied, for good, in the settings and in the
copies the daemon made; they give `NoLaxWindowOpens` and `DeniedDoesStayOut`.
`OnlyValidDoesReplace` and `DaemonConfigTypeCorrect` come from the same invariant.

`AccessDoesMatchBits`, also there, is about addresses of any width, so of 32 bits too, and
lists of any length. The provers know nothing of exponentiation: that 2^(n+1) is twice 2^n
comes from counting the subsets of 1..n (`PowerDoubles`), and only 2^0 = 1 and that step
are used. Clearing the low bits of two addresses gives the same number just if their
quotients by the power of two agree (`ClearedIsQuotient`); a quotient is twice the next one
plus a bit (`LastBit`), so by induction from the highest bit, where the quotients are 0, it
is what the bits of the prefix say (`QuotientIsBits`). The rest is about rules and lists:
malformed rules name nobody, and denied lists beat allowed ones. The one assumption is
that the lists are typed (`s.access \in AccessLists`).

Only model-checked: `StopTerminates` and `GoneClientIsDropped` of `Daemon`, because fairness and
`ENABLED` are out of TLAPS's reach, and that a signal during `start()` breaks `CleanExit`,
which is the existence of a behaviour.

## 5. Abstractions and what is left out

- Signals arrive on the main thread. The kernel may choose another thread, where
  `stop()` would join itself; `hazards` lists it.
- Running out of memory and failures to create a thread are not modelled.
- The logger's lock does not appear in `Daemon`, so a signal that arrives while the main
  thread logs is not seen there.
- Entries of the log have equal length; one file name per process; a crash loses no
  part of a line that was written. Writes do not fail: `logEntry` would add an entry that
  was not written to `current_file_size_` (logger.cpp:278), and rotate early.
- `system_clock` does not go back. Session ids do not repeat (16 random bytes).
- The daemon itself never calls `AuthenticationManager::reload`, `addKey`, `removeKey` or
  `cleanupExpiredSessions`; `Auth` interleaves them with logins as whole steps, for
  whoever calls them does so without a common lock.
- `UserInfo`'s expiry dates, lock and failure counts are written and never read; nor is
  `user_info_` of a password file, which a reload does not clear (auth.cpp:186, 239).
- `max_files_` is positive. The clock of the rate limiter starts at 1, as 0 marks a window
  that was never used.
- What the assumptions on constants restrict: there are finitely many users, secrets and
  callers; a module or user has one name and two of them differ (they are keys of maps);
  no module is called "global" or "own", the model's words for the section of global
  settings and for a setting's own section; documents are typed (`IsDocument`), their strings are in `Words`;
  a request to a module that `ModuleFiles` follows names something inside it.
- Modules contain no symbolic links, and clients do not use the name
  `.rsyncd_write_test`; a process that dies inside `checkWritePermission` leaves that file.
  `resolvePath` compares strings (module.cpp:453, 486), so a directory beside the module
  whose name begins with the module's passes; neither it nor the module's own directory is
  among the targets of `ModuleFiles`, whose settings properties are about the module.
- The prefix of an access rule is what `stoi` makes of the text behind the slash:
  "8x" is 8 (network_access.cpp:38) and not malformed, in the code and in the model.
- `session.tls` of `DaemonConfig` is whether the session was made with TLS; a client that
  ends TLS with a close_notify goes on on the plain socket (session.cpp:83), which is in
  `Session` and not a matter of the settings.
- Reading a string setting while another thread assigns it is undefined; `DaemonConfig`
  reads it before or after. Only one thread calls `reloadConfig`. A file has each place
  once, and a module's section says something its format reads. Certificate and key are
  one, `read_only` stands for the module's other settings, `denied_users` for
  `allowed_users`.
- `${VAR}` in INI values is substituted before the value is used and is left out.

Where documents or comments and code differ, without a run of its own:

- docs/shared/configuration/README.md:1056 says "If invalid, the old configuration is
  kept", and so does the log message at daemon.cpp:768; `reload` assigns in place, and
  what a failed load has assigned stays (`ParseThrows`, `Validate`). `loadModules` clears
  `modules_` before it has new ones (`LoadModules`).
- docs/security/THREAT_MODEL.md:18 says of module paths "constrained by module root,
  symlink policy", README.md:232 "Path validation: Prevention of directory traversal
  attacks". Listings, downloads and deletions ask `resolvePath`; `startFileUpload`
  (session.cpp:280) joins directory and path itself, so that where an upload is written
  depends on the path alone. `ActAllowed` says what holds: everything but uploads lies
  inside the module.
- A reload appends to lists (config.cpp:323, 447, 539): reloading an unchanged file
  repeats their entries, and an entry that was taken out of the file stays.
- A session outlives its timeout by up to a second (auth.cpp:564), and using a lapsed
  session that was not cleaned up revives it (auth.cpp:545).
- Auto-reload never happens: nothing sets the flag that `hasChanged` returns.
- Changes to `auth` and `ssl` other than turning them off or changing the method have no
  effect until a restart, because the manager and the TLS context are made at start-up.
- The access lists that the documentation describes are read from no file.
- After `UserDatabase::load` no saved password verifies: the hash contains colons, and
  load ends it at the first (auth.cpp:475).
- `total_size` of a listing that contains a directory is indeterminate (module.cpp:392).

Not modelled: `getFileInfo`, `receiveFile` (they change nothing in the module) and filters
(nothing calls them), key decoding (OpenSSL, no state), privileges beyond their
failure, error texts, the command line beyond `start` (its other commands print a text,
and the PID file is written and removed but never read), packaging. `components` in
`PROJECT.json` gives the reason for each.

## 6. Plan

Done: (1) rate limiter, (2) session and protocol, (3) daemon and its abstract
specification, (4) logger, (5) authentication and user database, (6) the file
operations and listings of modules, (7) network access, configuration and its reload
under running sessions, (8) proofs of every safety property that the runs check.

Next: `Logger` composed with `Daemon`, for signals that arrive while the main thread holds
`log_mutex_`; the connection limit, which counts only the sessions that no worker holds.
