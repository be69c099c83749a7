------------------------------- MODULE Daemon -------------------------------
(***************************************************************************)
(* RSyncDaemon (core/daemon.cpp) and the main thread that drives it        *)
(* (main.cpp): start, the accept thread, the worker threads, the           *)
(* configuration monitor, stop, and a signal handler that calls stop on    *)
(* the main thread, on top of whatever that thread was doing.              *)
(*                                                                         *)
(* A session is seen from outside: one call of processRequest keeps it     *)
(* active, fails (and the worker closes it), finds the client gone (and    *)
(* clears active_ without closing), or takes the process down.  Module     *)
(* Session has the details.  A critical section of sessions_mutex_ is one  *)
(* step.                                                                   *)
(***************************************************************************)
EXTENDS Integers, Sequences, FiniteSets

CONSTANTS
    Conns,              \* connections that clients may open
    NoConn,             \* acceptLoop has no client_socket
    Workers,            \* the worker threads
    MaxConnections,     \* network.max_connections
    Tls,                \* ssl.enabled
    MaxSignals,         \* bound on the signals the process gets
    SignalDuringStart   \* may one arrive while start() is creating threads

ASSUME DaemonConstants ==
    /\ NoConn \notin Conns
    /\ Workers # {}
    /\ Workers \cap {"client", "accept", "pool", "gone"} = {}
    /\ MaxConnections \in Nat \ {0}
    /\ Tls \in BOOLEAN /\ SignalDuringStart \in BOOLEAN
    /\ MaxSignals \in Nat

VARIABLES
    running,        \* running_
    shutdown,       \* shutdown_requested_
    listening,      \* listen_socket_ >= 0
    modules,        \* modules_ is not empty
    mainPc,         \* the main thread, in handleStart
    frames,         \* the calls of stop() on the main thread, innermost first
    flag,           \* g_shutdown_requested
    signals,        \* signals still to come
    acceptPc,       \* the accept thread
    incoming,       \* client_socket of acceptLoop
    workerPc,       \* the worker threads
    held,           \* sessions_to_process of each worker
    todo,           \* the part of held the worker has not come to yet
    serving,        \* the session whose processRequest the worker is in
    pool,           \* active_sessions_
    monitorPc,      \* the configuration monitor
    fd,             \* each connection's descriptor ("left": open, but close() skips it)
    active,         \* active_ of each connection's session
    gone,           \* clients that have closed and whose data has all been read
    total,          \* total_connections_
    crashed         \* the process died inside processRequest

mainVars == <<mainPc, frames, flag, signals>>
flagVars == <<running, shutdown, listening, modules>>
acceptVars == <<acceptPc, incoming, total>>
workerVars == <<workerPc, held, todo, serving>>
connVars == <<fd, active>>
vars == <<mainVars, flagVars, acceptVars, workerVars, connVars, pool, monitorPc,
          gone, crashed>>

StopPcs == {"check", "setShutdown", "setRunning", "closeListen", "joinAccept",
            "joinMonitor", "joinWorkers", "closeSessions", "cleanup", "unload"}
AcceptPcs == {"none", "loop", "accept", "gate", "cap", "create", "push", "exited",
              "joined"}
WorkerPcs == {"none", "loop", "take", "serve", "return", "exited", "joined"}

\* The types of the daemon's state.
TypeOK ==
    /\ running \in BOOLEAN /\ shutdown \in BOOLEAN
    /\ listening \in BOOLEAN /\ modules \in BOOLEAN
    /\ mainPc \in {"init", "workers", "monitor", "run", "stopping", "exit", "failed"}
    /\ frames \in Seq(StopPcs)
    /\ flag \in BOOLEAN
    /\ signals \in 0..MaxSignals
    /\ acceptPc \in AcceptPcs
    /\ incoming \in Conns \cup {NoConn}
    /\ workerPc \in [Workers -> WorkerPcs]
    /\ held \in [Workers -> SUBSET Conns]
    /\ todo \in [Workers -> SUBSET Conns]
    /\ serving \in [Workers -> Conns \cup {NoConn}]
    /\ pool \subseteq Conns
    /\ monitorPc \in {"none", "sleeping", "exited", "joined"}
    /\ fd \in [Conns -> {"none", "backlog", "open", "closed", "left"}]
    /\ active \in [Conns -> BOOLEAN]
    /\ gone \subseteq Conns
    /\ total \in Nat
    /\ crashed \in BOOLEAN

Init ==
    /\ running = FALSE /\ shutdown = FALSE /\ listening = FALSE /\ modules = FALSE
    /\ mainPc = "init" /\ frames = <<>> /\ flag = FALSE /\ signals = MaxSignals
    /\ acceptPc = "none" /\ incoming = NoConn /\ total = 0
    /\ workerPc = [w \in Workers |-> "none"]
    /\ held = [w \in Workers |-> {}] /\ todo = [w \in Workers |-> {}]
    /\ serving = [w \in Workers |-> NoConn]
    /\ pool = {} /\ monitorPc = "none"
    /\ fd = [c \in Conns |-> "none"] /\ active = [c \in Conns |-> FALSE]
    /\ gone = {} /\ crashed = FALSE

----------------------------------------------------------------------------
\* The main thread: start(), the event loop, stop(), exit.

MainIsFree == frames = <<>>

\* validateConfiguration, loadModules, initializeSSL or initializeNetwork fails; only
\* the modules may have been loaded.
StartFailsEarly ==
    /\ mainPc = "init" /\ MainIsFree
    /\ mainPc' = "failed"
    /\ modules' \in BOOLEAN
    /\ UNCHANGED <<frames, flag, signals, running, shutdown, listening, acceptVars,
                   workerVars, connVars, pool, monitorPc, gone, crashed>>

\* enterChroot or dropProcessPrivileges fails: the listening socket is left open.
StartFailsLate ==
    /\ mainPc = "init" /\ MainIsFree
    /\ mainPc' = "failed"
    /\ modules' = TRUE /\ listening' = TRUE
    /\ UNCHANGED <<frames, flag, signals, running, shutdown, acceptVars, workerVars,
                   connVars, pool, monitorPc, gone, crashed>>

StartAccept ==
    /\ mainPc = "init" /\ MainIsFree
    /\ modules' = TRUE /\ listening' = TRUE
    /\ running' = TRUE
    /\ acceptPc' = "loop"
    /\ mainPc' = "workers"
    /\ UNCHANGED <<frames, flag, signals, shutdown, incoming, total, workerVars,
                   connVars, pool, monitorPc, gone, crashed>>

\* startWorkerThreads, one thread at a time.
StartWorker(w) ==
    /\ mainPc = "workers" /\ MainIsFree
    /\ workerPc[w] = "none"
    /\ workerPc' = [workerPc EXCEPT ![w] = "loop"]
    /\ mainPc' = IF \E v \in Workers \ {w} : workerPc[v] = "none"
                 THEN "workers" ELSE "monitor"
    /\ UNCHANGED <<frames, flag, signals, flagVars, acceptVars, held, todo, serving, connVars,
                   pool, monitorPc, gone, crashed>>

\* The monitor thread is created when auto_reload is on; start() returns.
StartMonitor ==
    /\ mainPc = "monitor" /\ MainIsFree
    /\ monitorPc' \in {"none", "sleeping"}
    /\ mainPc' = "run"
    /\ UNCHANGED <<frames, flag, signals, flagVars, acceptVars, workerVars, connVars,
                   pool, gone, crashed>>

\* The event loop ends and main calls stop().
LeaveLoop ==
    /\ mainPc = "run" /\ MainIsFree
    /\ flag \/ ~running
    /\ mainPc' = "stopping"
    /\ frames' = <<"check">>
    /\ UNCHANGED <<flag, signals, flagVars, acceptVars, workerVars, connVars, pool,
                   monitorPc, gone, crashed>>

\* handleStart returns; the destructor of g_daemon follows.
Exit ==
    /\ mainPc = "stopping" /\ MainIsFree
    /\ mainPc' = "exit"
    /\ UNCHANGED <<frames, flag, signals, flagVars, acceptVars, workerVars, connVars,
                   pool, monitorPc, gone, crashed>>

\* signalHandler, on the main thread.
Signal ==
    /\ signals > 0
    /\ \/ mainPc \in {"init", "run", "stopping"}
       \/ SignalDuringStart /\ mainPc \in {"workers", "monitor"}
    /\ signals' = signals - 1
    /\ flag' = TRUE
    /\ frames' = <<"check">> \o frames
    /\ UNCHANGED <<mainPc, flagVars, acceptVars, workerVars, connVars, pool,
                   monitorPc, gone, crashed>>

----------------------------------------------------------------------------
\* stop(), as the innermost frame of the main thread.

At(pc) == frames # <<>> /\ Head(frames) = pc
Goto(pc) == frames' = [frames EXCEPT ![1] = pc]
Return == frames' = Tail(frames)

StopCheck ==
    /\ At("check")
    /\ IF running THEN Goto("setShutdown") ELSE Return
    /\ UNCHANGED <<mainPc, flag, signals, flagVars, acceptVars, workerVars, connVars,
                   pool, monitorPc, gone, crashed>>

StopSetShutdown ==
    /\ At("setShutdown")
    /\ shutdown' = TRUE
    /\ Goto("setRunning")
    /\ UNCHANGED <<mainPc, flag, signals, running, listening, modules, acceptVars,
                   workerVars, connVars, pool, monitorPc, gone, crashed>>

StopSetRunning ==
    /\ At("setRunning")
    /\ running' = FALSE
    /\ Goto("closeListen")
    /\ UNCHANGED <<mainPc, flag, signals, shutdown, listening, modules, acceptVars,
                   workerVars, connVars, pool, monitorPc, gone, crashed>>

\* close(listen_socket_); the kernel resets the connections nobody accepted.
StopCloseListen ==
    /\ At("closeListen")
    /\ listening' = FALSE
    /\ fd' = [c \in Conns |-> IF fd[c] = "backlog" THEN "closed" ELSE fd[c]]
    /\ Goto("joinAccept")
    /\ UNCHANGED <<mainPc, flag, signals, running, shutdown, modules, acceptVars,
                   workerVars, active, pool, monitorPc, gone, crashed>>

Joined(pc) == IF pc = "exited" THEN "joined" ELSE pc

\* RSyncSession::close on every session of cs, by name or by its destructor: a TLS
\* session is always closed, a plain one only while active_ is set.
CloseAll(cs) ==
    /\ fd' = [c \in Conns |-> IF c \in cs /\ (Tls \/ active[c]) THEN "closed" ELSE fd[c]]
    /\ active' = [c \in Conns |-> active[c] /\ c \notin cs]

\* Mutant of StopJoinAccept: the accept thread is not waited for.
StopSkipsAccept ==
    /\ At("joinAccept")
    /\ Goto("joinMonitor")
    /\ UNCHANGED <<mainPc, flag, signals, flagVars, acceptVars, workerVars, connVars,
                   pool, monitorPc, gone, crashed>>

StopJoinAccept ==
    /\ At("joinAccept")
    /\ acceptPc \in {"none", "exited", "joined"}
    /\ acceptPc' = Joined(acceptPc)
    /\ Goto("joinMonitor")
    /\ UNCHANGED <<mainPc, flag, signals, flagVars, incoming, total, workerVars,
                   connVars, pool, monitorPc, gone, crashed>>

\* Mutant of StopJoinMonitor: the monitor thread is not joined.
StopSkipsMonitor ==
    /\ At("joinMonitor")
    /\ Goto("joinWorkers")
    /\ UNCHANGED <<mainPc, flag, signals, flagVars, acceptVars, workerVars, connVars,
                   pool, monitorPc, gone, crashed>>

StopJoinMonitor ==
    /\ At("joinMonitor")
    /\ monitorPc \in {"none", "exited", "joined"}
    /\ monitorPc' = Joined(monitorPc)
    /\ Goto("joinWorkers")
    /\ UNCHANGED <<mainPc, flag, signals, flagVars, acceptVars, workerVars, connVars,
                   pool, gone, crashed>>

\* Mutant of StopJoinWorkers: the workers are not waited for.
StopSkipsWorkers ==
    /\ At("joinWorkers")
    /\ Goto("closeSessions")
    /\ UNCHANGED <<mainPc, flag, signals, flagVars, acceptVars, workerVars, connVars,
                   pool, monitorPc, gone, crashed>>

StopJoinWorkers ==
    /\ At("joinWorkers")
    /\ \A w \in Workers : workerPc[w] \in {"none", "exited", "joined"}
    /\ workerPc' = [w \in Workers |-> Joined(workerPc[w])]
    /\ Goto("closeSessions")
    /\ UNCHANGED <<mainPc, flag, signals, flagVars, acceptVars, held, todo, serving, connVars,
                   pool, monitorPc, gone, crashed>>

\* closeSessions: RSyncSession::close on every session of the pool.
StopCloseSessions ==
    /\ At("closeSessions")
    /\ CloseAll(pool)
    /\ Goto("cleanup")
    /\ UNCHANGED <<mainPc, flag, signals, flagVars, acceptVars, workerVars, pool,
                   monitorPc, gone, crashed>>

\* cleanupSessions: active_sessions_.clear() destroys the sessions.
StopCleanup ==
    /\ At("cleanup")
    /\ CloseAll(pool)
    /\ pool' = {}
    /\ Goto("unload")
    /\ UNCHANGED <<mainPc, flag, signals, flagVars, acceptVars, workerVars,
                   monitorPc, gone, crashed>>

StopUnload ==
    /\ At("unload")
    /\ modules' = FALSE
    /\ Return
    /\ UNCHANGED <<mainPc, flag, signals, running, shutdown, listening, acceptVars,
                   workerVars, connVars, pool, monitorPc, gone, crashed>>

Stop ==
    \/ StopCheck \/ StopSetShutdown \/ StopSetRunning \/ StopCloseListen
    \/ StopJoinAccept \/ StopJoinMonitor \/ StopJoinWorkers \/ StopCloseSessions
    \/ StopCleanup \/ StopUnload

----------------------------------------------------------------------------
\* acceptLoop.

acceptFrame == <<mainVars, flagVars, workerVars, monitorPc, gone, crashed>>

AcceptLoop ==
    /\ acceptPc = "loop"
    /\ acceptPc' = IF running /\ ~shutdown THEN "accept" ELSE "exited"
    /\ UNCHANGED <<acceptFrame, incoming, total, connVars, pool>>

\* accept() has nothing (EAGAIN) or was interrupted.
AcceptNothing ==
    /\ acceptPc = "accept"
    /\ listening
    /\ acceptPc' = "loop"
    /\ UNCHANGED <<acceptFrame, incoming, total, connVars, pool>>

\* Any other error (the socket closed by stop, no descriptors left, a connection
\* aborted by its client) ends the thread for good.
AcceptError ==
    /\ acceptPc = "accept"
    /\ acceptPc' = "exited"
    /\ UNCHANGED <<acceptFrame, incoming, total, connVars, pool>>

Accept(c) ==
    /\ acceptPc = "accept"
    /\ listening
    /\ fd[c] = "backlog"
    /\ fd' = [fd EXCEPT ![c] = "open"]
    /\ incoming' = c
    /\ acceptPc' = "gate"
    /\ UNCHANGED <<acceptFrame, total, active, pool>>

\* Mutant of Reject: a connection that was never counted is counted off.
RejectUncounts ==
    /\ fd' = [fd EXCEPT ![incoming] = "closed"]
    /\ incoming' = NoConn
    /\ acceptPc' = "loop"
    /\ total' = total - 1
    /\ UNCHANGED <<acceptFrame, active, pool>>

\* Mutant of Reject: the refused client's descriptor is forgotten.
RejectForgets ==
    /\ incoming' = NoConn
    /\ acceptPc' = "loop"
    /\ UNCHANGED <<acceptFrame, fd, total, active, pool>>

Reject ==
    /\ fd' = [fd EXCEPT ![incoming] = "closed"]
    /\ incoming' = NoConn
    /\ acceptPc' = "loop"
    /\ UNCHANGED <<acceptFrame, total, active, pool>>

\* checkAccess or checkRateLimit says no.
GateRejects == acceptPc = "gate" /\ Reject

GatePasses ==
    /\ acceptPc = "gate"
    /\ acceptPc' = "cap"
    /\ UNCHANGED <<acceptFrame, incoming, total, connVars, pool>>

\* The size of active_sessions_, under the lock, which is then released.
CapRejects ==
    /\ acceptPc = "cap"
    /\ Cardinality(pool) >= MaxConnections
    /\ Reject

CapPasses ==
    /\ acceptPc = "cap"
    /\ Cardinality(pool) < MaxConnections
    /\ acceptPc' = "create"
    /\ UNCHANGED <<acceptFrame, incoming, total, connVars, pool>>

\* updateRateLimit, copy of modules_, TLS handshake (which waits for the client), the
\* session's constructor.
CreateSession ==
    /\ acceptPc = "create"
    /\ active' = [active EXCEPT ![incoming] = TRUE]
    /\ acceptPc' = "push"
    /\ UNCHANGED <<acceptFrame, incoming, total, fd, pool>>

HandshakeFails ==
    /\ acceptPc = "create"
    /\ Tls
    /\ Reject

PushSession ==
    /\ acceptPc = "push"
    /\ pool' = pool \cup {incoming}
    /\ total' = total + 1
    /\ incoming' = NoConn
    /\ acceptPc' = "loop"
    /\ UNCHANGED <<acceptFrame, connVars>>

AcceptThread ==
    \/ AcceptLoop \/ AcceptNothing \/ AcceptError \/ \E c \in Conns : Accept(c)
    \/ GateRejects \/ GatePasses \/ CapRejects \/ CapPasses
    \/ CreateSession \/ HandshakeFails \/ PushSession

----------------------------------------------------------------------------
\* workerLoop.

workerFrame == <<mainVars, flagVars, acceptVars, monitorPc, gone>>

WorkerLoop(w) ==
    /\ workerPc[w] = "loop"
    /\ workerPc' = [workerPc EXCEPT ![w] =
                      IF running /\ ~shutdown THEN "take" ELSE "exited"]
    /\ UNCHANGED <<workerFrame, held, todo, serving, connVars, pool, crashed>>

\* Mutant of Take: the sessions are copied out of active_sessions_ and stay there.
TakeCopies(w) ==
    LET mine == {c \in pool : active[c]} IN
    /\ workerPc[w] = "take"
    /\ held' = [held EXCEPT ![w] = mine]
    /\ todo' = [todo EXCEPT ![w] = mine]
    /\ workerPc' = [workerPc EXCEPT ![w] = "serve"]
    /\ UNCHANGED <<workerFrame, pool, serving, connVars, crashed>>

\* Every active session moves from active_sessions_ to the worker's list.
Take(w) ==
    LET mine == {c \in pool : active[c]} IN
    /\ workerPc[w] = "take"
    /\ held' = [held EXCEPT ![w] = mine]
    /\ todo' = [todo EXCEPT ![w] = mine]
    /\ pool' = pool \ mine
    /\ workerPc' = [workerPc EXCEPT ![w] = "serve"]
    /\ UNCHANGED <<workerFrame, serving, connVars, crashed>>

\* The worker enters processRequest of its next session; it is stuck there until the
\* client has sent something or is gone.
Enter(w, c) ==
    /\ workerPc[w] = "serve" /\ serving[w] = NoConn
    /\ c \in todo[w]
    /\ todo' = [todo EXCEPT ![w] = @ \ {c}]
    /\ serving' = [serving EXCEPT ![w] = c]
    /\ UNCHANGED <<workerFrame, workerPc, held, connVars, pool, crashed>>

InRequest(w) == workerPc[w] = "serve" /\ serving[w] # NoConn
Leave(w) == serving' = [serving EXCEPT ![w] = NoConn]

\* processRequest returns true.
Served(w) ==
    /\ InRequest(w) /\ Leave(w)
    /\ UNCHANGED <<workerFrame, workerPc, held, todo, connVars, pool, crashed>>

\* processRequest returns false or throws with active_ still set: close().
ServeFails(w) ==
    /\ InRequest(w) /\ Leave(w)
    /\ fd' = [fd EXCEPT ![serving[w]] = "closed"]
    /\ active' = [active EXCEPT ![serving[w]] = FALSE]
    /\ UNCHANGED <<workerFrame, workerPc, held, todo, pool, crashed>>

\* Mutant of ServeEof: the end of the stream is taken for an empty request.
EofIsServed(w) ==
    /\ InRequest(w) /\ Leave(w)
    /\ UNCHANGED <<workerFrame, workerPc, held, todo, connVars, pool, crashed>>

\* The read found the end or an error: processRequest has cleared active_, and the
\* close() that follows closes only a TLS session; a plain descriptor is left open.
ServeEof(w) ==
    /\ InRequest(w) /\ Leave(w)
    /\ active' = [active EXCEPT ![serving[w]] = FALSE]
    /\ fd' = [fd EXCEPT ![serving[w]] = IF Tls THEN "closed" ELSE "left"]
    /\ UNCHANGED <<workerFrame, workerPc, held, todo, pool, crashed>>

\* A lookup in the dangling module map, or a send that raises SIGPIPE.
ServeCrashes(w) ==
    /\ InRequest(w)
    /\ crashed' = TRUE
    /\ UNCHANGED <<workerFrame, workerVars, connVars, pool>>

ServedAll(w) ==
    /\ workerPc[w] = "serve" /\ todo[w] = {} /\ serving[w] = NoConn
    /\ workerPc' = [workerPc EXCEPT ![w] = "return"]
    /\ UNCHANGED <<workerFrame, held, todo, serving, connVars, pool, crashed>>

\* Mutant of GiveBack: closed sessions go back too.
GiveBackAll(w) ==
    /\ workerPc[w] = "return"
    /\ pool' = pool \cup held[w]
    /\ held' = [held EXCEPT ![w] = {}]
    /\ workerPc' = [workerPc EXCEPT ![w] = "loop"]
    /\ UNCHANGED <<workerFrame, todo, serving, connVars, crashed>>

\* Sessions that are still active go back; the others are destroyed with the list.
GiveBack(w) ==
    /\ workerPc[w] = "return"
    /\ pool' = pool \cup {c \in held[w] : active[c]}
    /\ CloseAll({c \in held[w] : ~active[c]})
    /\ held' = [held EXCEPT ![w] = {}]
    /\ workerPc' = [workerPc EXCEPT ![w] = "loop"]
    /\ UNCHANGED <<workerFrame, todo, serving, crashed>>

WorkerStep(w) ==
    \/ WorkerLoop(w) \/ Take(w) \/ (\E c \in Conns : Enter(w, c))
    \/ Served(w) \/ ServeFails(w) \/ ServeEof(w) \/ ServeCrashes(w)
    \/ ServedAll(w) \/ GiveBack(w)

----------------------------------------------------------------------------
\* A TLS handshake, or the close_notify of a TLS session at shutdown, is written to a
\* client that has reset the connection: SIGPIPE.
KilledByTlsWrite ==
    /\ Tls
    /\ \/ acceptPc = "create" /\ incoming \in gone
       \/ At("closeSessions") /\ pool \cap gone # {}
    /\ crashed' = TRUE
    /\ UNCHANGED <<mainVars, flagVars, acceptVars, workerVars, connVars, pool,
                   monitorPc, gone>>

\* Mutant of MonitorWakes: the loop never looks at the flags again.
MonitorStays ==
    /\ monitorPc = "sleeping"
    /\ UNCHANGED vars

\* configMonitorLoop.  hasChanged() is never true (nothing sets has_changed_), so the
\* thread only sleeps and looks at the flags.
MonitorWakes ==
    /\ monitorPc = "sleeping"
    /\ monitorPc' = IF running /\ ~shutdown THEN "sleeping" ELSE "exited"
    /\ UNCHANGED <<mainVars, flagVars, acceptVars, workerVars, connVars, pool, gone,
                   crashed>>

\* The clients.
Connect(c) ==
    /\ fd[c] = "none" /\ listening
    /\ fd' = [fd EXCEPT ![c] = "backlog"]
    /\ UNCHANGED <<mainVars, flagVars, acceptVars, workerVars, active, pool,
                   monitorPc, gone, crashed>>

ClientLeaves(c) ==
    /\ fd[c] \in {"backlog", "open"}
    /\ c \notin gone
    /\ gone' = gone \cup {c}
    /\ UNCHANGED <<mainVars, flagVars, acceptVars, workerVars, connVars, pool,
                   monitorPc, crashed>>

MainThread ==
    \/ StartFailsEarly \/ StartFailsLate \/ StartAccept
    \/ \E w \in Workers : StartWorker(w)
    \/ StartMonitor \/ LeaveLoop \/ Exit \/ Stop

Over == crashed \/ mainPc \in {"exit", "failed"}

Next ==
    \/ /\ ~Over
       /\ \/ MainThread \/ Signal
          \/ AcceptThread \/ MonitorWakes \/ KilledByTlsWrite
          \/ \E w \in Workers : WorkerStep(w)
          \/ \E c \in Conns : Connect(c) \/ ClientLeaves(c)
    \/ Over /\ UNCHANGED vars

Spec == Init /\ [][Next]_vars

----------------------------------------------------------------------------
\* Fairness.  The threads run; a step that waits for a client is owed only when that
\* client is gone, and then processRequest returns true only finitely often (every such
\* call brings the session nearer to its end: GoneClientCostsLess of module Session).

Waiting == acceptPc = "create" /\ Tls /\ incoming \notin gone

ServeGone(c) ==
    \E w \in Workers : serving[w] = c /\ c \in gone
                        /\ (ServeFails(w) \/ ServeEof(w) \/ ServeCrashes(w))

ThreadsRun ==
    /\ WF_vars(~Over /\ MainThread)
    /\ WF_vars(~Over /\ ~Waiting /\ AcceptThread)
    /\ WF_vars(~Over /\ MonitorWakes)
    /\ \A w \in Workers :
          WF_vars(~Over /\ ~InRequest(w) /\ WorkerStep(w))
    /\ \A c \in Conns : SF_vars(~Over /\ ServeGone(c))

FairSpec == Spec /\ ThreadsRun

\* What the daemon cannot enforce itself: every client leaves some day.
ClientsLeave == \A c \in Conns : WF_vars(~Over /\ ClientLeaves(c))

FairClientsSpec == FairSpec /\ ClientsLeave

----------------------------------------------------------------------------
Live == pool \cup UNION {held[w] : w \in Workers}

\* A call of stop(), however deeply nested, is at one of these places.
InStop(pcs) == \E i \in 1..Len(frames) : frames[i] \in pcs
Cleaning == InStop({"cleanup"})
WorkersJoined == InStop({"closeSessions", "cleanup", "unload"})
AcceptJoined ==
    InStop({"joinMonitor", "joinWorkers", "closeSessions", "cleanup", "unload"})

\* A session moves between the accept thread, the pool and the workers' lists under
\* two separate critical sections of workerLoop, yet no two of them ever have it.
OneOwner ==
    /\ incoming \notin Live
    /\ \A w \in Workers : held[w] \cap pool = {}
    /\ \A v, w \in Workers : v # w => held[v] \cap held[w] = {}

\* No session is served, or waits to be served, once it was closed or gave up; only
\* between closeSessions and cleanupSessions does the pool hold closed sessions.
OnlyOpenSessionsServed ==
    /\ \A c \in pool : Cleaning \/ (active[c] /\ fd[c] = "open")
    /\ \A w \in Workers : \A c \in todo[w] \cup ({serving[w]} \ {NoConn}) :
          c \in held[w] /\ active[c] /\ fd[c] = "open"

\* stop() touches the sessions only when no thread can touch them any more, also when
\* a signal made stop() run inside stop().
ShutdownAlone ==
    WorkersJoined =>
        /\ acceptPc \in {"none", "exited", "joined"}
        /\ \A w \in Workers : workerPc[w] \in {"none", "exited", "joined"}
        /\ incoming = NoConn
        /\ \A w \in Workers : held[w] = {}

\* What a thread owns fits the place it is at: the accept thread has a connection
\* exactly while it decides about it, a worker has sessions only between its two
\* critical sections, every session was accepted, and only open ones are active.
OwnersAtWork ==
    /\ incoming # NoConn <=> acceptPc \in {"gate", "cap", "create", "push"}
    /\ incoming # NoConn =>
          fd[incoming] = "open" /\ (active[incoming] <=> acceptPc = "push")
    /\ \A w \in Workers :
          /\ held[w] # {} => workerPc[w] \in {"serve", "return"}
          /\ todo[w] # {} => workerPc[w] = "serve"
          /\ serving[w] # NoConn => workerPc[w] = "serve" /\ serving[w] \notin todo[w]
    /\ \A c \in Live : fd[c] \in {"open", "closed", "left"}
    /\ \A c \in Conns : active[c] => fd[c] = "open"
    /\ AcceptJoined => acceptPc \in {"none", "exited", "joined"}
    /\ mainPc = "init" => acceptPc = "none"

Joinable == {"loop", "accept", "gate", "cap", "create", "push", "take", "serve",
             "return", "sleeping", "exited"}

\* "Signal handler for graceful shutdown" (main.cpp:43): when the process exits, every
\* thread has been joined (a joinable std::thread would terminate it), the listening
\* socket is closed and no session is left.
CleanExit ==
    mainPc = "exit" =>
        /\ acceptPc \notin Joinable
        /\ monitorPc \notin Joinable
        /\ \A w \in Workers : workerPc[w] \notin Joinable
        /\ ~listening /\ Live = {}

\* At a clean exit every connection that was made has been closed, by a worker, by
\* stop(), by a destructor, by the accept thread or with the listening socket; the only
\* descriptors never closed are those of plain sessions whose read had found the end of
\* the stream or an error (session.cpp:117 clears active_ before close() looks at it).
ExitLeaksOnlyEof ==
    mainPc = "exit" =>
        \A c \in Conns : \/ fd[c] \in {"none", "closed"}
                         \/ fd[c] = "left" /\ ~Tls

\* A shutdown request ends the process (as long as every client leaves some day).
StopTerminates == flag ~> Over

\* A session whose client has gone is dropped, though the worker serves its whole list
\* in turn and may sit in a read of a silent client ahead of it (daemon.cpp:393).  As in
\* StopTerminates this rests on every client leaving some day: one that stays silent for
\* ever holds up all the sessions behind it.
GoneClientIsDropped ==
    \A c \in Conns : c \in gone /\ c \in Live ~> c \notin Live \/ Over

\* Ownership as the abstract specification sees it, from the pool p, the workers' lists
\* h, the accept thread's connection i and the descriptors f.
OwnerIn(c, p, h, i, f) ==
    IF c \in p THEN "pool"
    ELSE IF \E w \in Workers : c \in h[w] THEN CHOOSE w \in Workers : c \in h[w]
    ELSE IF i = c THEN "accept"
    ELSE IF f[c] \in {"none", "backlog"} THEN "client"
    ELSE "gone"

owner == [c \in Conns |-> OwnerIn(c, pool, held, incoming, fd)]

C == INSTANCE Connections WITH owner <- owner

\* The daemon implements Connections.
ImplementsConnections == C!Spec
=============================================================================
