---------------------------- MODULE DaemonProofs ----------------------------
(***************************************************************************)
(* Proofs about Daemon, for any set of connections, any set of workers and *)
(* any number of signals: signals during start() included, except for what *)
(* is said about the exit of the process, which such a signal can spoil.   *)
(***************************************************************************)
EXTENDS Daemon, TLAPS

IInv ==
    /\ TypeOK
    /\ OneOwner
    /\ OnlyOpenSessionsServed
    /\ ShutdownAlone
    /\ OwnersAtWork

----------------------------------------------------------------------------
\* The stack of stop() calls: what it holds after a call, a step and a return.

LEMMA FramesGoto ==
    ASSUME NEW S, NEW s \in Seq(S), s # <<>>, NEW x \in S,
           NEW t, t = [s EXCEPT ![1] = x]
    PROVE  /\ t \in Seq(S)
           /\ Len(t) = Len(s)
           /\ 1 \in 1..Len(s)
           /\ t[1] = x
           /\ \A i \in 2..Len(s) : t[i] = s[i]
OBVIOUS

LEMMA FramesReturn ==
    ASSUME NEW S, NEW s \in Seq(S), s # <<>>, NEW t, t = Tail(s)
    PROVE  /\ t \in Seq(S)
           /\ Len(t) = Len(s) - 1
           /\ Len(s) \in Nat \ {0}
           /\ \A i \in 1..Len(t) : i + 1 \in 2..Len(s) /\ t[i] = s[i + 1]
OBVIOUS

LEMMA FramesCall ==
    ASSUME NEW S, NEW s \in Seq(S), NEW x \in S, NEW t, t = <<x>> \o s
    PROVE  /\ t \in Seq(S)
           /\ Len(t) = Len(s) + 1
           /\ t[1] = x
           /\ \A i \in 1..Len(s) : t[i + 1] = s[i]
OBVIOUS

LEMMA AfterGoto ==
    ASSUME frames \in Seq(StopPcs), NEW pc, At(pc), NEW x \in StopPcs, Goto(x)
    PROVE  /\ frames' \in Seq(StopPcs)
           /\ \A P : InStop(P)' => InStop(P) \/ x \in P
           /\ \A P : InStop(P) => InStop(P)' \/ pc \in P
<1>1. /\ frames # <<>> /\ frames[1] = pc
      /\ frames' = [frames EXCEPT ![1] = x]
  BY DEF At, Goto
<1>2. /\ frames' \in Seq(StopPcs)
      /\ Len(frames') = Len(frames) /\ 1 \in 1..Len(frames)
      /\ frames'[1] = x
      /\ \A i \in 2..Len(frames) : frames'[i] = frames[i]
  BY <1>1, FramesGoto
<1>3. \A i \in 1..Len(frames) : i = 1 \/ i \in 2..Len(frames)
  BY <1>2
<1>4. ASSUME NEW P, InStop(P)'
      PROVE  InStop(P) \/ x \in P
  BY <1>2, <1>3, <1>4 DEF InStop
<1>5. ASSUME NEW P, InStop(P)
      PROVE  InStop(P)' \/ pc \in P
  BY <1>1, <1>2, <1>3, <1>5 DEF InStop
<1> QED
  BY <1>2, <1>4, <1>5

LEMMA AfterReturn ==
    ASSUME frames \in Seq(StopPcs), NEW pc, At(pc), Return
    PROVE  /\ frames' \in Seq(StopPcs)
           /\ \A P : InStop(P)' => InStop(P)
           /\ \A P : InStop(P) => InStop(P)' \/ pc \in P
<1>1. /\ frames # <<>> /\ frames[1] = pc
      /\ frames' = Tail(frames)
  BY DEF At, Return
<1>2. /\ frames' \in Seq(StopPcs)
      /\ Len(frames') = Len(frames) - 1 /\ Len(frames) \in Nat \ {0}
      /\ \A i \in 1..Len(frames') : i + 1 \in 2..Len(frames) /\ frames'[i] = frames[i + 1]
  BY <1>1, FramesReturn
<1>3. ASSUME NEW P, InStop(P)'
      PROVE  InStop(P)
  <2>1. PICK i \in 1..Len(frames') : frames'[i] \in P
    BY <1>3 DEF InStop
  <2>2. i + 1 \in 1..Len(frames) /\ frames[i + 1] \in P
    BY <1>2, <2>1
  <2> QED
    BY <2>2 DEF InStop
<1>4. ASSUME NEW P, InStop(P)
      PROVE  InStop(P)' \/ pc \in P
  <2>1. PICK i \in 1..Len(frames) : frames[i] \in P
    BY <1>4 DEF InStop
  <2>2. CASE i = 1
    BY <1>1, <2>1, <2>2
  <2>3. CASE i # 1
    <3>1. i - 1 \in 1..Len(frames') /\ frames'[i - 1] = frames[i]
      BY <1>2, <2>3
    <3> QED
      BY <2>1, <3>1 DEF InStop
  <2> QED
    BY <2>2, <2>3
<1> QED
  BY <1>2, <1>3, <1>4

LEMMA AfterCall ==
    ASSUME frames \in Seq(StopPcs), frames' = <<"check">> \o frames
    PROVE  /\ frames' \in Seq(StopPcs)
           /\ \A P : InStop(P)' => InStop(P) \/ "check" \in P
           /\ \A P : InStop(P) => InStop(P)'
<1>1. /\ frames' \in Seq(StopPcs)
      /\ Len(frames') = Len(frames) + 1 /\ Len(frames) \in Nat
      /\ frames'[1] = "check"
      /\ \A i \in 1..Len(frames) : frames'[i + 1] = frames[i]
  <2>1. "check" \in StopPcs
    BY DEF StopPcs
  <2> QED
    BY <2>1, FramesCall
<1>2. ASSUME NEW P, InStop(P)'
      PROVE  InStop(P) \/ "check" \in P
  <2>1. PICK i \in 1..Len(frames') : frames'[i] \in P
    BY <1>2 DEF InStop
  <2>2. CASE i = 1
    BY <1>1, <2>1, <2>2
  <2>3. CASE i # 1
    <3>1. i - 1 \in 1..Len(frames) /\ frames'[i] = frames[i - 1]
      BY <1>1, <2>3
    <3> QED
      BY <2>1, <3>1 DEF InStop
  <2> QED
    BY <2>2, <2>3
<1>3. ASSUME NEW P, InStop(P)
      PROVE  InStop(P)'
  BY <1>1, <1>3 DEF InStop
<1> QED
  BY <1>1, <1>2, <1>3

LEMMA SameFrames ==
    ASSUME frames' = frames
    PROVE  Cleaning' = Cleaning /\ WorkersJoined' = WorkersJoined /\ AcceptJoined' = AcceptJoined
BY DEF InStop, Cleaning, WorkersJoined, AcceptJoined

LEMMA NoFrames ==
    ASSUME frames = <<>>
    PROVE  ~Cleaning /\ ~WorkersJoined /\ ~AcceptJoined
BY DEF InStop, Cleaning, WorkersJoined, AcceptJoined

----------------------------------------------------------------------------
\* Every step preserves IInv.

LEMMA InitHolds == Init => IInv
<1> SUFFICES ASSUME Init PROVE IInv
  OBVIOUS
<1>1. ~Cleaning /\ ~WorkersJoined /\ ~AcceptJoined
  BY NoFrames DEF Init
<1>2. TypeOK
  <2>1. frames \in Seq(StopPcs)
    BY DEF Init
  <2>2. signals \in 0..MaxSignals
    BY DaemonConstants DEF Init
  <2> QED
    BY <2>1, <2>2 DEF Init, TypeOK, AcceptPcs, WorkerPcs
<1>3. OneOwner
  BY DaemonConstants DEF Init, OneOwner, Live
<1>4. OnlyOpenSessionsServed /\ ShutdownAlone
  BY <1>1 DEF Init, OnlyOpenSessionsServed, ShutdownAlone
<1>5. OwnersAtWork
  BY <1>1 DEF Init, OwnersAtWork, Live
<1> QED
  BY <1>2, <1>3, <1>4, <1>5 DEF IInv

\* A step that leaves sessions and threads alone, and moves no call of stop() past a
\* join or out of cleanupSessions, leaves the session part of IInv alone.
Sessions == <<pool, held, todo, serving, workerPc, incoming, acceptPc, fd, active>>

SessionInv == OneOwner /\ OnlyOpenSessionsServed /\ ShutdownAlone /\ OwnersAtWork

LEMMA SessionsUntouched ==
    ASSUME SessionInv, UNCHANGED Sessions,
           mainPc' = "init" => mainPc = "init",
           Cleaning => Cleaning',
           WorkersJoined' => WorkersJoined,
           AcceptJoined' => AcceptJoined
    PROVE  SessionInv'
<1> USE DEF Sessions
<1>1. OneOwner'
  BY DEF SessionInv, OneOwner, Live
<1>2. OnlyOpenSessionsServed'
  BY DEF SessionInv, OnlyOpenSessionsServed
<1>3. ShutdownAlone'
  BY DEF SessionInv, ShutdownAlone
<1>4. OwnersAtWork'
  BY DEF SessionInv, OwnersAtWork, Live
<1> QED
  BY <1>1, <1>2, <1>3, <1>4 DEF SessionInv

LEMMA StartPreserves ==
    ASSUME IInv,
           StartFailsEarly \/ StartFailsLate \/ StartAccept
             \/ (\E w \in Workers : StartWorker(w)) \/ StartMonitor \/ Exit
    PROVE  IInv'
<1> USE DEF flagVars, acceptVars, workerVars, connVars
<1>1. frames' = frames /\ frames = <<>>
  BY DEF StartFailsEarly, StartFailsLate, StartAccept, StartWorker, StartMonitor,
         Exit, MainIsFree
<1>2. /\ ~Cleaning /\ ~WorkersJoined /\ ~AcceptJoined
      /\ ~Cleaning' /\ ~WorkersJoined' /\ ~AcceptJoined'
  BY <1>1, NoFrames, SameFrames
<1>3. TypeOK /\ SessionInv
  BY DEF IInv, SessionInv
<1>4. CASE StartFailsEarly \/ StartFailsLate \/ StartMonitor \/ Exit
  <2>1. TypeOK'
    BY <1>3, <1>4 DEF StartFailsEarly, StartFailsLate, StartMonitor, Exit, TypeOK
  <2>2. UNCHANGED Sessions /\ mainPc' # "init"
    BY <1>4 DEF StartFailsEarly, StartFailsLate, StartMonitor, Exit, Sessions
  <2> QED
    BY <1>2, <1>3, <2>1, <2>2, SessionsUntouched DEF IInv, SessionInv
<1>5. CASE StartAccept
  <2>1. TypeOK'
    BY <1>3, <1>5 DEF StartAccept, TypeOK, AcceptPcs
  <2>2. OneOwner'
    BY <1>3, <1>5 DEF StartAccept, SessionInv, OneOwner, Live
  <2>3. OnlyOpenSessionsServed' /\ ShutdownAlone'
    BY <1>2, <1>3, <1>5
       DEF StartAccept, SessionInv, OnlyOpenSessionsServed, ShutdownAlone
  <2>4. OwnersAtWork'
    BY <1>2, <1>3, <1>5 DEF StartAccept, SessionInv, OwnersAtWork, Live
  <2> QED
    BY <2>1, <2>2, <2>3, <2>4 DEF IInv
<1>6. CASE \E w \in Workers : StartWorker(w)
  <2>0. PICK w \in Workers : StartWorker(w)
    BY <1>6
  <2>1. TypeOK'
    BY <1>3, <2>0 DEF StartWorker, TypeOK, WorkerPcs
  <2>2. OneOwner'
    BY <1>3, <2>0 DEF StartWorker, SessionInv, OneOwner, Live
  <2>3. OnlyOpenSessionsServed' /\ ShutdownAlone'
    BY <1>2, <1>3, <2>0
       DEF StartWorker, SessionInv, OnlyOpenSessionsServed, ShutdownAlone
  <2>4. OwnersAtWork'
    BY <1>2, <1>3, <2>0 DEF StartWorker, SessionInv, OwnersAtWork, Live, TypeOK
  <2> QED
    BY <2>1, <2>2, <2>3, <2>4 DEF IInv
<1> QED
  BY <1>4, <1>5, <1>6

\* Calls of stop().
LEMMA CallPreserves ==
    ASSUME IInv, LeaveLoop \/ Signal
    PROVE  IInv'
<1> USE DEF flagVars, acceptVars, workerVars, connVars
<1>1. TypeOK /\ SessionInv
  BY DEF IInv, SessionInv
<1>2. frames' = <<"check">> \o frames
  <2>1. CASE Signal
    BY <2>1 DEF Signal
  <2>2. CASE LeaveLoop
    <3>1. frames = <<>> /\ frames' = <<"check">>
      BY <2>2 DEF LeaveLoop, MainIsFree
    <3> QED
      BY <3>1
  <2> QED
    BY <2>1, <2>2
<1>3. /\ frames' \in Seq(StopPcs)
      /\ \A P : InStop(P)' => InStop(P) \/ "check" \in P
      /\ \A P : InStop(P) => InStop(P)'
  BY <1>1, <1>2, AfterCall DEF TypeOK
<1>4. /\ Cleaning => Cleaning'
      /\ WorkersJoined' => WorkersJoined
      /\ AcceptJoined' => AcceptJoined
  BY <1>3 DEF Cleaning, WorkersJoined, AcceptJoined
<1>5. TypeOK'
  <2>1. CASE LeaveLoop
    BY <1>1, <1>3, <2>1 DEF LeaveLoop, TypeOK
  <2>2. CASE Signal
    <3>1. signals' \in 0..MaxSignals
      BY <1>1, <2>2, DaemonConstants DEF Signal, TypeOK
    <3> QED
      BY <1>1, <1>3, <2>2, <3>1 DEF Signal, TypeOK
  <2> QED
    BY <2>1, <2>2
<1>6. UNCHANGED Sessions /\ (mainPc' = "init" => mainPc = "init")
  BY DEF LeaveLoop, Signal, Sessions
<1> QED
  BY <1>1, <1>4, <1>5, <1>6, SessionsUntouched DEF IInv, SessionInv

\* The steps of stop() that leave sessions and threads alone.
LEMMA StopPreserves ==
    ASSUME IInv,
           StopCheck \/ StopSetShutdown \/ StopSetRunning \/ StopJoinMonitor \/ StopUnload
    PROVE  IInv'
<1> USE DEF flagVars, acceptVars, workerVars, connVars
<1>1. TypeOK /\ SessionInv
  BY DEF IInv, SessionInv
<1>2. frames \in Seq(StopPcs)
  BY <1>1 DEF TypeOK
<1>3. /\ frames' \in Seq(StopPcs)
      /\ Cleaning => Cleaning'
      /\ WorkersJoined' => WorkersJoined
      /\ AcceptJoined' => AcceptJoined
  <2>1. CASE StopCheck \/ StopUnload
    <3>1. PICK pc \in {"check", "unload"} : At(pc) /\ (Return \/ (pc = "check" /\ Goto("setShutdown")))
      BY <2>1 DEF StopCheck, StopUnload
    <3>2. CASE Return
      BY <1>2, <3>1, <3>2, AfterReturn DEF Cleaning, WorkersJoined, AcceptJoined
    <3>3. CASE Goto("setShutdown") /\ pc = "check"
      <4>1. "setShutdown" \in StopPcs
        BY DEF StopPcs
      <4> QED
        BY <1>2, <3>1, <3>3, <4>1, AfterGoto DEF Cleaning, WorkersJoined, AcceptJoined
    <3> QED
      BY <3>1, <3>2, <3>3
  <2>2. CASE StopSetShutdown
    <3>1. "setRunning" \in StopPcs
      BY DEF StopPcs
    <3> QED
      BY <1>2, <2>2, <3>1, AfterGoto
         DEF StopSetShutdown, Cleaning, WorkersJoined, AcceptJoined
  <2>3. CASE StopSetRunning
    <3>1. "closeListen" \in StopPcs
      BY DEF StopPcs
    <3> QED
      BY <1>2, <2>3, <3>1, AfterGoto
         DEF StopSetRunning, Cleaning, WorkersJoined, AcceptJoined
  <2>4. CASE StopJoinMonitor
    <3>1. "joinWorkers" \in StopPcs
      BY DEF StopPcs
    <3>2. AcceptJoined
      BY <1>2, <2>4 DEF StopJoinMonitor, At, AcceptJoined, InStop
    <3> QED
      BY <1>2, <2>4, <3>1, <3>2, AfterGoto
         DEF StopJoinMonitor, Cleaning, WorkersJoined, AcceptJoined
  <2> QED
    BY <2>1, <2>2, <2>3, <2>4
<1>4. TypeOK'
  <2>1. CASE StopCheck
    BY <1>1, <1>3, <2>1 DEF StopCheck, TypeOK
  <2>2. CASE StopSetShutdown
    BY <1>1, <1>3, <2>2 DEF StopSetShutdown, TypeOK
  <2>3. CASE StopSetRunning
    BY <1>1, <1>3, <2>3 DEF StopSetRunning, TypeOK
  <2>4. CASE StopJoinMonitor
    BY <1>1, <1>3, <2>4 DEF StopJoinMonitor, Joined, TypeOK
  <2>5. CASE StopUnload
    <3>1. modules' \in BOOLEAN
      BY <2>5 DEF StopUnload
    <3> QED
      BY <1>1, <1>3, <2>5, <3>1 DEF StopUnload, TypeOK
  <2> QED
    BY <2>1, <2>2, <2>3, <2>4, <2>5
<1>5. UNCHANGED Sessions /\ mainPc' = mainPc
  BY DEF StopCheck, StopSetShutdown, StopSetRunning, StopJoinMonitor, StopUnload,
         Sessions
<1> QED
  BY <1>1, <1>3, <1>4, <1>5, SessionsUntouched DEF IInv, SessionInv

\* The steps of stop() that change connections, threads or the pool.

LEMMA StopCloseListenPreserves ==
    ASSUME IInv, StopCloseListen
    PROVE  IInv'
<1> USE DEF flagVars, acceptVars, workerVars, connVars
<1>1. TypeOK /\ SessionInv
  BY DEF IInv, SessionInv
<1>2. /\ frames' \in Seq(StopPcs)
      /\ Cleaning => Cleaning'
      /\ WorkersJoined' => WorkersJoined
      /\ AcceptJoined' => AcceptJoined
  <2>1. "joinAccept" \in StopPcs /\ frames \in Seq(StopPcs)
    BY <1>1 DEF StopPcs, TypeOK
  <2> QED
    BY <2>1, AfterGoto DEF StopCloseListen, Cleaning, WorkersJoined, AcceptJoined
<1>3. TypeOK'
  BY <1>1, <1>2 DEF StopCloseListen, TypeOK
<1>4. \A c \in Conns : fd[c] # "backlog" => fd'[c] = fd[c]
  BY DEF StopCloseListen
<1>5. OneOwner'
  BY <1>1 DEF StopCloseListen, SessionInv, OneOwner, Live
<1>6. OnlyOpenSessionsServed'
  BY <1>1, <1>2, <1>4 DEF StopCloseListen, SessionInv, OnlyOpenSessionsServed, TypeOK
<1>7. ShutdownAlone'
  BY <1>1, <1>2 DEF StopCloseListen, SessionInv, ShutdownAlone
<1>8. OwnersAtWork'
  BY <1>1, <1>2, <1>4 DEF StopCloseListen, SessionInv, OwnersAtWork, Live, TypeOK
<1> QED
  BY <1>3, <1>5, <1>6, <1>7, <1>8 DEF IInv

LEMMA StopJoinAcceptPreserves ==
    ASSUME IInv, StopJoinAccept
    PROVE  IInv'
<1> USE DEF flagVars, acceptVars, workerVars, connVars
<1>1. TypeOK /\ SessionInv
  BY DEF IInv, SessionInv
<1>2. /\ frames' \in Seq(StopPcs)
      /\ Cleaning => Cleaning'
      /\ WorkersJoined' => WorkersJoined
  <2>1. "joinMonitor" \in StopPcs /\ frames \in Seq(StopPcs)
    BY <1>1 DEF StopPcs, TypeOK
  <2> QED
    BY <2>1, AfterGoto DEF StopJoinAccept, Cleaning, WorkersJoined
<1>3. TypeOK'
  BY <1>1, <1>2 DEF StopJoinAccept, Joined, TypeOK, AcceptPcs
<1>4. OneOwner'
  BY <1>1 DEF StopJoinAccept, SessionInv, OneOwner, Live
<1>5. OnlyOpenSessionsServed'
  BY <1>1, <1>2 DEF StopJoinAccept, SessionInv, OnlyOpenSessionsServed
<1>6. ShutdownAlone'
  BY <1>1, <1>2 DEF StopJoinAccept, Joined, SessionInv, ShutdownAlone
<1>7. OwnersAtWork'
  BY <1>1, <1>2 DEF StopJoinAccept, Joined, SessionInv, OwnersAtWork, Live
<1> QED
  BY <1>3, <1>4, <1>5, <1>6, <1>7 DEF IInv

LEMMA StopJoinWorkersPreserves ==
    ASSUME IInv, StopJoinWorkers
    PROVE  IInv'
<1> USE DEF flagVars, acceptVars, workerVars, connVars
<1>1. TypeOK /\ SessionInv
  BY DEF IInv, SessionInv
<1>2. AcceptJoined
  BY <1>1 DEF StopJoinWorkers, At, AcceptJoined, InStop, TypeOK
<1>3. /\ frames' \in Seq(StopPcs)
      /\ Cleaning => Cleaning'
  <2>1. "closeSessions" \in StopPcs /\ frames \in Seq(StopPcs)
    BY <1>1 DEF StopPcs, TypeOK
  <2> QED
    BY <2>1, AfterGoto DEF StopJoinWorkers, Cleaning
<1>4. TypeOK'
  BY <1>1, <1>3 DEF StopJoinWorkers, Joined, TypeOK, WorkerPcs
<1>5. \A w \in Workers : workerPc'[w] \in {"none", "exited", "joined"} /\ held'[w] = {}
                         /\ todo'[w] = {} /\ serving'[w] = NoConn
  BY <1>1 DEF StopJoinWorkers, Joined, SessionInv, OwnersAtWork
<1>6. OneOwner'
  BY <1>1 DEF StopJoinWorkers, SessionInv, OneOwner, Live
<1>7. OnlyOpenSessionsServed'
  BY <1>1, <1>3, <1>5 DEF StopJoinWorkers, SessionInv, OnlyOpenSessionsServed
<1>8. ShutdownAlone'
  BY <1>1, <1>2, <1>5 DEF StopJoinWorkers, SessionInv, ShutdownAlone, OwnersAtWork
<1>9. OwnersAtWork'
  BY <1>1, <1>2, <1>5 DEF StopJoinWorkers, SessionInv, OwnersAtWork, Live
<1> QED
  BY <1>4, <1>6, <1>7, <1>8, <1>9 DEF IInv

\* What close() leaves of the sessions of cs and of the others.
LEMMA CloseAllMeans ==
    ASSUME TypeOK, NEW cs, CloseAll(cs)
    PROVE  /\ fd' \in [Conns -> {"none", "backlog", "open", "closed", "left"}]
           /\ active' \in [Conns -> BOOLEAN]
           /\ \A c \in Conns : active'[c] <=> active[c] /\ c \notin cs
           /\ \A c \in Conns : \/ fd'[c] = fd[c] /\ (c \in cs => ~active[c] /\ ~Tls)
                               \/ c \in cs /\ fd'[c] = "closed"
BY DEF TypeOK, CloseAll

LEMMA StopCloseSessionsPreserves ==
    ASSUME IInv, StopCloseSessions
    PROVE  IInv'
<1> USE DEF flagVars, acceptVars, workerVars, connVars
<1>1. TypeOK /\ SessionInv
  BY DEF IInv, SessionInv
<1>2. WorkersJoined /\ AcceptJoined
  BY <1>1 DEF StopCloseSessions, At, WorkersJoined, AcceptJoined, InStop, TypeOK
<1>3. frames' \in Seq(StopPcs) /\ Cleaning'
  <2>1. "cleanup" \in StopPcs /\ frames \in Seq(StopPcs)
    BY <1>1 DEF StopPcs, TypeOK
  <2>2. frames' \in Seq(StopPcs)
    BY <2>1, AfterGoto DEF StopCloseSessions
  <2>3. 1 \in 1..Len(frames') /\ frames'[1] = "cleanup"
    BY <2>1 DEF StopCloseSessions, At, Goto
  <2> QED
    BY <2>2, <2>3 DEF Cleaning, InStop
<1>0. /\ CloseAll(pool)
      /\ UNCHANGED <<mainPc, flag, signals, flagVars, acceptVars, workerVars, pool,
                     monitorPc, gone, crashed>>
  BY DEF StopCloseSessions
<1>c. /\ fd' \in [Conns -> {"none", "backlog", "open", "closed", "left"}]
      /\ active' \in [Conns -> BOOLEAN]
      /\ \A c \in Conns : active'[c] <=> active[c] /\ c \notin pool
      /\ \A c \in Conns : \/ fd'[c] = fd[c] /\ (c \in pool => ~active[c] /\ ~Tls)
                          \/ c \in pool /\ fd'[c] = "closed"
  BY <1>0, <1>1, CloseAllMeans
<1>4. TypeOK'
  BY <1>0, <1>1, <1>3, <1>c DEF TypeOK
<1>5. /\ incoming = NoConn
      /\ \A w \in Workers : held[w] = {} /\ todo[w] = {} /\ serving[w] = NoConn
      /\ \A w \in Workers : workerPc[w] \in {"none", "exited", "joined"}
  BY <1>1, <1>2 DEF SessionInv, ShutdownAlone, OwnersAtWork
<1>6. OneOwner'
  BY <1>1 DEF StopCloseSessions, SessionInv, OneOwner, Live
<1>7. OnlyOpenSessionsServed'
  BY <1>3, <1>5 DEF StopCloseSessions, OnlyOpenSessionsServed
<1>8. ShutdownAlone'
  BY <1>1, <1>2, <1>5 DEF StopCloseSessions, SessionInv, ShutdownAlone
<1>9. OwnersAtWork'
  <2>1. Live' = pool /\ Live = pool
    BY <1>5 DEF StopCloseSessions, Live
  <2>2. \A c \in pool : fd'[c] \in {"open", "closed", "left"}
    BY <1>1, <1>c, <2>1 DEF SessionInv, OwnersAtWork, TypeOK
  <2>3. \A c \in Conns : active'[c] => fd'[c] = "open"
    BY <1>1, <1>c DEF SessionInv, OwnersAtWork, TypeOK
  <2> QED
    BY <1>1, <1>2, <1>5, <2>1, <2>2, <2>3
       DEF StopCloseSessions, SessionInv, OwnersAtWork
<1> QED
  BY <1>4, <1>6, <1>7, <1>8, <1>9 DEF IInv

LEMMA StopCleanupPreserves ==
    ASSUME IInv, StopCleanup
    PROVE  IInv'
<1> USE DEF flagVars, acceptVars, workerVars, connVars
<1>1. TypeOK /\ SessionInv
  BY DEF IInv, SessionInv
<1>2. WorkersJoined /\ AcceptJoined
  BY <1>1 DEF StopCleanup, At, WorkersJoined, AcceptJoined, InStop, TypeOK
<1>3. frames' \in Seq(StopPcs)
  <2>1. "unload" \in StopPcs /\ frames \in Seq(StopPcs)
    BY <1>1 DEF StopPcs, TypeOK
  <2> QED
    BY <2>1, AfterGoto DEF StopCleanup
<1>0. /\ CloseAll(pool) /\ pool' = {}
      /\ UNCHANGED <<mainPc, flag, signals, flagVars, acceptVars, workerVars,
                     monitorPc, gone, crashed>>
  BY DEF StopCleanup
<1>c. /\ fd' \in [Conns -> {"none", "backlog", "open", "closed", "left"}]
      /\ active' \in [Conns -> BOOLEAN]
      /\ \A c \in Conns : active'[c] <=> active[c] /\ c \notin pool
      /\ \A c \in Conns : \/ fd'[c] = fd[c] /\ (c \in pool => ~active[c] /\ ~Tls)
                          \/ c \in pool /\ fd'[c] = "closed"
  BY <1>0, <1>1, CloseAllMeans
<1>4. TypeOK'
  BY <1>0, <1>1, <1>3, <1>c DEF TypeOK
<1>9. /\ incoming = NoConn
      /\ \A w \in Workers : held[w] = {} /\ todo[w] = {} /\ serving[w] = NoConn
      /\ \A w \in Workers : workerPc[w] \in {"none", "exited", "joined"}
  BY <1>1, <1>2 DEF SessionInv, ShutdownAlone, OwnersAtWork
<1>5. OneOwner'
  BY <1>0, <1>1 DEF SessionInv, OneOwner, Live
<1>6. OnlyOpenSessionsServed'
  BY <1>0, <1>9 DEF OnlyOpenSessionsServed
<1>7. ShutdownAlone'
  BY <1>0, <1>1, <1>2 DEF SessionInv, ShutdownAlone
<1>8. OwnersAtWork'
  <2>1. Live' = {}
    BY <1>0, <1>9 DEF Live
  <2>2. \A c \in Conns : active'[c] => fd'[c] = "open"
    BY <1>1, <1>c DEF SessionInv, OwnersAtWork, TypeOK
  <2> QED
    BY <1>0, <1>1, <1>2, <1>9, <2>1, <2>2 DEF SessionInv, OwnersAtWork
<1> QED
  BY <1>4, <1>5, <1>6, <1>7, <1>8 DEF IInv

----------------------------------------------------------------------------
\* The accept thread.

LEMMA AcceptPreserves ==
    ASSUME IInv, AcceptThread
    PROVE  IInv'
<1> USE DEF flagVars, mainVars, acceptVars, workerVars, connVars, acceptFrame
<1>1. TypeOK /\ SessionInv
  BY DEF IInv, SessionInv
<1>2. frames' = frames /\ mainPc' = mainPc
  BY DEF AcceptThread, AcceptLoop, AcceptNothing, AcceptError, Accept, GateRejects,
         GatePasses, CapRejects, CapPasses, CreateSession, HandshakeFails, PushSession,
         Reject
<1>3. Cleaning' = Cleaning /\ WorkersJoined' = WorkersJoined /\ AcceptJoined' = AcceptJoined
  BY <1>2, SameFrames
<1>4. CASE AcceptLoop \/ AcceptNothing \/ AcceptError \/ GatePasses \/ CapPasses
  <2> USE DEF AcceptLoop, AcceptNothing, AcceptError, GatePasses, CapPasses
  <2>1. TypeOK'
    BY <1>1, <1>4 DEF TypeOK, AcceptPcs
  <2>2. OneOwner'
    BY <1>1, <1>4 DEF SessionInv, OneOwner, Live
  <2>3. OnlyOpenSessionsServed'
    BY <1>1, <1>3, <1>4 DEF SessionInv, OnlyOpenSessionsServed
  <2>4. ShutdownAlone'
    BY <1>1, <1>3, <1>4 DEF SessionInv, ShutdownAlone
  <2>5. OwnersAtWork'
    BY <1>1, <1>2, <1>3, <1>4 DEF SessionInv, OwnersAtWork, Live
  <2> QED
    BY <2>1, <2>2, <2>3, <2>4, <2>5 DEF IInv
<1>5. CASE \E c \in Conns : Accept(c)
  <2>0. PICK c \in Conns : Accept(c)
    BY <1>5
  <2> USE DEF Accept
  <2>1. TypeOK'
    BY <1>1, <2>0 DEF TypeOK, AcceptPcs
  <2>2. c \notin Live /\ ~active[c]
    BY <1>1, <2>0 DEF SessionInv, OwnersAtWork, TypeOK
  <2>3. OneOwner'
    BY <1>1, <2>0, <2>2 DEF SessionInv, OneOwner, Live
  <2>4. OnlyOpenSessionsServed'
    BY <1>1, <1>3, <2>0 DEF SessionInv, OnlyOpenSessionsServed, TypeOK
  <2>5. ShutdownAlone'
    BY <1>1, <1>3, <2>0 DEF SessionInv, ShutdownAlone
  <2>6. OwnersAtWork'
    BY <1>1, <1>2, <1>3, <2>0, <2>2, DaemonConstants
       DEF SessionInv, OwnersAtWork, Live, TypeOK
  <2> QED
    BY <2>1, <2>3, <2>4, <2>5, <2>6 DEF IInv
<1>6. CASE GateRejects \/ CapRejects \/ HandshakeFails
  <2>0. Reject /\ acceptPc \in {"gate", "cap", "create"}
    BY <1>6 DEF GateRejects, CapRejects, HandshakeFails
  <2> USE DEF Reject
  <2>1. TypeOK'
    BY <1>1, <2>0 DEF TypeOK, AcceptPcs
  <2>2. incoming \in Conns /\ incoming \notin Live /\ ~active[incoming]
    BY <1>1, <2>0, DaemonConstants DEF SessionInv, OneOwner, OwnersAtWork, TypeOK
  <2>3. OneOwner'
    BY <1>1, <2>0, DaemonConstants DEF SessionInv, OneOwner, Live, TypeOK
  <2>4. OnlyOpenSessionsServed'
    BY <1>1, <1>3, <2>0, <2>2 DEF SessionInv, OnlyOpenSessionsServed, Live, TypeOK
  <2>5. ShutdownAlone'
    BY <1>1, <1>3, <2>0 DEF SessionInv, ShutdownAlone
  <2>6. OwnersAtWork'
    BY <1>1, <1>2, <1>3, <2>0, <2>2 DEF SessionInv, OwnersAtWork, Live, TypeOK
  <2> QED
    BY <2>1, <2>3, <2>4, <2>5, <2>6 DEF IInv
<1>7. CASE CreateSession
  <2> USE DEF CreateSession
  <2>1. incoming \in Conns
    BY <1>1, <1>7 DEF SessionInv, OwnersAtWork, TypeOK
  <2>2. TypeOK'
    BY <1>1, <1>7, <2>1 DEF TypeOK, AcceptPcs
  <2>3. OneOwner'
    BY <1>1, <1>7 DEF SessionInv, OneOwner, Live
  <2>4. OnlyOpenSessionsServed'
    BY <1>1, <1>3, <1>7, <2>1 DEF SessionInv, OnlyOpenSessionsServed, TypeOK
  <2>5. ShutdownAlone'
    BY <1>1, <1>3, <1>7 DEF SessionInv, ShutdownAlone
  <2>6. OwnersAtWork'
    BY <1>1, <1>2, <1>3, <1>7, <2>1 DEF SessionInv, OwnersAtWork, Live, TypeOK
  <2> QED
    BY <2>2, <2>3, <2>4, <2>5, <2>6 DEF IInv
<1>8. CASE PushSession
  <2> USE DEF PushSession
  <2>1. incoming \in Conns /\ fd[incoming] = "open" /\ active[incoming]
    BY <1>1, <1>8 DEF SessionInv, OwnersAtWork, TypeOK
  <2>2. TypeOK'
    BY <1>1, <1>8, <2>1 DEF TypeOK, AcceptPcs
  <2>3. OneOwner'
    BY <1>1, <1>8, <2>1, DaemonConstants DEF SessionInv, OneOwner, Live, TypeOK
  <2>4. OnlyOpenSessionsServed'
    BY <1>1, <1>3, <1>8, <2>1 DEF SessionInv, OnlyOpenSessionsServed, TypeOK
  <2>5. ShutdownAlone'
    BY <1>1, <1>3, <1>8 DEF SessionInv, ShutdownAlone
  <2>6. OwnersAtWork'
    BY <1>1, <1>2, <1>3, <1>8, <2>1 DEF SessionInv, OwnersAtWork, Live, TypeOK
  <2> QED
    BY <2>2, <2>3, <2>4, <2>5, <2>6 DEF IInv
<1> QED
  BY <1>4, <1>5, <1>6, <1>7, <1>8 DEF AcceptThread

----------------------------------------------------------------------------
\* The workers.

LEMMA WorkerPreserves ==
    ASSUME IInv, NEW w \in Workers, WorkerStep(w)
    PROVE  IInv'
<1> USE DEF flagVars, mainVars, acceptVars, workerVars, connVars, workerFrame
<1>1. TypeOK /\ SessionInv
  BY DEF IInv, SessionInv
<1>2. frames' = frames /\ mainPc' = mainPc
  BY DEF WorkerStep, WorkerLoop, Take, Enter, Served, ServeFails, ServeEof, ServeCrashes,
         ServedAll, GiveBack
<1>3. Cleaning' = Cleaning /\ WorkersJoined' = WorkersJoined /\ AcceptJoined' = AcceptJoined
  BY <1>2, SameFrames
\* A worker that runs has not been joined.
<1>4. ~WorkersJoined
  BY <1>1 DEF SessionInv, ShutdownAlone, WorkerStep, WorkerLoop, Take, Enter, Served,
              ServeFails, ServeEof, ServeCrashes, ServedAll, GiveBack, InRequest
<1>5. ShutdownAlone'
  BY <1>3, <1>4 DEF ShutdownAlone
<1>6. CASE WorkerLoop(w) \/ ServedAll(w)
  <2> USE DEF WorkerLoop, ServedAll
  <2>1. TypeOK'
    BY <1>1, <1>6 DEF TypeOK, WorkerPcs
  <2>2. OneOwner'
    BY <1>1, <1>6 DEF SessionInv, OneOwner, Live
  <2>3. OnlyOpenSessionsServed'
    BY <1>1, <1>3, <1>6 DEF SessionInv, OnlyOpenSessionsServed
  <2>4. OwnersAtWork'
    BY <1>1, <1>2, <1>3, <1>6 DEF SessionInv, OwnersAtWork, Live, TypeOK
  <2> QED
    BY <1>5, <2>1, <2>2, <2>3, <2>4 DEF IInv
<1>7. CASE Take(w)
  <2> DEFINE mine == {c \in pool : active[c]}
  <2>0. /\ workerPc[w] = "take"
        /\ held' = [held EXCEPT ![w] = mine]
        /\ todo' = [todo EXCEPT ![w] = mine]
        /\ pool' = pool \ mine
        /\ workerPc' = [workerPc EXCEPT ![w] = "serve"]
        /\ UNCHANGED <<workerFrame, serving, connVars, crashed>>
    BY <1>7 DEF Take
  <2>1. mine \subseteq pool /\ \A c \in mine : active[c] /\ fd[c] = "open"
    BY <1>1 DEF SessionInv, OwnersAtWork, TypeOK
  <2>2. serving[w] = NoConn /\ held[w] = {}
    BY <1>1, <2>0 DEF SessionInv, OwnersAtWork
  <2> HIDE DEF mine
  <2>3. TypeOK'
    BY <1>1, <2>0, <2>1 DEF TypeOK, WorkerPcs
  <2>4. OneOwner'
    BY <1>1, <2>0, <2>1 DEF SessionInv, OneOwner, Live, TypeOK
  <2>5. OnlyOpenSessionsServed'
    BY <1>1, <1>3, <2>0, <2>1, <2>2 DEF SessionInv, OnlyOpenSessionsServed, TypeOK
  <2>6. OwnersAtWork'
    BY <1>1, <1>2, <1>3, <2>0, <2>1, <2>2 DEF SessionInv, OwnersAtWork, Live, TypeOK
  <2> QED
    BY <1>5, <2>3, <2>4, <2>5, <2>6 DEF IInv
<1>8. CASE \E c \in Conns : Enter(w, c)
  <2>0. PICK c \in Conns : Enter(w, c)
    BY <1>8
  <2> USE DEF Enter
  <2>1. TypeOK'
    BY <1>1, <2>0 DEF TypeOK
  <2>2. OneOwner'
    BY <1>1, <2>0 DEF SessionInv, OneOwner, Live
  <2>3. OnlyOpenSessionsServed'
    BY <1>1, <1>3, <2>0 DEF SessionInv, OnlyOpenSessionsServed, TypeOK
  <2>4. OwnersAtWork'
    BY <1>1, <1>2, <1>3, <2>0 DEF SessionInv, OwnersAtWork, Live, TypeOK
  <2> QED
    BY <1>5, <2>1, <2>2, <2>3, <2>4 DEF IInv
<1>9. CASE Served(w) \/ ServeCrashes(w)
  <2> USE DEF Served, ServeCrashes, Leave
  <2>1. TypeOK'
    <3>1. CASE Served(w)
      BY <1>1, <3>1 DEF TypeOK
    <3>2. CASE ServeCrashes(w)
      BY <1>1, <3>2 DEF TypeOK
    <3> QED
      BY <1>9, <3>1, <3>2
  <2>2. OneOwner'
    BY <1>1, <1>9 DEF SessionInv, OneOwner, Live
  <2>3. OnlyOpenSessionsServed'
    BY <1>1, <1>3, <1>9 DEF SessionInv, OnlyOpenSessionsServed, TypeOK
  <2>4. OwnersAtWork'
    BY <1>1, <1>2, <1>3, <1>9 DEF SessionInv, OwnersAtWork, Live, TypeOK
  <2> QED
    BY <1>5, <2>1, <2>2, <2>3, <2>4 DEF IInv
\* The session the worker is serving is closed, or at least no longer active.
<1>10. CASE ServeFails(w) \/ ServeEof(w)
  <2> DEFINE c == serving[w]
  <2>0. /\ workerPc[w] = "serve" /\ c # NoConn
        /\ serving' = [serving EXCEPT ![w] = NoConn]
        /\ active' = [active EXCEPT ![c] = FALSE]
        /\ fd' = [fd EXCEPT ![c] = "closed"] \/ fd' = [fd EXCEPT ![c] = "left"]
        /\ UNCHANGED <<workerFrame, workerPc, held, todo, pool, crashed>>
    BY <1>10 DEF ServeFails, ServeEof, InRequest, Leave
  <2>1. /\ c \in Conns /\ c \in held[w] /\ c \notin todo[w] /\ fd[c] = "open"
        /\ c \notin pool /\ c # incoming
        /\ \A v \in Workers : v # w => c \notin held[v]
    BY <1>1, <2>0
       DEF SessionInv, OnlyOpenSessionsServed, OneOwner, OwnersAtWork, Live, TypeOK
  <2> HIDE DEF c
  <2>2. /\ fd' \in [Conns -> {"none", "backlog", "open", "closed", "left"}]
        /\ active' \in [Conns -> BOOLEAN]
        /\ fd'[c] \in {"open", "closed", "left"} /\ ~active'[c]
        /\ \A d \in Conns : d # c => fd'[d] = fd[d] /\ active'[d] = active[d]
    BY <1>1, <2>0, <2>1 DEF TypeOK
  <2>3. TypeOK'
    BY <1>1, <2>0, <2>2 DEF TypeOK
  <2>4. OneOwner'
    BY <1>1, <2>0 DEF SessionInv, OneOwner, Live
  <2>5. OnlyOpenSessionsServed'
    <3>1. ASSUME NEW d \in pool'
          PROVE  Cleaning' \/ (active'[d] /\ fd'[d] = "open")
      BY <1>1, <1>3, <2>0, <2>1, <2>2, <3>1 DEF SessionInv, OnlyOpenSessionsServed, TypeOK
    <3>2. ASSUME NEW v \in Workers, NEW d \in todo'[v] \cup ({serving'[v]} \ {NoConn})
          PROVE  d \in held'[v] /\ active'[d] /\ fd'[d] = "open"
      <4>1. d \in todo[v] \cup ({serving[v]} \ {NoConn}) /\ (v = w => d \in todo[w])
        BY <1>1, <2>0, <3>2 DEF TypeOK
      <4>2. d \in held[v] /\ active[d] /\ fd[d] = "open" /\ d \in Conns
        BY <1>1, <4>1 DEF SessionInv, OnlyOpenSessionsServed, TypeOK
      <4>3. d # c
        BY <2>1, <4>1, <4>2
      <4> QED
        BY <2>0, <2>2, <4>2, <4>3
    <3> QED
      BY <3>1, <3>2 DEF OnlyOpenSessionsServed
  <2>6. OwnersAtWork'
    BY <1>1, <1>2, <1>3, <2>0, <2>1, <2>2 DEF SessionInv, OwnersAtWork, Live, TypeOK
  <2> QED
    BY <1>5, <2>3, <2>4, <2>5, <2>6 DEF IInv
<1>11. CASE GiveBack(w)
  <2> DEFINE back == {c \in held[w] : active[c]}
  <2>0. /\ workerPc[w] = "return"
        /\ pool' = pool \cup back
        /\ held' = [held EXCEPT ![w] = {}]
        /\ workerPc' = [workerPc EXCEPT ![w] = "loop"]
        /\ CloseAll({c \in held[w] : ~active[c]})
        /\ UNCHANGED <<workerFrame, todo, serving, crashed>>
    BY <1>11 DEF GiveBack
  <2>1. back \subseteq held[w] /\ \A c \in back : active[c] /\ fd[c] = "open"
    BY <1>1 DEF SessionInv, OwnersAtWork, TypeOK
  <2>c. /\ fd' \in [Conns -> {"none", "backlog", "open", "closed", "left"}]
        /\ active' \in [Conns -> BOOLEAN]
        /\ \A c \in Conns : active'[c] <=> active[c]
        /\ \A c \in Conns : \/ fd'[c] = fd[c]
                            \/ c \in held[w] /\ ~active[c] /\ fd'[c] = "closed"
    BY <1>1, <2>0, CloseAllMeans
  <2>2. todo[w] = {} /\ serving[w] = NoConn
    BY <1>1, <2>0 DEF SessionInv, OwnersAtWork
  <2> HIDE DEF back
  <2>3. TypeOK'
    BY <1>1, <2>0, <2>1, <2>c DEF TypeOK, WorkerPcs
  <2>4. OneOwner'
    BY <1>1, <2>0, <2>1 DEF SessionInv, OneOwner, Live, TypeOK
  <2>7. \A c \in Conns : active[c] => fd'[c] = fd[c] /\ active'[c]
    BY <2>c
  <2>5. OnlyOpenSessionsServed'
    BY <1>1, <1>3, <2>0, <2>1, <2>2, <2>7 DEF SessionInv, OnlyOpenSessionsServed, TypeOK
  <2>6. OwnersAtWork'
    <3>1. \A c \in Live' : fd'[c] \in {"open", "closed", "left"}
      <4>1. Live' \subseteq Live /\ Live \subseteq Conns
        BY <1>1, <2>0, <2>1 DEF Live, TypeOK
      <4> QED
        BY <1>1, <2>c, <4>1 DEF SessionInv, OwnersAtWork
    <3>2. incoming # NoConn => incoming \in Conns /\ incoming \notin held[w]
      BY <1>1 DEF SessionInv, OneOwner, Live, TypeOK
    <3>3. \A c \in Conns : active'[c] => fd'[c] = "open"
      BY <1>1, <2>c, <2>7 DEF SessionInv, OwnersAtWork
    <3>4. incoming # NoConn =>
             fd'[incoming] = fd[incoming] /\ (active'[incoming] <=> active[incoming])
      BY <2>c, <3>2
    <3> QED
      BY <1>1, <1>2, <1>3, <2>0, <2>1, <2>2, <3>1, <3>3, <3>4
         DEF SessionInv, OwnersAtWork, TypeOK
  <2> QED
    BY <1>5, <2>3, <2>4, <2>5, <2>6 DEF IInv
<1> QED
  BY <1>6, <1>7, <1>8, <1>9, <1>10, <1>11 DEF WorkerStep

----------------------------------------------------------------------------
\* The monitor, the clients, and the end of the process.

LEMMA OthersPreserve ==
    ASSUME IInv,
           \/ MonitorWakes \/ KilledByTlsWrite \/ UNCHANGED vars
           \/ \E c \in Conns : Connect(c) \/ ClientLeaves(c)
    PROVE  IInv'
<1> USE DEF flagVars, mainVars, acceptVars, workerVars, connVars
<1>1. TypeOK /\ SessionInv
  BY DEF IInv, SessionInv
<1>2. frames' = frames /\ mainPc' = mainPc
  BY DEF MonitorWakes, KilledByTlsWrite, Connect, ClientLeaves, vars
<1>3. Cleaning' = Cleaning /\ WorkersJoined' = WorkersJoined /\ AcceptJoined' = AcceptJoined
  BY <1>2, SameFrames
<1>4. CASE MonitorWakes \/ KilledByTlsWrite \/ UNCHANGED vars
           \/ \E c \in Conns : ClientLeaves(c)
  <2>1. TypeOK'
    <3>1. CASE MonitorWakes
      BY <1>1, <3>1 DEF MonitorWakes, TypeOK
    <3>2. CASE KilledByTlsWrite
      BY <1>1, <3>2 DEF KilledByTlsWrite, TypeOK
    <3>3. CASE UNCHANGED vars
      BY <1>1, <3>3 DEF vars, TypeOK
    <3>4. CASE \E c \in Conns : ClientLeaves(c)
      BY <1>1, <3>4 DEF ClientLeaves, TypeOK
    <3> QED
      BY <1>4, <3>1, <3>2, <3>3, <3>4
  <2>2. UNCHANGED Sessions
    BY <1>4 DEF MonitorWakes, KilledByTlsWrite, ClientLeaves, vars, Sessions
  <2> QED
    BY <1>1, <1>2, <1>3, <2>1, <2>2, SessionsUntouched DEF IInv, SessionInv
<1>5. CASE \E c \in Conns : Connect(c)
  <2>0. PICK c \in Conns : Connect(c)
    BY <1>5
  <2> USE DEF Connect
  <2>1. TypeOK'
    BY <1>1, <2>0 DEF TypeOK
  <2>2. c \notin Live /\ ~active[c] /\ c # incoming
    BY <1>1, <2>0, DaemonConstants DEF SessionInv, OwnersAtWork, TypeOK
  <2>3. OneOwner'
    BY <1>1, <2>0 DEF SessionInv, OneOwner, Live
  <2>4. OnlyOpenSessionsServed'
    BY <1>1, <1>3, <2>0 DEF SessionInv, OnlyOpenSessionsServed, TypeOK
  <2>5. ShutdownAlone'
    BY <1>1, <1>3, <2>0 DEF SessionInv, ShutdownAlone
  <2>6. OwnersAtWork'
    BY <1>1, <1>2, <1>3, <2>0, <2>2 DEF SessionInv, OwnersAtWork, Live, TypeOK
  <2> QED
    BY <2>1, <2>3, <2>4, <2>5, <2>6 DEF IInv
<1> QED
  BY <1>4, <1>5

LEMMA NextPreserves == IInv /\ [Next]_vars => IInv'
<1> SUFFICES ASSUME IInv, [Next]_vars PROVE IInv'
  OBVIOUS
<1>1. CASE MainThread
  BY <1>1, StartPreserves, CallPreserves, StopPreserves, StopCloseListenPreserves,
     StopJoinAcceptPreserves, StopJoinWorkersPreserves, StopCloseSessionsPreserves,
     StopCleanupPreserves DEF MainThread, Stop
<1>2. CASE Signal
  BY <1>2, CallPreserves
<1>3. CASE AcceptThread
  BY <1>3, AcceptPreserves
<1>4. CASE \E w \in Workers : WorkerStep(w)
  BY <1>4, WorkerPreserves
<1>5. CASE \/ MonitorWakes \/ KilledByTlsWrite \/ UNCHANGED vars
           \/ \E c \in Conns : Connect(c) \/ ClientLeaves(c)
  BY <1>5, OthersPreserve
<1> QED
  BY <1>1, <1>2, <1>3, <1>4, <1>5 DEF Next

\* IInv is an invariant of the daemon.
THEOREM DaemonInvariant == Spec => []IInv
<1>1. Init => IInv
  BY InitHolds
<1>2. IInv /\ [Next]_vars => IInv'
  BY NextPreserves
<1> QED
  BY <1>1, <1>2, PTL DEF Spec

\* Every variable of the daemon keeps its type.
THEOREM DaemonTypeCorrect == Spec => []TypeOK
<1>1. IInv => TypeOK
  BY DEF IInv
<1> QED
  BY <1>1, DaemonInvariant, PTL

\* Whatever the number of workers, acceptLoop, active_sessions_ and the lists of
\* workerLoop never share a session.
THEOREM SessionsHaveOneOwner == Spec => []OneOwner
<1>1. IInv => OneOwner
  BY DEF IInv
<1> QED
  BY <1>1, DaemonInvariant, PTL

\* No worker serves, and no list offers, a session that was closed.
THEOREM ServedSessionsAreOpen == Spec => []OnlyOpenSessionsServed
<1>1. IInv => OnlyOpenSessionsServed
  BY DEF IInv
<1> QED
  BY <1>1, DaemonInvariant, PTL

\* However many signals interrupt stop(), and wherever, it closes and frees the
\* sessions only when no other thread runs.
THEOREM StopRunsAlone == Spec => []ShutdownAlone
<1>1. IInv => ShutdownAlone
  BY DEF IInv
<1> QED
  BY <1>1, DaemonInvariant, PTL

\* What each thread owns fits the place in its loop.
THEOREM OwnersFit == Spec => []OwnersAtWork
<1>1. IInv => OwnersAtWork
  BY DEF IInv
<1> QED
  BY <1>1, DaemonInvariant, PTL

----------------------------------------------------------------------------
\* The daemon implements Connections.

Disjoint(p, h, i, f) ==
    /\ i \notin p
    /\ \A w \in Workers : i \notin h[w] /\ h[w] \cap p = {}
    /\ \A v, w \in Workers : v # w => h[v] \cap h[w] = {}
    /\ \A c \in Conns :
          (c \in p \/ c = i \/ \E w \in Workers : c \in h[w])
              => f[c] \notin {"none", "backlog"}

\* With disjoint lists the refinement mapping tells exactly where a connection is.
LEMMA OwnerInFacts ==
    ASSUME NEW p, NEW h, NEW i, NEW f, Disjoint(p, h, i, f), NEW c \in Conns
    PROVE  /\ OwnerIn(c, p, h, i, f) = "pool" <=> c \in p
           /\ \A w \in Workers : OwnerIn(c, p, h, i, f) = w <=> c \in h[w]
           /\ OwnerIn(c, p, h, i, f) = "accept" <=> c = i
           /\ OwnerIn(c, p, h, i, f) = "client" <=> f[c] \in {"none", "backlog"}
           /\ OwnerIn(c, p, h, i, f) \in {"pool", "accept", "client", "gone"} \cup Workers
<1> DEFINE o == OwnerIn(c, p, h, i, f)
<1>1. Workers \cap {"client", "accept", "pool", "gone"} = {}
  BY DaemonConstants
<1>2. CASE c \in p
  <2>1. o = "pool"
    BY <1>2 DEF OwnerIn
  <2> QED
    BY <1>1, <1>2, <2>1 DEF Disjoint
<1>3. ASSUME NEW v \in Workers, c \in h[v]
      PROVE  o = v
  <2>1. c \notin p /\ \A w \in Workers : c \in h[w] => w = v
    BY <1>3 DEF Disjoint
  <2>2. (CHOOSE w \in Workers : c \in h[w]) = v
    BY <1>3, <2>1
  <2> QED
    BY <1>3, <2>1, <2>2 DEF OwnerIn
<1>4. CASE \E v \in Workers : c \in h[v]
  <2>1. PICK v \in Workers : c \in h[v]
    BY <1>4
  <2>2. o = v
    BY <1>3, <2>1
  <2> HIDE DEF o
  <2>3. \A w \in Workers : c \in h[w] => w = v
    BY <2>1 DEF Disjoint
  <2>4. c \notin p /\ c # i /\ f[c] \notin {"none", "backlog"}
    BY <2>1 DEF Disjoint
  <2>5. v \notin {"client", "accept", "pool", "gone"}
    BY <1>1
  <2>6. (o = "pool" <=> c \in p) /\ (o = "accept" <=> c = i)
        /\ (o = "client" <=> f[c] \in {"none", "backlog"})
    BY <2>2, <2>4, <2>5
  <2>7. \A w \in Workers : o = w <=> c \in h[w]
    BY <2>1, <2>2, <2>3
  <2> QED
    BY <2>2, <2>6, <2>7 DEF o
<1>5. CASE c \notin p /\ ~\E v \in Workers : c \in h[v]
  <2>1. o = IF i = c THEN "accept"
            ELSE IF f[c] \in {"none", "backlog"} THEN "client" ELSE "gone"
    BY <1>5 DEF OwnerIn
  <2> HIDE DEF o
  <2>2. c = i => f[c] \notin {"none", "backlog"}
    BY DEF Disjoint
  <2>3. o \in {"accept", "client", "gone"}
    BY <2>1
  <2>4. \A w \in Workers : o # w
    BY <1>1, <2>3
  <2> QED
    BY <1>5, <2>1, <2>2, <2>3, <2>4 DEF o
<1> QED
  BY <1>2, <1>4, <1>5

LEMMA IInvDisjoint ==
    /\ IInv => Disjoint(pool, held, incoming, fd)
    /\ IInv' => Disjoint(pool', held', incoming', fd')
<1>1. ASSUME IInv PROVE Disjoint(pool, held, incoming, fd)
  <2>1. /\ incoming \notin pool
        /\ \A w \in Workers : incoming \notin held[w] /\ held[w] \cap pool = {}
        /\ \A v, w \in Workers : v # w => held[v] \cap held[w] = {}
    BY <1>1 DEF IInv, OneOwner, Live
  <2>2. /\ \A c \in pool : fd[c] \in {"open", "closed", "left"}
        /\ \A w \in Workers : \A c \in held[w] : fd[c] \in {"open", "closed", "left"}
        /\ incoming \in Conns => fd[incoming] = "open"
    BY <1>1, DaemonConstants DEF IInv, OwnersAtWork, Live
  <2> QED
    BY <2>1, <2>2 DEF Disjoint
<1>2. ASSUME IInv' PROVE Disjoint(pool', held', incoming', fd')
  <2>1. /\ incoming' \notin pool'
        /\ \A w \in Workers : incoming' \notin held'[w] /\ held'[w] \cap pool' = {}
        /\ \A v, w \in Workers : v # w => held'[v] \cap held'[w] = {}
    BY <1>2 DEF IInv, OneOwner, Live
  <2>2. /\ \A c \in pool' : fd'[c] \in {"open", "closed", "left"}
        /\ \A w \in Workers : \A c \in held'[w] : fd'[c] \in {"open", "closed", "left"}
        /\ incoming' \in Conns => fd'[incoming'] = "open"
    BY <1>2, DaemonConstants DEF IInv, OwnersAtWork, Live
  <2> QED
    BY <2>1, <2>2 DEF Disjoint
<1> QED
  BY <1>1, <1>2

LEMMA OwnerFacts ==
    ASSUME IInv, NEW c \in Conns
    PROVE  /\ owner[c] = "pool" <=> c \in pool
           /\ \A w \in Workers : owner[c] = w <=> c \in held[w]
           /\ owner[c] = "accept" <=> c = incoming
           /\ owner[c] = "client" <=> fd[c] \in {"none", "backlog"}
           /\ owner[c] \in {"pool", "accept", "client", "gone"} \cup Workers
<1>1. owner[c] = OwnerIn(c, pool, held, incoming, fd)
  BY DEF owner
<1> QED
  BY <1>1, IInvDisjoint, OwnerInFacts

LEMMA OwnerFactsNext ==
    ASSUME IInv', NEW c \in Conns
    PROVE  /\ owner'[c] = "pool" <=> c \in pool'
           /\ \A w \in Workers : owner'[c] = w <=> c \in held'[w]
           /\ owner'[c] = "accept" <=> c = incoming'
           /\ owner'[c] = "client" <=> fd'[c] \in {"none", "backlog"}
           /\ owner'[c] \in {"pool", "accept", "client", "gone"} \cup Workers
<1>1. owner'[c] = OwnerIn(c, pool', held', incoming', fd')
  BY DEF owner, OwnerIn
<1> QED
  BY <1>1, IInvDisjoint, OwnerInFacts

\* A connection that stays where it was keeps its owner.
LEMMA SameOwner ==
    ASSUME IInv, IInv', NEW c \in Conns,
           c \in pool' <=> c \in pool,
           \A w \in Workers : c \in held'[w] <=> c \in held[w],
           c = incoming' <=> c = incoming,
           fd'[c] \in {"none", "backlog"} <=> fd[c] \in {"none", "backlog"}
    PROVE  owner'[c] = owner[c]
BY OwnerFacts, OwnerFactsNext

\* The steps that move a connection.

LEMMA AcceptRefines ==
    ASSUME IInv, IInv', NEW c \in Conns, Accept(c)
    PROVE  C!Accept
<1> USE DEF acceptFrame, mainVars, flagVars, workerVars
<1>1. c \in C!OwnedBy("client")
  BY OwnerFacts DEF Accept, C!OwnedBy
<1>2. incoming = NoConn
  BY DEF Accept, IInv, OwnersAtWork
<1>3. ASSUME NEW x \in Conns
      PROVE  owner'[x] = IF x \in {c} THEN "accept" ELSE owner[x]
  <2>1. CASE x = c
    BY <2>1, OwnerFactsNext DEF Accept
  <2>2. CASE x # c
    BY <1>2, <2>2, DaemonConstants, SameOwner DEF Accept, IInv, TypeOK
  <2> QED
    BY <2>1, <2>2
<1>4. owner' = [x \in Conns |-> IF x \in {c} THEN "accept" ELSE owner[x]]
  BY <1>3 DEF owner
<1> QED
  BY <1>1, <1>4 DEF C!Accept, C!Move

LEMMA RejectRefines ==
    ASSUME IInv, IInv', acceptPc \in {"gate", "cap", "create"}, Reject
    PROVE  C!Refuse
<1> USE DEF acceptFrame, mainVars, flagVars, workerVars
<1>1. incoming \in Conns /\ incoming' = NoConn
  BY DEF Reject, IInv, TypeOK, OwnersAtWork
<1>2. incoming \in C!OwnedBy("accept")
  BY <1>1, OwnerFacts DEF C!OwnedBy
<1>3. ASSUME NEW x \in Conns
      PROVE  owner'[x] = IF x \in {incoming} THEN "gone" ELSE owner[x]
  <2>1. CASE x = incoming
    <3>1. /\ x \notin pool' /\ x # incoming'
          /\ \A w \in Workers : x \notin held'[w]
          /\ fd'[x] = "closed"
      BY <1>1, <2>1, DaemonConstants DEF Reject, IInv, TypeOK, OneOwner, Live
    <3> QED
      BY <2>1, <3>1, OwnerFactsNext
  <2>2. CASE x # incoming
    BY <1>1, <2>2, DaemonConstants, SameOwner DEF Reject, IInv, TypeOK
  <2> QED
    BY <2>1, <2>2
<1>4. owner' = [x \in Conns |-> IF x \in {incoming} THEN "gone" ELSE owner[x]]
  BY <1>3 DEF owner
<1> QED
  BY <1>2, <1>4 DEF C!Refuse, C!Move

LEMMA PushRefines ==
    ASSUME IInv, IInv', PushSession
    PROVE  C!Admit
<1> USE DEF acceptFrame, mainVars, flagVars, workerVars, connVars
<1>1. incoming \in Conns /\ incoming' = NoConn
  BY DEF PushSession, IInv, TypeOK, OwnersAtWork
<1>2. incoming \in C!OwnedBy("accept")
  BY <1>1, OwnerFacts DEF C!OwnedBy
<1>3. ASSUME NEW x \in Conns
      PROVE  owner'[x] = IF x \in {incoming} THEN "pool" ELSE owner[x]
  <2>1. CASE x = incoming
    BY <2>1, OwnerFactsNext DEF PushSession
  <2>2. CASE x # incoming
    BY <1>1, <2>2, DaemonConstants, SameOwner DEF PushSession
  <2> QED
    BY <2>1, <2>2
<1>4. owner' = [x \in Conns |-> IF x \in {incoming} THEN "pool" ELSE owner[x]]
  BY <1>3 DEF owner
<1> QED
  BY <1>2, <1>4 DEF C!Admit, C!Move

LEMMA TakeRefines ==
    ASSUME IInv, IInv', NEW w \in Workers, Take(w)
    PROVE  C!Take(w)
<1> USE DEF workerFrame, mainVars, flagVars, acceptVars, connVars
<1> DEFINE mine == {c \in pool : active[c]}
<1>1. /\ held' = [held EXCEPT ![w] = mine] /\ pool' = pool \ mine
      /\ incoming' = incoming /\ fd' = fd
      /\ held[w] = {} /\ held \in [Workers -> SUBSET Conns]
  BY DEF Take, IInv, OwnersAtWork, TypeOK
<1>2. mine \subseteq pool /\ pool \subseteq Conns
  BY DEF IInv, TypeOK
<1> HIDE DEF mine
<1>3. C!OwnedBy(w) = {}
  BY <1>1, OwnerFacts DEF C!OwnedBy
<1>4. mine \in SUBSET C!OwnedBy("pool")
  BY <1>2, OwnerFacts DEF C!OwnedBy
<1>5. ASSUME NEW x \in Conns
      PROVE  owner'[x] = IF x \in mine THEN w ELSE owner[x]
  <2>1. CASE x \in mine
    <3>1. x \in held'[w]
      BY <1>1, <2>1
    <3> QED
      BY <2>1, <3>1, OwnerFactsNext
  <2>2. CASE x \notin mine
    <3>1. \A v \in Workers : x \in held'[v] <=> x \in held[v]
      BY <1>1, <2>2
    <3> QED
      BY <1>1, <2>2, <3>1, SameOwner
  <2> QED
    BY <2>1, <2>2
<1>6. owner' = [x \in Conns |-> IF x \in mine THEN w ELSE owner[x]]
  BY <1>5 DEF owner
<1> QED
  BY <1>3, <1>4, <1>6 DEF C!Take, C!Move

LEMMA GiveBackRefines ==
    ASSUME IInv, IInv', NEW w \in Workers, GiveBack(w)
    PROVE  C!GiveBack(w)
<1> USE DEF workerFrame, mainVars, flagVars, acceptVars, connVars
<1> DEFINE back == {c \in held[w] : active[c]}
<1>0. /\ held' = [held EXCEPT ![w] = {}] /\ pool' = pool \cup back
      /\ incoming' = incoming /\ CloseAll({c \in held[w] : ~active[c]})
      /\ held \in [Workers -> SUBSET Conns] /\ TypeOK
  BY DEF GiveBack, IInv, TypeOK
<1>1. /\ held' = [held EXCEPT ![w] = {}] /\ pool' = pool \cup back
      /\ incoming' = incoming
      /\ held \in [Workers -> SUBSET Conns]
      /\ \A c \in Conns : fd'[c] = fd[c] \/ (c \in held[w] /\ fd'[c] = "closed")
  BY <1>0, CloseAllMeans
<1>2. back \subseteq held[w]
  OBVIOUS
<1> HIDE DEF back
<1>3. back \in SUBSET C!OwnedBy(w)
  BY <1>1, <1>2, OwnerFacts DEF C!OwnedBy
<1>4. ASSUME NEW x \in Conns
      PROVE  owner'[x] = IF owner[x] # w THEN owner[x]
                         ELSE IF x \in back THEN "pool" ELSE "gone"
  <2>1. CASE x \notin held[w]
    <3>1. owner[x] # w /\ x \notin back
      BY <1>2, <2>1, OwnerFacts
    <3>2. \A v \in Workers : x \in held'[v] <=> x \in held[v]
      BY <1>1, <2>1
    <3> QED
      BY <1>1, <3>1, <3>2, SameOwner
  <2>2. CASE x \in back
    <3>1. owner[x] = w
      BY <1>2, <2>2, OwnerFacts
    <3>2. x \in pool'
      BY <1>1, <2>2
    <3>3. owner'[x] = "pool"
      BY <3>2, OwnerFactsNext
    <3> QED
      BY <2>2, <3>1, <3>3
  <2>3. CASE x \in held[w] /\ x \notin back
    <3>1. owner[x] = w
      BY <2>3, OwnerFacts
    <3>2. Disjoint(pool, held, incoming, fd)
      BY IInvDisjoint
    <3>3. /\ x \notin pool' /\ x # incoming'
          /\ fd'[x] \notin {"none", "backlog"}
      BY <1>1, <2>3, <3>2 DEF Disjoint
    <3>4. \A v \in Workers : x \notin held'[v]
      BY <1>1, <2>3, <3>2 DEF Disjoint
    <3>5. owner'[x] = "gone"
      BY <3>3, <3>4, OwnerFactsNext
    <3> QED
      BY <2>3, <3>1, <3>5
  <2> QED
    BY <2>1, <2>2, <2>3
<1>5. owner' = [x \in Conns |-> IF owner[x] # w THEN owner[x]
                                ELSE IF x \in back THEN "pool" ELSE "gone"]
  BY <1>4 DEF owner
<1> QED
  BY <1>3, <1>5 DEF C!GiveBack

LEMMA CloseListenRefines ==
    ASSUME IInv, IInv', StopCloseListen
    PROVE  C!Drop
<1> USE DEF acceptVars, workerVars
<1> DEFINE dropped == {c \in Conns : fd[c] = "backlog"}
<1>1. /\ pool' = pool /\ held' = held /\ incoming' = incoming
      /\ \A x \in Conns : fd'[x] = IF fd[x] = "backlog" THEN "closed" ELSE fd[x]
  BY DEF StopCloseListen
<1>2. dropped \in SUBSET C!OwnedBy("client")
  BY OwnerFacts DEF C!OwnedBy
<1>3. ASSUME NEW x \in Conns
      PROVE  owner'[x] = IF x \in dropped THEN "gone" ELSE owner[x]
  <2>1. CASE x \in dropped
    <3>1. Disjoint(pool, held, incoming, fd)
      BY IInvDisjoint
    <3>2. /\ x \notin pool' /\ x # incoming' /\ \A v \in Workers : x \notin held'[v]
          /\ fd'[x] = "closed"
      BY <1>1, <2>1, <3>1 DEF Disjoint
    <3>3. owner'[x] = "gone"
      BY <3>2, OwnerFactsNext
    <3> QED
      BY <2>1, <3>3
  <2>2. CASE x \notin dropped
    BY <1>1, <2>2, SameOwner
  <2> QED
    BY <2>1, <2>2
<1> HIDE DEF dropped
<1>4. owner' = [x \in Conns |-> IF x \in dropped THEN "gone" ELSE owner[x]]
  BY <1>3 DEF owner
<1> QED
  BY <1>2, <1>4 DEF C!Drop, C!Move

LEMMA CleanupRefines ==
    ASSUME IInv, IInv', StopCleanup
    PROVE  C!Shutdown
<1> USE DEF acceptVars, workerVars, connVars
<1>0. pool' = {} /\ held' = held /\ incoming' = incoming /\ CloseAll(pool) /\ TypeOK
  BY DEF StopCleanup, IInv
<1>1. /\ pool' = {} /\ held' = held /\ incoming' = incoming
      /\ \A c \in Conns : fd'[c] = fd[c] \/ (c \in pool /\ fd'[c] = "closed")
  BY <1>0, CloseAllMeans
<1>2. /\ incoming = NoConn
      /\ \A w \in Workers : held[w] = {}
  <2>1. WorkersJoined
    BY DEF StopCleanup, At, WorkersJoined, InStop, IInv, TypeOK
  <2> QED
    BY <2>1 DEF IInv, ShutdownAlone
<1>3. \A c \in Conns : owner[c] \in {"client", "pool", "gone"}
  BY <1>2, OwnerFacts, DaemonConstants
<1>4. ASSUME NEW x \in Conns
      PROVE  owner'[x] = IF x \in C!OwnedBy("pool") THEN "gone" ELSE owner[x]
  <2>1. CASE x \in pool
    <3>1. fd'[x] \notin {"none", "backlog"}
      BY <1>1, <2>1, IInvDisjoint DEF Disjoint
    <3>2. owner'[x] = "gone"
      BY <1>1, <1>2, <3>1, OwnerFactsNext, DaemonConstants
    <3> QED
      BY <2>1, <3>2, OwnerFacts DEF C!OwnedBy
  <2>2. CASE x \notin pool
    <3>1. owner'[x] = owner[x]
      BY <1>1, <2>2, SameOwner
    <3> QED
      BY <2>2, <3>1, OwnerFacts DEF C!OwnedBy
  <2> QED
    BY <2>1, <2>2
<1>5. owner' = [x \in Conns |-> IF x \in C!OwnedBy("pool") THEN "gone" ELSE owner[x]]
  BY <1>4 DEF owner
<1> QED
  BY <1>3, <1>5 DEF C!Shutdown, C!Move

\* Any other step moves no connection: it changes a descriptor at most from "none" to
\* "backlog" or from "open" to "closed".
LEMMA OwnersUntouched ==
    ASSUME IInv, IInv', UNCHANGED <<pool, held, incoming>>,
           \A c \in Conns : fd'[c] \in {"none", "backlog"} <=> fd[c] \in {"none", "backlog"}
    PROVE  UNCHANGED owner
<1>1. \A c \in Conns : owner'[c] = owner[c]
  BY SameOwner
<1> QED
  BY <1>1 DEF owner

LEMMA MainRefines ==
    ASSUME IInv, IInv', MainThread \/ Signal
    PROVE  C!Next \/ UNCHANGED owner
<1> USE DEF flagVars, acceptVars, workerVars, connVars
<1>1. CASE StopCloseListen \/ StopCleanup
  BY <1>1, CloseListenRefines, CleanupRefines DEF C!Next
<1>2. CASE StopCloseSessions
  <2>1. \A c \in Conns : fd'[c] = fd[c] \/ (c \in pool /\ fd'[c] = "closed")
    BY <1>2, CloseAllMeans DEF StopCloseSessions, IInv
  <2>2. \A c \in pool : fd[c] \in {"open", "closed", "left"}
    BY DEF IInv, OwnersAtWork, Live
  <2>3. \A c \in Conns : fd'[c] \in {"none", "backlog"} <=> fd[c] \in {"none", "backlog"}
    BY <2>1, <2>2
  <2>4. UNCHANGED <<pool, held, incoming>>
    BY <1>2 DEF StopCloseSessions
  <2> QED
    BY <2>3, <2>4, OwnersUntouched
<1>3. CASE \/ StartFailsEarly \/ StartFailsLate \/ StartAccept
           \/ (\E w \in Workers : StartWorker(w))
           \/ StartMonitor \/ LeaveLoop \/ Exit \/ Signal
           \/ StopCheck \/ StopSetShutdown \/ StopSetRunning \/ StopJoinAccept
           \/ StopJoinMonitor \/ StopJoinWorkers \/ StopUnload
  <2>1. UNCHANGED <<pool, held, incoming, fd>>
    BY <1>3
       DEF StartFailsEarly, StartFailsLate, StartAccept, StartWorker, StartMonitor,
           LeaveLoop, Exit, Signal, StopCheck, StopSetShutdown, StopSetRunning,
           StopJoinAccept, StopJoinMonitor, StopJoinWorkers, StopUnload
  <2> QED
    BY <2>1, OwnersUntouched
<1> QED
  BY <1>1, <1>2, <1>3 DEF MainThread, Stop

LEMMA AcceptThreadRefines ==
    ASSUME IInv, IInv', AcceptThread
    PROVE  C!Next \/ UNCHANGED owner
<1> USE DEF acceptFrame, mainVars, flagVars, acceptVars, workerVars, connVars
<1>1. CASE \E c \in Conns : Accept(c)
  BY <1>1, AcceptRefines DEF C!Next
<1>2. CASE GateRejects \/ CapRejects \/ HandshakeFails
  BY <1>2, RejectRefines DEF GateRejects, CapRejects, HandshakeFails, C!Next
<1>3. CASE PushSession
  BY <1>3, PushRefines DEF C!Next
<1>4. CASE AcceptLoop \/ AcceptNothing \/ AcceptError \/ GatePasses \/ CapPasses
           \/ CreateSession
  <2>1. UNCHANGED <<pool, held, incoming, fd>>
    BY <1>4 DEF AcceptLoop, AcceptNothing, AcceptError, GatePasses, CapPasses,
                CreateSession
  <2> QED
    BY <2>1, OwnersUntouched
<1> QED
  BY <1>1, <1>2, <1>3, <1>4 DEF AcceptThread

LEMMA WorkerRefines ==
    ASSUME IInv, IInv', NEW w \in Workers, WorkerStep(w)
    PROVE  C!Next \/ UNCHANGED owner
<1> USE DEF workerFrame, mainVars, flagVars, acceptVars, workerVars, connVars
<1>1. CASE Take(w) \/ GiveBack(w)
  BY <1>1, TakeRefines, GiveBackRefines DEF C!Next
<1>2. CASE ServeFails(w) \/ ServeEof(w)
  <2>1. /\ UNCHANGED <<pool, held, incoming>>
        /\ serving[w] # NoConn
        /\ \/ fd' = [fd EXCEPT ![serving[w]] = "closed"]
           \/ fd' = [fd EXCEPT ![serving[w]] = "left"]
    BY <1>2 DEF ServeFails, ServeEof, InRequest
  <2>2. fd[serving[w]] = "open" /\ serving[w] \in Conns /\ fd \in [Conns -> {"none", "backlog", "open", "closed", "left"}]
    BY <2>1 DEF IInv, OnlyOpenSessionsServed, TypeOK
  <2>3. \A c \in Conns : fd'[c] \in {"none", "backlog"} <=> fd[c] \in {"none", "backlog"}
    BY <2>1, <2>2
  <2> QED
    BY <2>1, <2>3, OwnersUntouched
<1>3. CASE WorkerLoop(w) \/ (\E c \in Conns : Enter(w, c)) \/ Served(w)
           \/ ServeCrashes(w) \/ ServedAll(w)
  <2>1. UNCHANGED <<pool, held, incoming, fd>>
    BY <1>3 DEF WorkerLoop, Enter, Served, ServeCrashes, ServedAll
  <2> QED
    BY <2>1, OwnersUntouched
<1> QED
  BY <1>1, <1>2, <1>3 DEF WorkerStep

LEMMA OthersRefine ==
    ASSUME IInv, IInv',
           \/ MonitorWakes \/ KilledByTlsWrite \/ UNCHANGED vars
           \/ \E c \in Conns : Connect(c) \/ ClientLeaves(c)
    PROVE  UNCHANGED owner
<1> USE DEF mainVars, flagVars, acceptVars, workerVars, connVars
<1>1. CASE MonitorWakes \/ KilledByTlsWrite \/ UNCHANGED vars
           \/ \E c \in Conns : ClientLeaves(c)
  <2>1. UNCHANGED <<pool, held, incoming, fd>>
    BY <1>1 DEF MonitorWakes, KilledByTlsWrite, ClientLeaves, vars
  <2> QED
    BY <2>1, OwnersUntouched
<1>2. CASE \E c \in Conns : Connect(c)
  <2>1. PICK c \in Conns : Connect(c)
    BY <1>2
  <2>2. UNCHANGED <<pool, held, incoming>>
    BY <2>1 DEF Connect
  <2>3. \A x \in Conns : fd'[x] \in {"none", "backlog"} <=> fd[x] \in {"none", "backlog"}
    BY <2>1 DEF Connect, IInv, TypeOK
  <2> QED
    BY <2>2, <2>3, OwnersUntouched
<1> QED
  BY <1>1, <1>2

LEMMA InitRefines == Init => C!Init
<1> SUFFICES ASSUME Init PROVE C!Init
  OBVIOUS
<1>1. \A c \in Conns : owner[c] = "client"
  BY InitHolds, OwnerFacts DEF Init
<1> QED
  BY <1>1 DEF C!Init, owner

\* The daemon implements Connections: for any number of connections, workers and
\* signals, a session changes hands only the way the abstract specification says.
THEOREM DaemonRefines == Spec => ImplementsConnections
<1>1. Init => C!Init
  BY InitRefines
<1>2. IInv /\ IInv' /\ [Next]_vars => [C!Next]_owner
  <2> SUFFICES ASSUME IInv, IInv', [Next]_vars PROVE C!Next \/ UNCHANGED owner
    OBVIOUS
  <2>1. CASE MainThread \/ Signal
    BY <2>1, MainRefines
  <2>2. CASE AcceptThread
    BY <2>2, AcceptThreadRefines
  <2>3. CASE \E w \in Workers : WorkerStep(w)
    BY <2>3, WorkerRefines
  <2>4. CASE \/ MonitorWakes \/ KilledByTlsWrite \/ UNCHANGED vars
             \/ \E c \in Conns : Connect(c) \/ ClientLeaves(c)
    BY <2>4, OthersRefine
  <2> QED
    BY <2>1, <2>2, <2>3, <2>4 DEF Next
<1> QED
  BY <1>1, <1>2, DaemonInvariant, PTL DEF Spec, ImplementsConnections, C!Spec
----------------------------------------------------------------------------
\* How the daemon exits.  What a call of stop() has done when it is past each of its
\* steps stays done while it is at the later ones, and once running_ is cleared either
\* some call is past that assignment or one has done everything.

Cleared == {"closeListen", "joinAccept", "joinMonitor", "joinWorkers", "closeSessions",
            "cleanup", "unload"}
Unbound == {"joinAccept", "joinMonitor", "joinWorkers", "closeSessions", "cleanup",
            "unload"}
MonitorJoined == {"joinWorkers", "closeSessions", "cleanup", "unload"}

AcceptOver == acceptPc \in {"none", "joined"}
MonitorOver == monitorPc \in {"none", "joined"}
WorkersOver == \A w \in Workers : workerPc[w] \in {"none", "joined"}
Stopped == ~listening /\ AcceptOver /\ MonitorOver /\ WorkersOver /\ pool = {}

\* Without signals during start(), stop() runs only before it and after it.
Starting ==
    /\ mainPc = "init" => ~running /\ ~InStop(StopPcs \ {"check"})
    /\ mainPc \in {"workers", "monitor"} => running /\ frames = <<>>

Steps ==
    /\ InStop(Cleared) => ~running
    /\ InStop(Unbound) => ~listening
    /\ AcceptJoined => AcceptOver
    /\ InStop(MonitorJoined) => MonitorOver
    /\ WorkersJoined => WorkersOver
    /\ Cleaning => \A c \in pool : ~active[c]
    /\ InStop({"unload"}) => pool = {}

Leaving ==
    /\ ~running /\ mainPc \in {"run", "stopping", "exit"} => InStop(Cleared) \/ Stopped
    /\ running /\ mainPc = "stopping" => frames # <<>>
    /\ mainPc = "exit" => ~running /\ frames = <<>>

\* Who answers for a descriptor: an active session has an owner, an open descriptor
\* belongs to an active session or to the accept thread, a TLS session leaves none
\* behind, and nobody waits in the backlog of a closed socket.
Descriptors ==
    /\ \A c \in Conns : active[c] => c \in Live \/ c = incoming
    /\ \A c \in Conns : fd[c] = "open" => active[c] \/ c = incoming
    /\ \A c \in Conns : fd[c] = "left" => ~Tls
    /\ ~listening => \A c \in Conns : fd[c] # "backlog"

ExitInv == Starting /\ Steps /\ Leaving /\ Descriptors

LEMMA ExitInitHolds == Init => ExitInv
<1> SUFFICES ASSUME Init PROVE ExitInv
  OBVIOUS
<1>1. \A P : ~InStop(P)
  BY DEF Init, InStop
<1>2. Starting /\ Steps /\ Leaving
  BY <1>1 DEF Init, Starting, Steps, Leaving, Cleaning, WorkersJoined, AcceptJoined
<1>3. Descriptors
  BY DEF Init, Descriptors
<1> QED
  BY <1>2, <1>3 DEF ExitInv

\* A call that is at pc is at one of the places of every set with pc.
LEMMA AtInStop ==
    ASSUME frames \in Seq(StopPcs), NEW pc, At(pc)
    PROVE  \A P : pc \in P => InStop(P)
<1>1. 1 \in 1..Len(frames) /\ frames[1] = pc
  BY DEF At
<1> QED
  BY <1>1 DEF InStop

LEMMA GotoInStop ==
    ASSUME frames \in Seq(StopPcs), NEW pc, At(pc), NEW x \in StopPcs, Goto(x)
    PROVE  \A P : x \in P => InStop(P)'
<1>1. frames # <<>> /\ frames' = [frames EXCEPT ![1] = x]
  BY DEF At, Goto
<1>2. 1 \in 1..Len(frames') /\ frames'[1] = x
  BY <1>1, FramesGoto
<1> QED
  BY <1>2 DEF InStop

\* A call past one step is past the earlier ones.
LEMMA LaterSteps ==
    /\ InStop({"unload"}) => WorkersJoined
    /\ Cleaning => WorkersJoined
    /\ WorkersJoined => InStop(MonitorJoined)
    /\ InStop(MonitorJoined) => AcceptJoined
    /\ AcceptJoined => InStop(Unbound)
    /\ InStop(Unbound) => InStop(Cleared)
<1>1. ASSUME NEW P, NEW Q, P \subseteq Q, InStop(P)
      PROVE  InStop(Q)
  BY <1>1 DEF InStop
<1>2. /\ {"unload"} \subseteq {"closeSessions", "cleanup", "unload"}
      /\ {"cleanup"} \subseteq {"closeSessions", "cleanup", "unload"}
      /\ {"closeSessions", "cleanup", "unload"} \subseteq MonitorJoined
      /\ MonitorJoined \subseteq
           {"joinMonitor", "joinWorkers", "closeSessions", "cleanup", "unload"}
      /\ {"joinMonitor", "joinWorkers", "closeSessions", "cleanup", "unload"}
           \subseteq Unbound
      /\ Unbound \subseteq Cleared
  BY DEF MonitorJoined, Unbound, Cleared
<1> QED
  BY <1>1, <1>2 DEF Cleaning, WorkersJoined, AcceptJoined

\* A step of another thread: one that is over stays over, and when the accept thread
\* and the workers are over the sessions stay as they are.
LEMMA ThreadStep ==
    ASSUME ExitInv, UNCHANGED <<mainPc, frames, running, listening>>,
           AcceptOver => AcceptOver',
           MonitorOver => MonitorOver',
           WorkersOver => WorkersOver',
           AcceptOver /\ WorkersOver => UNCHANGED <<pool, active>>
    PROVE  Starting' /\ Steps' /\ Leaving'
<1>1. \A P : InStop(P)' = InStop(P)
  BY DEF InStop
<1>2. Cleaning' = Cleaning /\ WorkersJoined' = WorkersJoined /\ AcceptJoined' = AcceptJoined
  BY SameFrames
<1>3. Starting'
  BY <1>1 DEF ExitInv, Starting
<1>4. Steps'
  BY <1>1, <1>2, LaterSteps DEF ExitInv, Steps
<1>5. Stopped => Stopped'
  BY DEF Stopped
<1>6. Leaving'
  BY <1>1, <1>5 DEF ExitInv, Leaving
<1> QED
  BY <1>3, <1>4, <1>6
LEMMA AcceptExits ==
    ASSUME IInv, ExitInv, AcceptThread
    PROVE  ExitInv'
<1> USE DEF acceptFrame, mainVars, flagVars, acceptVars, workerVars, connVars
<1>1. acceptPc \notin {"none", "joined"}
  BY DEF AcceptThread, AcceptLoop, AcceptNothing, AcceptError, Accept, GateRejects,
         GatePasses, CapRejects, CapPasses, CreateSession, HandshakeFails, PushSession
<1>2. UNCHANGED <<mainPc, frames, running, listening, monitorPc, workerPc, held>>
  BY DEF AcceptThread, AcceptLoop, AcceptNothing, AcceptError, Accept, GateRejects,
         GatePasses, CapRejects, CapPasses, CreateSession, HandshakeFails, PushSession,
         Reject
<1>3. Starting' /\ Steps' /\ Leaving'
  BY <1>1, <1>2, ThreadStep DEF AcceptOver, MonitorOver, WorkersOver
<1>4. TypeOK /\ OwnersAtWork /\ Descriptors
  BY DEF IInv, ExitInv
<1>5. Descriptors'
  <2>1. CASE AcceptLoop \/ AcceptNothing \/ AcceptError \/ GatePasses \/ CapPasses
    BY <1>2, <1>4, <2>1 DEF AcceptLoop, AcceptNothing, AcceptError, GatePasses,
                            CapPasses, Descriptors, Live
  <2>2. CASE \E c \in Conns : Accept(c)
    <3>1. PICK c \in Conns : Accept(c)
      BY <2>2
    <3>2. /\ fd' = [fd EXCEPT ![c] = "open"] /\ incoming' = c /\ incoming = NoConn
          /\ active' = active /\ pool' = pool
      BY <1>4, <3>1 DEF Accept, OwnersAtWork
    <3>3. \A x \in Conns : x # NoConn
      BY DaemonConstants
    <3> QED
      BY <1>2, <1>4, <3>2, <3>3 DEF Descriptors, Live, TypeOK
  <2>3. CASE GateRejects \/ CapRejects \/ HandshakeFails
    <3>1. /\ fd' = [fd EXCEPT ![incoming] = "closed"] /\ incoming' = NoConn
          /\ active' = active /\ pool' = pool /\ acceptPc \in {"gate", "cap", "create"}
      BY <2>3 DEF GateRejects, CapRejects, HandshakeFails, Reject
    <3>2. incoming \in Conns /\ ~active[incoming]
      BY <1>4, <3>1 DEF OwnersAtWork, TypeOK
    <3> QED
      BY <1>2, <1>4, <3>1, <3>2 DEF Descriptors, Live, TypeOK
  <2>4. CASE CreateSession
    <3>1. /\ active' = [active EXCEPT ![incoming] = TRUE]
          /\ UNCHANGED <<incoming, fd, pool>>
      BY <2>4 DEF CreateSession
    <3>2. \A c \in Conns : c # incoming => active'[c] = active[c]
      BY <1>4, <3>1 DEF TypeOK
    <3> QED
      BY <1>2, <1>4, <3>1, <3>2 DEF Descriptors, Live
  <2>5. CASE PushSession
    <3>1. /\ pool' = pool \cup {incoming} /\ incoming' = NoConn
          /\ UNCHANGED <<fd, active>> /\ acceptPc = "push"
      BY <2>5 DEF PushSession
    <3>2. incoming \in Conns /\ active[incoming]
      BY <1>4, <3>1 DEF OwnersAtWork, TypeOK
    <3> QED
      BY <1>2, <1>4, <3>1, <3>2 DEF Descriptors, Live
  <2> QED
    BY <2>1, <2>2, <2>3, <2>4, <2>5 DEF AcceptThread
<1> QED
  BY <1>3, <1>5 DEF ExitInv

LEMMA WorkerExits ==
    ASSUME IInv, ExitInv, NEW w \in Workers, WorkerStep(w)
    PROVE  ExitInv'
<1> USE DEF workerFrame, mainVars, flagVars, acceptVars, workerVars, connVars
<1>1. workerPc[w] \notin {"none", "joined"}
  BY DEF WorkerStep, WorkerLoop, Take, Enter, Served, ServeFails, ServeEof, ServeCrashes,
         ServedAll, GiveBack, InRequest
<1>2. UNCHANGED <<mainPc, frames, running, listening, monitorPc, acceptPc, incoming>>
  BY DEF WorkerStep, WorkerLoop, Take, Enter, Served, ServeFails, ServeEof, ServeCrashes,
         ServedAll, GiveBack
<1>3. Starting' /\ Steps' /\ Leaving'
  BY <1>1, <1>2, ThreadStep DEF AcceptOver, MonitorOver, WorkersOver
<1>4. TypeOK /\ OwnersAtWork /\ OnlyOpenSessionsServed /\ Descriptors
  BY DEF IInv, ExitInv
<1>5. Descriptors'
  <2>1. CASE WorkerLoop(w) \/ (\E c \in Conns : Enter(w, c)) \/ Served(w)
             \/ ServeCrashes(w) \/ ServedAll(w)
    <3>1. UNCHANGED <<pool, held, fd, active>>
      BY <2>1 DEF WorkerLoop, Enter, Served, ServeCrashes, ServedAll
    <3> QED
      BY <1>2, <1>4, <3>1 DEF Descriptors, Live
  <2>2. CASE Take(w)
    <3> DEFINE mine == {c \in pool : active[c]}
    <3>1. /\ held' = [held EXCEPT ![w] = mine] /\ pool' = pool \ mine
          /\ UNCHANGED <<fd, active>> /\ workerPc[w] = "take"
      BY <2>2 DEF Take
    <3>2. held[w] = {}
      BY <1>4, <3>1 DEF OwnersAtWork
    <3>3. \A c \in Live : c \in Live'
      BY <1>4, <3>1, <3>2 DEF Live, TypeOK
    <3> QED
      BY <1>2, <1>4, <3>1, <3>3 DEF Descriptors
  <2>3. CASE GiveBack(w)
    <3>1. /\ held' = [held EXCEPT ![w] = {}]
          /\ pool' = pool \cup {c \in held[w] : active[c]}
          /\ CloseAll({c \in held[w] : ~active[c]})
      BY <2>3 DEF GiveBack
    <3>2. \A c \in Live : active[c] => c \in Live'
      BY <1>4, <3>1 DEF Live, TypeOK
    <3>3. \A c \in Conns : /\ active'[c] <=> active[c]
                           /\ fd'[c] = fd[c] \/ fd'[c] = "closed"
      BY <1>4, <3>1, CloseAllMeans
    <3> QED
      BY <1>2, <1>4, <3>2, <3>3 DEF Descriptors
  <2>4. CASE ServeFails(w) \/ ServeEof(w)
    <3> DEFINE s == serving[w]
    <3>1. /\ active' = [active EXCEPT ![s] = FALSE]
          /\ \/ fd' = [fd EXCEPT ![s] = "closed"]
             \/ ~Tls /\ fd' = [fd EXCEPT ![s] = "left"]
          /\ UNCHANGED <<pool, held>> /\ s # NoConn
      BY <2>4 DEF ServeFails, ServeEof, InRequest
    <3>2. s \in Conns
      BY <1>4, <3>1 DEF TypeOK
    <3> HIDE DEF s
    <3>3. /\ ~active'[s]
          /\ fd'[s] = "closed" \/ (fd'[s] = "left" /\ ~Tls)
          /\ \A c \in Conns : c # s => active'[c] = active[c] /\ fd'[c] = fd[c]
      BY <1>4, <3>1, <3>2 DEF TypeOK
    <3> QED
      BY <1>2, <1>4, <3>1, <3>3 DEF Descriptors, Live
  <2> QED
    BY <2>1, <2>2, <2>3, <2>4 DEF WorkerStep
<1> QED
  BY <1>3, <1>5 DEF ExitInv

LEMMA OthersExit ==
    ASSUME IInv, ExitInv,
           \/ MonitorWakes \/ KilledByTlsWrite \/ UNCHANGED vars
           \/ \E c \in Conns : Connect(c) \/ ClientLeaves(c)
    PROVE  ExitInv'
<1> USE DEF mainVars, flagVars, acceptVars, workerVars, connVars
<1>1. UNCHANGED <<mainPc, frames, running, listening, acceptPc, workerPc, held, pool,
                  incoming, active>>
  BY DEF MonitorWakes, KilledByTlsWrite, Connect, ClientLeaves, vars
<1>2. MonitorOver => MonitorOver'
  BY DEF MonitorWakes, KilledByTlsWrite, Connect, ClientLeaves, vars, MonitorOver
<1>3. Starting' /\ Steps' /\ Leaving'
  BY <1>1, <1>2, ThreadStep DEF AcceptOver, WorkersOver
<1>4. Descriptors'
  <2>1. TypeOK /\ Descriptors
    BY DEF IInv, ExitInv
  <2>2. CASE \E c \in Conns : Connect(c)
    BY <1>1, <2>1, <2>2 DEF Connect, Descriptors, Live, TypeOK
  <2>3. CASE ~\E c \in Conns : Connect(c)
    <3>1. fd' = fd
      BY <2>3 DEF MonitorWakes, KilledByTlsWrite, ClientLeaves, vars
    <3> QED
      BY <1>1, <2>1, <3>1 DEF Descriptors, Live
  <2> QED
    BY <2>2, <2>3
<1> QED
  BY <1>3, <1>4 DEF ExitInv
\* start(), the event loop and the end of handleStart, when no call of stop() is on.
LEMMA StartExits ==
    ASSUME IInv, ExitInv,
           \/ StartFailsEarly \/ StartFailsLate \/ StartAccept
           \/ (\E w \in Workers : StartWorker(w)) \/ StartMonitor \/ Exit
    PROVE  ExitInv'
<1> USE DEF flagVars, acceptVars, workerVars, connVars
<1>1. frames' = frames /\ frames = <<>>
  BY DEF StartFailsEarly, StartFailsLate, StartAccept, StartWorker, StartMonitor,
         Exit, MainIsFree
<1>2. \A P : ~InStop(P)' /\ ~InStop(P)
  BY <1>1 DEF InStop
<1>3. Steps'
  BY <1>2 DEF Steps, Cleaning, WorkersJoined, AcceptJoined
<1>4. Descriptors'
  <2>1. UNCHANGED <<fd, active, incoming, pool, held>> /\ (~listening' => ~listening)
    BY DEF StartFailsEarly, StartFailsLate, StartAccept, StartWorker, StartMonitor, Exit
  <2> QED
    BY <2>1 DEF ExitInv, Descriptors, Live
<1>5. Starting'
  <2>1. CASE StartFailsEarly \/ StartFailsLate \/ StartMonitor \/ Exit
    BY <2>1 DEF StartFailsEarly, StartFailsLate, StartMonitor, Exit, Starting
  <2>2. CASE StartAccept
    BY <1>1, <2>2 DEF StartAccept, Starting
  <2>3. CASE \E w \in Workers : StartWorker(w)
    BY <1>1, <2>3 DEF StartWorker, ExitInv, Starting
  <2> QED
    BY <2>1, <2>2, <2>3
<1>6. Leaving'
  <2>1. CASE StartFailsEarly \/ StartFailsLate \/ StartAccept
             \/ \E w \in Workers : StartWorker(w)
    BY <2>1 DEF StartFailsEarly, StartFailsLate, StartAccept, StartWorker, Leaving
  <2>2. CASE StartMonitor
    BY <2>2 DEF StartMonitor, ExitInv, Starting, Leaving
  <2>3. CASE Exit
    <3>1. /\ mainPc = "stopping" /\ mainPc' = "exit"
          /\ UNCHANGED <<running, listening, acceptPc, monitorPc, workerPc, pool>>
      BY <2>3 DEF Exit
    <3>2. ~running /\ Stopped
      BY <1>1, <1>2, <3>1 DEF ExitInv, Leaving
    <3>3. Stopped'
      BY <3>1, <3>2 DEF Stopped, AcceptOver, MonitorOver, WorkersOver
    <3> QED
      BY <1>1, <3>1, <3>2, <3>3 DEF Leaving
  <2> QED
    BY <2>1, <2>2, <2>3
<1> QED
  BY <1>3, <1>4, <1>5, <1>6 DEF ExitInv

\* main calls stop(), or the signal handler does; start() is not interrupted.
LEMMA CallExits ==
    ASSUME ~SignalDuringStart, IInv, ExitInv, LeaveLoop \/ Signal
    PROVE  ExitInv'
<1> USE DEF flagVars, acceptVars, workerVars, connVars
<1>1. frames' = <<"check">> \o frames /\ (LeaveLoop => frames = <<>>)
  <2>1. CASE Signal
    BY <2>1 DEF Signal, LeaveLoop, MainIsFree
  <2>2. CASE LeaveLoop
    <3>1. frames = <<>> /\ frames' = <<"check">>
      BY <2>2 DEF LeaveLoop, MainIsFree
    <3> QED
      BY <3>1
  <2> QED
    BY <2>1, <2>2
<1>2. frames \in Seq(StopPcs)
  BY DEF IInv, TypeOK
<1>3. /\ \A P : InStop(P)' => InStop(P) \/ "check" \in P
      /\ \A P : InStop(P) => InStop(P)'
  BY <1>1, <1>2, AfterCall
<1>4. /\ \/ mainPc \in {"init", "run", "stopping"} /\ mainPc' = mainPc
         \/ mainPc = "run" /\ mainPc' = "stopping" /\ frames = <<>>
      /\ UNCHANGED <<running, listening, acceptPc, incoming, workerPc, held, fd, active,
                     pool, monitorPc>>
  BY <1>1 DEF LeaveLoop, Signal
<1>5. Starting'
  BY <1>3, <1>4 DEF ExitInv, Starting
<1>6. Steps'
  <2>1. /\ InStop(Cleared)' => InStop(Cleared)
        /\ InStop(Unbound)' => InStop(Unbound)
        /\ AcceptJoined' => AcceptJoined
        /\ InStop(MonitorJoined)' => InStop(MonitorJoined)
        /\ WorkersJoined' => WorkersJoined
        /\ Cleaning' => Cleaning
        /\ InStop({"unload"})' => InStop({"unload"})
    BY <1>3 DEF Cleared, Unbound, AcceptJoined, MonitorJoined, WorkersJoined, Cleaning
  <2> QED
    BY <1>4, <2>1 DEF ExitInv, Steps, AcceptOver, MonitorOver, WorkersOver
<1>7. Leaving'
  <2>1. Stopped => Stopped'
    BY <1>4 DEF Stopped, AcceptOver, MonitorOver, WorkersOver
  <2>2. frames' # <<>>
    BY <1>1, <1>2
  <2> QED
    BY <1>3, <1>4, <2>1, <2>2 DEF ExitInv, Leaving
<1>8. Descriptors'
  BY <1>4 DEF ExitInv, Descriptors, Live
<1> QED
  BY <1>5, <1>6, <1>7, <1>8 DEF ExitInv
\* A call of stop() that is past its first test moves on.
LEMMA MoveExits ==
    ASSUME IInv, ExitInv, NEW pc \in StopPcs, At(pc), NEW x \in StopPcs, Goto(x),
           pc = "check" => running, mainPc' = mainPc,
           \/ x \in Cleared
           \/ pc \notin Cleared /\ running' = running /\ (Stopped => Stopped')
    PROVE  /\ Starting' /\ Leaving'
           /\ \A P : InStop(P)' => InStop(P) \/ x \in P
           /\ \A P : pc \in P => InStop(P)
<1>1. frames \in Seq(StopPcs)
  BY DEF IInv, TypeOK
<1>2. /\ \A P : InStop(P)' => InStop(P) \/ x \in P
      /\ \A P : pc \in P => InStop(P)
      /\ \A P : x \in P => InStop(P)'
      /\ \A P : InStop(P) => InStop(P)' \/ pc \in P
  BY <1>1, AfterGoto, AtInStop, GotoInStop
<1>3. frames # <<>> /\ mainPc \notin {"init", "workers", "monitor", "exit"}
  <2>1. frames # <<>>
    BY DEF At
  <2>2. pc # "check" => InStop(StopPcs \ {"check"})
    BY <1>2
  <2> QED
    BY <2>1, <2>2 DEF ExitInv, Starting, Leaving
<1>4. frames' # <<>>
  <2>1. InStop(StopPcs)'
    BY <1>2
  <2> QED
    BY <2>1 DEF InStop
<1>5. Starting'
  BY <1>3 DEF Starting
<1>6. Leaving'
  BY <1>2, <1>3, <1>4 DEF ExitInv, Leaving
<1> QED
  BY <1>2, <1>5, <1>6

\* A call returns because running_ is clear or because it has done everything.
LEMMA ReturnExits ==
    ASSUME IInv, ExitInv, (StopCheck /\ ~running) \/ StopUnload
    PROVE  ExitInv'
<1> USE DEF flagVars, acceptVars, workerVars, connVars
<1>1. PICK pc \in {"check", "unload"} :
         At(pc) /\ Return /\ (pc = "check" => ~running)
  BY DEF StopCheck, StopUnload
<1>2. frames \in Seq(StopPcs) /\ frames # <<>>
  BY <1>1 DEF IInv, TypeOK, At
<1>3. /\ \A P : InStop(P)' => InStop(P)
      /\ \A P : InStop(P) => InStop(P)' \/ pc \in P
      /\ \A P : pc \in P => InStop(P)
  BY <1>1, <1>2, AfterReturn, AtInStop
<1>4. UNCHANGED <<mainPc, running, listening, acceptPc, incoming, workerPc, held, fd,
                  active, pool, monitorPc>>
  BY DEF StopCheck, StopUnload
<1>5. pc = "unload" => ~running /\ Stopped
  <2>1. pc = "unload" => InStop({"unload"})
    BY <1>3
  <2> QED
    BY <2>1, LaterSteps DEF ExitInv, Steps, Stopped
<1>6. ~running /\ mainPc # "exit" /\ mainPc \notin {"workers", "monitor"}
  BY <1>1, <1>2, <1>5 DEF ExitInv, Leaving, Starting
<1>7. Starting'
  BY <1>3, <1>4, <1>6 DEF ExitInv, Starting
<1>8. Steps'
  BY <1>3, <1>4 DEF ExitInv, Steps, Cleaning, WorkersJoined, AcceptJoined, AcceptOver,
                    MonitorOver, WorkersOver
<1>9. Leaving'
  <2>1. Stopped => Stopped'
    BY <1>4 DEF Stopped, AcceptOver, MonitorOver, WorkersOver
  <2>2. InStop(Cleared) => InStop(Cleared)' \/ pc = "unload"
    BY <1>1, <1>3 DEF Cleared
  <2> QED
    BY <1>4, <1>5, <1>6, <2>1, <2>2 DEF ExitInv, Leaving
<1>10. Descriptors'
  BY <1>4 DEF ExitInv, Descriptors, Live
<1> QED
  BY <1>7, <1>8, <1>9, <1>10 DEF ExitInv

\* The steps up to the assignment of running_.
LEMMA StopBeginExits ==
    ASSUME IInv, ExitInv, (StopCheck /\ running) \/ StopSetShutdown \/ StopSetRunning
    PROVE  ExitInv'
<1> USE DEF flagVars, acceptVars, workerVars, connVars
<1>1. UNCHANGED <<mainPc, listening, acceptPc, incoming, workerPc, held, fd, active, pool,
                  monitorPc>>
  BY DEF StopCheck, StopSetShutdown, StopSetRunning
<1>2. Stopped => Stopped'
  BY <1>1 DEF Stopped, AcceptOver, MonitorOver, WorkersOver
<1>3. /\ Starting' /\ Leaving'
      /\ InStop(Cleared)' => ~running'
      /\ \A P : InStop(P)' => InStop(P) \/ P \cap {"setShutdown", "setRunning", "closeListen"} # {}
  <2>1. CASE StopCheck /\ running
    <3>1. At("check") /\ Goto("setShutdown") /\ running' = running
      BY <2>1 DEF StopCheck
    <3>2. {"check", "setShutdown"} \subseteq StopPcs \ Cleared
      BY DEF StopPcs, Cleared
    <3>3. /\ Starting' /\ Leaving'
          /\ \A P : InStop(P)' => InStop(P) \/ "setShutdown" \in P
      BY <1>1, <1>2, <2>1, <3>1, <3>2, MoveExits
    <3> QED
      BY <3>1, <3>2, <3>3 DEF ExitInv, Steps
  <2>2. CASE StopSetShutdown
    <3>1. At("setShutdown") /\ Goto("setRunning") /\ running' = running
      BY <2>2 DEF StopSetShutdown
    <3>2. {"setShutdown", "setRunning"} \subseteq StopPcs \ Cleared
      BY DEF StopPcs, Cleared
    <3>3. /\ Starting' /\ Leaving'
          /\ \A P : InStop(P)' => InStop(P) \/ "setRunning" \in P
      BY <1>1, <1>2, <3>1, <3>2, MoveExits
    <3> QED
      BY <3>1, <3>2, <3>3 DEF ExitInv, Steps
  <2>3. CASE StopSetRunning
    <3>1. At("setRunning") /\ Goto("closeListen") /\ ~running'
      BY <2>3 DEF StopSetRunning
    <3>2. {"setRunning", "closeListen"} \subseteq StopPcs /\ "closeListen" \in Cleared
      BY DEF StopPcs, Cleared
    <3>3. /\ Starting' /\ Leaving'
          /\ \A P : InStop(P)' => InStop(P) \/ "closeListen" \in P
      BY <1>1, <3>1, <3>2, MoveExits
    <3> QED
      BY <3>1, <3>3
  <2> QED
    BY <2>1, <2>2, <2>3
<1>4. Steps'
  <2>1. /\ InStop(Unbound)' => InStop(Unbound)
        /\ AcceptJoined' => AcceptJoined
        /\ InStop(MonitorJoined)' => InStop(MonitorJoined)
        /\ WorkersJoined' => WorkersJoined
        /\ Cleaning' => Cleaning
        /\ InStop({"unload"})' => InStop({"unload"})
    BY <1>3 DEF Unbound, AcceptJoined, MonitorJoined, WorkersJoined, Cleaning
  <2> QED
    BY <1>1, <1>3, <2>1 DEF ExitInv, Steps, AcceptOver, MonitorOver, WorkersOver
<1>5. Descriptors'
  BY <1>1 DEF ExitInv, Descriptors, Live
<1> QED
  BY <1>3, <1>4, <1>5 DEF ExitInv
\* close(listen_socket_) and the joins.
LEMMA StopJoinsExits ==
    ASSUME IInv, ExitInv,
           StopCloseListen \/ StopJoinAccept \/ StopJoinMonitor \/ StopJoinWorkers
    PROVE  ExitInv'
<1> USE DEF flagVars, acceptVars, workerVars, connVars
<1>1. TypeOK /\ Steps /\ Descriptors
  BY DEF IInv, ExitInv
<1>2. CASE StopCloseListen
  <2>1. /\ At("closeListen") /\ Goto("joinAccept") /\ ~listening'
        /\ UNCHANGED <<mainPc, running, acceptPc, incoming, workerPc, held, active, pool,
                       monitorPc>>
    BY <1>2 DEF StopCloseListen
  <2>2. {"closeListen", "joinAccept"} \subseteq StopPcs \cap Cleared
    BY DEF StopPcs, Cleared
  <2>3. /\ Starting' /\ Leaving' /\ InStop(Cleared)
        /\ \A P : InStop(P)' => InStop(P) \/ "joinAccept" \in P
    BY <2>1, <2>2, MoveExits
  <2>4. Steps'
    BY <1>1, <2>1, <2>3
       DEF Steps, AcceptJoined, MonitorJoined, WorkersJoined, Cleaning, AcceptOver,
           MonitorOver, WorkersOver
  <2>5. Descriptors'
    <3>1. \A c \in Conns : fd'[c] = IF fd[c] = "backlog" THEN "closed" ELSE fd[c]
      BY <1>2 DEF StopCloseListen
    <3> QED
      BY <1>1, <2>1, <3>1 DEF Descriptors, Live
  <2> QED
    BY <2>3, <2>4, <2>5 DEF ExitInv
<1>3. CASE StopJoinAccept
  <2>1. /\ At("joinAccept") /\ Goto("joinMonitor") /\ acceptPc' \in {"none", "joined"}
        /\ UNCHANGED <<mainPc, running, listening, incoming, workerPc, held, active, pool,
                       monitorPc, fd>>
    BY <1>3 DEF StopJoinAccept, Joined
  <2>2. {"joinAccept", "joinMonitor"} \subseteq StopPcs \cap Cleared
    BY DEF StopPcs, Cleared
  <2>3. /\ Starting' /\ Leaving' /\ InStop(Cleared) /\ InStop(Unbound)
        /\ \A P : InStop(P)' => InStop(P) \/ "joinMonitor" \in P
    BY <2>1, <2>2, MoveExits DEF Unbound
  <2>4. Steps'
    BY <1>1, <2>1, <2>3
       DEF Steps, MonitorJoined, WorkersJoined, Cleaning, AcceptOver, MonitorOver,
           WorkersOver
  <2>5. Descriptors'
    BY <1>1, <2>1 DEF Descriptors, Live
  <2> QED
    BY <2>3, <2>4, <2>5 DEF ExitInv
<1>4. CASE StopJoinMonitor
  <2>1. /\ At("joinMonitor") /\ Goto("joinWorkers") /\ monitorPc' \in {"none", "joined"}
        /\ UNCHANGED <<mainPc, running, listening, incoming, workerPc, held, active, pool,
                       acceptPc, fd>>
    BY <1>4 DEF StopJoinMonitor, Joined
  <2>2. {"joinMonitor", "joinWorkers"} \subseteq StopPcs \cap Cleared
    BY DEF StopPcs, Cleared
  <2>3. /\ Starting' /\ Leaving' /\ InStop(Cleared) /\ InStop(Unbound) /\ AcceptJoined
        /\ \A P : InStop(P)' => InStop(P) \/ "joinWorkers" \in P
    BY <2>1, <2>2, MoveExits DEF Unbound, AcceptJoined
  <2>4. Steps'
    BY <1>1, <2>1, <2>3
       DEF Steps, WorkersJoined, Cleaning, AcceptOver, MonitorOver, WorkersOver
  <2>5. Descriptors'
    BY <1>1, <2>1 DEF Descriptors, Live
  <2> QED
    BY <2>3, <2>4, <2>5 DEF ExitInv
<1>5. CASE StopJoinWorkers
  <2>1. /\ At("joinWorkers") /\ Goto("closeSessions")
        /\ \A w \in Workers : workerPc'[w] \in {"none", "joined"}
        /\ UNCHANGED <<mainPc, running, listening, incoming, held, active, pool, acceptPc,
                       monitorPc, fd>>
    BY <1>5 DEF StopJoinWorkers, Joined
  <2>2. {"joinWorkers", "closeSessions"} \subseteq StopPcs \cap Cleared
    BY DEF StopPcs, Cleared
  <2>3. /\ Starting' /\ Leaving'
        /\ InStop(Cleared) /\ InStop(Unbound) /\ AcceptJoined /\ InStop(MonitorJoined)
        /\ \A P : InStop(P)' => InStop(P) \/ "closeSessions" \in P
    BY <2>1, <2>2, MoveExits DEF Unbound, AcceptJoined, MonitorJoined
  <2>4. Steps'
    BY <1>1, <2>1, <2>3 DEF Steps, Cleaning, AcceptOver, MonitorOver, WorkersOver
  <2>5. Descriptors'
    BY <1>1, <2>1 DEF Descriptors, Live
  <2> QED
    BY <2>3, <2>4, <2>5 DEF ExitInv
<1> QED
  BY <1>2, <1>3, <1>4, <1>5

\* closeSessions and cleanupSessions, when every thread is over.
LEMMA StopSessionsExits ==
    ASSUME IInv, ExitInv, StopCloseSessions \/ StopCleanup
    PROVE  ExitInv'
<1> USE DEF flagVars, acceptVars, workerVars, connVars
<1>1. TypeOK /\ Steps /\ Descriptors /\ ShutdownAlone /\ OwnersAtWork
  BY DEF IInv, ExitInv
<1>2. UNCHANGED <<mainPc, running, listening, incoming, held, acceptPc, workerPc, monitorPc>>
  BY DEF StopCloseSessions, StopCleanup
<1>3. {"closeSessions", "cleanup", "unload"} \subseteq StopPcs \cap Cleared
  BY DEF StopPcs, Cleared
<1>4. CASE StopCloseSessions
  <2>1. /\ At("closeSessions") /\ Goto("cleanup") /\ pool' = pool /\ CloseAll(pool)
    BY <1>4 DEF StopCloseSessions
  <2>0. \A c \in Conns : /\ active'[c] <=> active[c] /\ c \notin pool
                         /\ \/ fd'[c] = fd[c] /\ (c \in pool => ~active[c])
                            \/ c \in pool /\ fd'[c] = "closed"
    BY <1>1, <2>1, CloseAllMeans
  <2>2. /\ Starting' /\ Leaving' /\ WorkersJoined
        /\ \A P : InStop(P)' => InStop(P) \/ "cleanup" \in P
    BY <1>2, <1>3, <2>1, MoveExits DEF WorkersJoined
  <2>3. \A c \in pool : ~active'[c]
    BY <1>1, <2>0 DEF TypeOK
  <2>4. Steps'
    BY <1>1, <1>2, <2>1, <2>2, <2>3, LaterSteps
       DEF Steps, AcceptOver, MonitorOver, WorkersOver
  <2>5. Descriptors'
    <3>2. Live' = Live
      BY <1>2, <2>1 DEF Live
    <3> QED
      BY <1>1, <1>2, <2>0, <3>2 DEF Descriptors
  <2> QED
    BY <2>2, <2>4, <2>5 DEF ExitInv
<1>5. CASE StopCleanup
  <2>1. At("cleanup") /\ Goto("unload") /\ pool' = {} /\ CloseAll(pool)
    BY <1>5 DEF StopCleanup
  <2>0. \A c \in Conns : /\ active'[c] <=> active[c] /\ c \notin pool
                         /\ fd'[c] = fd[c] \/ fd'[c] = "closed"
    BY <1>1, <2>1, CloseAllMeans
  <2>2. /\ Starting' /\ Leaving' /\ WorkersJoined /\ Cleaning
        /\ \A P : InStop(P)' => InStop(P) \/ "unload" \in P
    BY <1>2, <1>3, <2>1, MoveExits DEF WorkersJoined, Cleaning
  <2>3. Steps'
    BY <1>1, <1>2, <2>1, <2>2, LaterSteps DEF Steps, AcceptOver, MonitorOver, WorkersOver
  <2>4. Descriptors'
    <3>1. \A c \in Conns : active[c] => c \notin Live /\ c \notin pool
      BY <1>1, <2>2 DEF Steps, ShutdownAlone, Live
    <3> QED
      BY <1>1, <1>2, <2>0, <3>1 DEF Descriptors
  <2> QED
    BY <2>2, <2>3, <2>4 DEF ExitInv
<1> QED
  BY <1>4, <1>5

LEMMA ExitInductive ==
    ASSUME ~SignalDuringStart, IInv, ExitInv, [Next]_vars
    PROVE  ExitInv'
<1>1. CASE StartFailsEarly \/ StartFailsLate \/ StartAccept
           \/ (\E w \in Workers : StartWorker(w)) \/ StartMonitor \/ Exit
  BY <1>1, StartExits
<1>2. CASE LeaveLoop \/ Signal
  BY <1>2, CallExits
<1>3. CASE Stop
  BY <1>3, ReturnExits, StopBeginExits, StopJoinsExits, StopSessionsExits DEF Stop
<1>4. CASE AcceptThread
  BY <1>4, AcceptExits
<1>5. CASE \E w \in Workers : WorkerStep(w)
  BY <1>5, WorkerExits
<1>6. CASE \/ MonitorWakes \/ KilledByTlsWrite \/ UNCHANGED vars
           \/ \E c \in Conns : Connect(c) \/ ClientLeaves(c)
  BY <1>6, OthersExit
<1> QED
  BY <1>1, <1>2, <1>3, <1>4, <1>5, <1>6 DEF Next, MainThread

\* When handleStart has returned, a thread that is over has no session.
LEMMA ExitMeans ==
    ASSUME IInv, ExitInv
    PROVE  CleanExit /\ ExitLeaksOnlyEof
<1> SUFFICES ASSUME mainPc = "exit"
             PROVE  /\ acceptPc \notin Joinable
                    /\ monitorPc \notin Joinable
                    /\ \A w \in Workers : workerPc[w] \notin Joinable
                    /\ ~listening /\ Live = {}
                    /\ \A c \in Conns : \/ fd[c] \in {"none", "closed"}
                                        \/ fd[c] = "left" /\ ~Tls
  BY DEF CleanExit, ExitLeaksOnlyEof
<1>1. Stopped
  <2>1. ~running /\ frames = <<>>
    BY DEF ExitInv, Leaving
  <2>2. ~InStop(Cleared)
    BY <2>1 DEF InStop
  <2> QED
    BY <2>1, <2>2 DEF ExitInv, Leaving
<1>2. /\ acceptPc \notin Joinable
      /\ monitorPc \notin Joinable
      /\ \A w \in Workers : workerPc[w] \notin Joinable
  BY <1>1 DEF Stopped, AcceptOver, MonitorOver, WorkersOver, Joinable
<1>3. Live = {} /\ incoming = NoConn
  BY <1>1 DEF Stopped, AcceptOver, WorkersOver, Live, IInv, OwnersAtWork
<1>4. ASSUME NEW c \in Conns
      PROVE  \/ fd[c] \in {"none", "closed"}
             \/ fd[c] = "left" /\ ~Tls
  <2>1. fd[c] \in {"none", "backlog", "open", "closed", "left"} /\ c # NoConn
    BY DaemonConstants DEF IInv, TypeOK
  <2>2. fd[c] # "backlog" /\ fd[c] # "open"
    BY <1>1, <1>3, <2>1 DEF Stopped, ExitInv, Descriptors
  <2> QED
    BY <2>1, <2>2 DEF ExitInv, Descriptors
<1> QED
  BY <1>1, <1>2, <1>3, <1>4 DEF Stopped

\* When signals do not interrupt start(), a process that exits has joined every thread,
\* closed the listening socket and kept no session, for any number of signals while it
\* runs and stops, each of which runs stop() on top of what the main thread does.
THEOREM ExitIsClean ==
    ASSUME ~SignalDuringStart
    PROVE  Spec => []CleanExit
<1>1. Init => ExitInv
  BY ExitInitHolds
<1>2. IInv /\ ExitInv /\ [Next]_vars => ExitInv'
  BY ExitInductive
<1>3. IInv /\ ExitInv => CleanExit
  BY ExitMeans
<1> QED
  BY <1>1, <1>2, <1>3, DaemonInvariant, PTL DEF Spec

\* At such an exit every connection has been closed, by whichever thread or destructor,
\* but for plain sessions whose read had found the end of the stream or an error.
THEOREM ExitLeaksOnlyLeft ==
    ASSUME ~SignalDuringStart
    PROVE  Spec => []ExitLeaksOnlyEof
<1>1. Init => ExitInv
  BY ExitInitHolds
<1>2. IInv /\ ExitInv /\ [Next]_vars => ExitInv'
  BY ExitInductive
<1>3. IInv /\ ExitInv => ExitLeaksOnlyEof
  BY ExitMeans
<1> QED
  BY <1>1, <1>2, <1>3, DaemonInvariant, PTL DEF Spec
=============================================================================
