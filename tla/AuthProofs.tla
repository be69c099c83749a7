----------------------------- MODULE AuthProofs -----------------------------
(***************************************************************************)
(* The life of a session of SessionManager, for every set of users, keys,  *)
(* ids and worker threads and every timeout.                               *)
(*                                                                         *)
(* createSession reads the clock before it takes the lock, so last may lie *)
(* before the moment at which the session appears, by however long the     *)
(* thread waited: the invariant carries the stamp that a waiting thread    *)
(* holds, which the clock may have left behind but never the other way     *)
(* round.                                                                  *)
(*                                                                         *)
(* The store: what loading makes of a file is a fold over its lines, so    *)
(* that what it holds is found by induction over them.  A revoked key is   *)
(* kept out by its absence from memory and, as the file may be loaded      *)
(* again, from every line that was saved.                                  *)
(***************************************************************************)
EXTENDS Auth, FiniteSetTheorems, SequenceTheorems, TLAPS

SessionRecords == [user : Users \cup {NoUser}, last : Nat]
LoginRecords == [user : Users \cup {NoUser}, stamp : Nat]

\* The types of the sessions' part of the state.
SessionTypes ==
    /\ clock \in Nat \ {0}
    /\ sessions \in [Ids -> SessionRecords]
    /\ login \in [Threads -> LoginRecords]
    /\ lastUse \in [Ids -> Nat]

\* A thread that logs somebody in holds a stamp of the past, and logs in a user.
Stamps ==
    \A t \in Threads : login[t] # NoLogin =>
        login[t].user \in Users /\ login[t].stamp <= clock

\* A session's activity is not dated later than its use, and no use lies ahead.
Activity ==
    \A i \in Ids :
        /\ lastUse[i] <= clock
        /\ sessions[i] # NoSession => sessions[i].last <= lastUse[i]

IInv == SessionTypes /\ Stamps /\ Activity

LEMMA InitInv == Init => IInv
  <1> SUFFICES ASSUME Init PROVE IInv
    OBVIOUS
  <1>1. NoSession \in SessionRecords /\ NoLogin \in LoginRecords
    BY DEF NoSession, NoLogin, SessionRecords, LoginRecords
  <1>2. SessionTypes
    BY <1>1 DEF Init, SessionTypes
  <1>3. Stamps
    BY DEF Init, Stamps
  <1>4. Activity
    BY DEF Init, Activity
  <1> QED
    BY <1>2, <1>3, <1>4 DEF IInv

\* Operations on the store, and refused ones, leave the sessions alone.
LEMMA StoreStep == IInv /\ UNCHANGED sessionVars => IInv'
  BY DEF IInv, SessionTypes, Stamps, Activity, sessionVars, NoSession, NoLogin

LEMMA LoginStep ==
    ASSUME IInv, NEW t \in Threads, NEW u \in Users, NEW s \in Secrets, Login(t, u, s)
    PROVE  IInv'
  <1> USE DEF IInv, Login
  <1>1. [user |-> u, stamp |-> clock] \in LoginRecords
    BY DEF SessionTypes, LoginRecords
  <1>2. SessionTypes'
    BY <1>1 DEF SessionTypes
  <1>3. Stamps'
    <2> SUFFICES ASSUME NEW r \in Threads, login'[r] # NoLogin
                 PROVE  login'[r].user \in Users /\ login'[r].stamp <= clock'
      BY DEF Stamps, NoLogin
    <2>1. CASE r = t
      BY <2>1 DEF SessionTypes
    <2>2. CASE r # t
      BY <2>2 DEF SessionTypes, Stamps
    <2> QED
      BY <2>1, <2>2
  <1>4. Activity'
    BY DEF Activity, NoSession
  <1> QED
    BY <1>2, <1>3, <1>4

LEMMA CreateStep ==
    ASSUME IInv, NEW t \in Threads, NEW i \in Ids, CreateSession(t, i)
    PROVE  IInv'
  <1> USE DEF IInv, CreateSession
  <1>1. /\ login[t].user \in Users /\ login[t].stamp \in Nat
        /\ login[t].stamp <= clock
    BY DEF SessionTypes, Stamps, LoginRecords
  <1>2. [user |-> login[t].user, last |-> login[t].stamp] \in SessionRecords
    BY <1>1 DEF SessionRecords
  <1>3. NoLogin \in LoginRecords
    BY DEF NoLogin, LoginRecords
  <1>4. SessionTypes'
    BY <1>2, <1>3 DEF SessionTypes
  <1>5. Stamps'
    <2> SUFFICES ASSUME NEW r \in Threads, login'[r] # NoLogin
                 PROVE  login'[r].user \in Users /\ login'[r].stamp <= clock'
      BY DEF Stamps, NoLogin
    <2>1. r # t /\ login'[r] = login[r]
      BY DEF SessionTypes
    <2> QED
      BY <2>1 DEF SessionTypes, Stamps
  <1>6. Activity'
    <2> SUFFICES ASSUME NEW j \in Ids
                 PROVE  /\ lastUse'[j] <= clock'
                        /\ sessions'[j] # NoSession => sessions'[j].last <= lastUse'[j]
      BY DEF Activity, NoSession
    <2>1. CASE j = i
      BY <1>1, <2>1 DEF SessionTypes
    <2>2. CASE j # i
      BY <2>2 DEF SessionTypes, Activity
    <2> QED
      BY <2>1, <2>2
  <1> QED
    BY <1>4, <1>5, <1>6

LEMMA UpdateStep ==
    ASSUME IInv, NEW i \in Ids, UpdateActivity(i)
    PROVE  IInv'
  <1> USE DEF IInv, UpdateActivity
  <1>1. [sessions[i] EXCEPT !.last = clock] \in SessionRecords
    BY DEF SessionTypes, SessionRecords
  <1>2. sessions' = [sessions EXCEPT ![i] = [sessions[i] EXCEPT !.last = clock]]
    BY DEF SessionTypes
  <1>3. SessionTypes'
    BY <1>1, <1>2 DEF SessionTypes
  <1>4. Stamps'
    BY DEF Stamps, NoLogin
  <1>5. Activity'
    <2> SUFFICES ASSUME NEW j \in Ids
                 PROVE  /\ lastUse'[j] <= clock'
                        /\ sessions'[j] # NoSession => sessions'[j].last <= lastUse'[j]
      BY DEF Activity, NoSession
    <2>1. CASE j = i
      BY <1>2, <2>1 DEF SessionTypes, SessionRecords
    <2>2. CASE j # i
      BY <1>2, <2>2 DEF SessionTypes, Activity
    <2> QED
      BY <2>1, <2>2
  <1> QED
    BY <1>3, <1>4, <1>5

LEMMA DeleteStep ==
    ASSUME IInv, NEW i \in Ids, DeleteSession(i)
    PROVE  IInv'
  <1> USE DEF IInv, DeleteSession
  <1>1. NoSession \in SessionRecords
    BY DEF NoSession, SessionRecords
  <1>2. SessionTypes' /\ Stamps'
    BY <1>1 DEF SessionTypes, Stamps, NoLogin
  <1>3. Activity'
    BY DEF SessionTypes, Activity, NoSession
  <1> QED
    BY <1>2, <1>3

LEMMA CleanupStep ==
    ASSUME IInv, CleanupExpiredSessions
    PROVE  IInv'
  <1> USE DEF IInv, CleanupExpiredSessions
  <1>1. NoSession \in SessionRecords
    BY DEF NoSession, SessionRecords
  <1>2. SessionTypes' /\ Stamps'
    BY <1>1 DEF SessionTypes, Stamps, NoLogin
  <1>3. Activity'
    BY DEF SessionTypes, Activity, NoSession
  <1> QED
    BY <1>2, <1>3

LEMMA TickStep == IInv /\ Tick => IInv'
  <1> SUFFICES ASSUME IInv, Tick PROVE IInv'
    OBVIOUS
  <1> USE DEF IInv, Tick
  <1>1. SessionTypes'
    BY DEF SessionTypes
  <1>2. Stamps'
    BY DEF SessionTypes, Stamps, NoLogin, LoginRecords
  <1>3. Activity'
    BY DEF SessionTypes, Activity, NoSession
  <1> QED
    BY <1>1, <1>2, <1>3

LEMMA NextInv == IInv /\ [Next]_vars => IInv'
  <1> SUFFICES ASSUME IInv, [Next]_vars PROVE IInv'
    OBVIOUS
  <1>1. ASSUME UNCHANGED sessionVars PROVE IInv'
    BY <1>1, StoreStep
  <1>2. CASE RemoveFile
    BY <1>1, <1>2 DEF RemoveFile
  <1>3. CASE CleanupExpiredSessions
    BY <1>3, CleanupStep
  <1>4. CASE Tick
    BY <1>4, TickStep
  <1>5. ASSUME NEW l \in Line, AddLine(l) PROVE IInv'
    BY <1>1, <1>5 DEF AddLine
  <1>6. ASSUME NEW opened \in BOOLEAN, Reload(opened) PROVE IInv'
    BY <1>1, <1>6 DEF Reload
  <1>7. ASSUME NEW opened \in BOOLEAN, NEW u \in Users, NEW k \in Secrets,
               AddKey(u, k, opened) \/ RemoveKey(u, k, opened)
        PROVE  IInv'
    BY <1>1, <1>7 DEF AddKey, RemoveKey
  <1>8. ASSUME NEW t \in Threads, NEW u \in Users, NEW s \in Secrets, Login(t, u, s)
        PROVE  IInv'
    BY <1>8, LoginStep
  <1>9. ASSUME NEW t \in Threads, NEW i \in Ids, CreateSession(t, i) PROVE IInv'
    BY <1>9, CreateStep
  <1>10. ASSUME NEW i \in Ids, UpdateActivity(i) \/ DeleteSession(i) PROVE IInv'
    BY <1>10, UpdateStep, DeleteStep
  <1>11. CASE UNCHANGED vars
    BY <1>1, <1>11 DEF vars
  <1> QED
    BY <1>2, <1>3, <1>4, <1>5, <1>6, <1>7, <1>8, <1>9, <1>10, <1>11 DEF Next

\* The stamps that threads hold while they wait for the lock of SessionManager, and the
\* times in the sessions, never lie ahead of the clock or of the last use.
THEOREM SessionInvariant == Spec => []IInv
  BY InitInv, NextInv, PTL DEF Spec

\* What duration_cast cuts off is less than one unit.
LEMMA WholeUnits ==
    ASSUME NEW a \in Int, NEW k \in Int, NEW d \in Nat \ {0}, a \div d <= k
    PROVE  a < (k + 1) * d
  <1> DEFINE q == a \div d
  <1>1. q \in Int /\ a < q * d + d
    BY DEF q
  <1> HIDE DEF q
  <1>2. q <= k
    BY DEF q
  <1>3. (k - q) * d >= 0
    BY <1>1, <1>2
  <1>4. (k - q) * d = k * d - q * d /\ (k + 1) * d = k * d + d
    BY <1>1
  <1>5. k * d \in Int /\ q * d \in Int
    BY <1>1
  <1> QED
    BY <1>1, <1>3, <1>4, <1>5

\* A session that isValidSession accepts was created or used less than the timeout and
\* one second ago, whatever time its creator spent waiting between reading the clock and
\* taking the lock; the second is what duration_cast cuts off.
THEOREM IdleSessionsDoLapse == Spec => []IdleSessionsLapse
  <1>1. ASSUME AuthConstants, IInv PROVE IdleSessionsLapse
    <2> SUFFICES ASSUME NEW i \in Ids, IsValidSession(i)
                 PROVE  clock - lastUse[i] < (Timeout + 1) * TicksPerSecond
      BY DEF IdleSessionsLapse
    <2>1. sessions[i].last <= lastUse[i]
      BY <1>1 DEF IInv, Activity, IsValidSession
    <2>2. /\ clock \in Nat /\ lastUse[i] \in Nat /\ sessions[i].last \in Nat
          /\ Timeout \in Nat /\ TicksPerSecond \in Nat \ {0}
      BY <1>1 DEF AuthConstants, IInv, SessionTypes, SessionRecords
    <2>3. clock - sessions[i].last < (Timeout + 1) * TicksPerSecond
      <3> DEFINE a == clock - sessions[i].last
                 d == TicksPerSecond
      <3>1. a \div d <= Timeout
        BY DEF IsValidSession, Elapsed
      <3>2. a \in Int /\ Timeout \in Int /\ d \in Nat \ {0}
        BY <2>2
      <3> HIDE DEF a, d
      <3>3. a < (Timeout + 1) * d
        BY <3>1, <3>2, WholeUnits
      <3> QED
        BY <3>3 DEF a, d
    <2>4. (Timeout + 1) * TicksPerSecond \in Int
      BY <2>2
    <2> QED
      BY <2>1, <2>2, <2>3, <2>4
  <1> QED
    BY <1>1, SessionInvariant, AuthConstants, PTL

LEMMA ExpiryStep ==
    ASSUME IInv, [Next]_vars, NEW i \in Ids, sessions[i] # NoSession
    PROVE  /\ i \in GetActiveSessions <=> IsValidSession(i)
           /\ CleanupExpiredSessions => (sessions'[i] = NoSession <=> ~IsValidSession(i))
           /\ IsValidSession(i) /\ sessions'[i] = NoSession => DeleteSession(i)
           /\ ~IsValidSession(i) /\ IsValidSession(i)' => lastUse'[i] = clock
  <1>00. i \in GetActiveSessions <=> IsValidSession(i)
    <2>1. Elapsed(i) \in Int /\ Timeout \in Int
      BY AuthConstants DEF AuthConstants, IInv, SessionTypes, SessionRecords, Elapsed
    <2> QED
      BY <2>1 DEF GetActiveSessions, IsValidSession
  <1>01. ASSUME CleanupExpiredSessions PROVE sessions'[i] = NoSession <=> ~IsValidSession(i)
    <2>1. Elapsed(i) \in Int /\ Timeout \in Int
      BY AuthConstants DEF AuthConstants, IInv, SessionTypes, SessionRecords, Elapsed
    <2>2. sessions'[i] = IF Elapsed(i) > Timeout THEN NoSession ELSE sessions[i]
      BY <1>01 DEF CleanupExpiredSessions
    <2> QED
      BY <2>1, <2>2 DEF IsValidSession
  <1> DEFINE Goal == /\ IsValidSession(i) /\ sessions'[i] = NoSession => DeleteSession(i)
                     /\ ~IsValidSession(i) /\ IsValidSession(i)' => lastUse'[i] = clock
  <1> SUFFICES Goal
    BY <1>00, <1>01
  <1>0. /\ clock \in Nat \ {0} /\ sessions[i].last \in Nat
        /\ sessions \in [Ids -> SessionRecords] /\ lastUse \in [Ids -> Nat]
        /\ Timeout \in Nat /\ TicksPerSecond \in Nat \ {0}
    BY AuthConstants DEF AuthConstants, IInv, SessionTypes, SessionRecords
  <1>1. ASSUME UNCHANGED <<clock, sessions>> PROVE Goal
    BY <1>1 DEF IsValidSession, Elapsed, NoSession
  <1>2. CASE CleanupExpiredSessions
    <2>1. Elapsed(i) \in Int
      BY <1>0 DEF Elapsed
    <2>2. /\ sessions'[i] = IF Elapsed(i) > Timeout THEN NoSession ELSE sessions[i]
          /\ clock' = clock
      BY <1>2 DEF CleanupExpiredSessions
    <2>3. CASE Elapsed(i) > Timeout
      BY <1>0, <2>1, <2>2, <2>3 DEF IsValidSession, NoSession
    <2>4. CASE ~(Elapsed(i) > Timeout)
      <3>1. sessions'[i] = sessions[i]
        BY <2>2, <2>4
      <3> QED
        BY <2>2, <3>1 DEF IsValidSession, Elapsed, NoSession
    <2> QED
      BY <2>3, <2>4
  <1>3. CASE Tick
    <2>1. clock' = clock + 1 /\ sessions' = sessions
      BY <1>3 DEF Tick
    <2> DEFINE a == clock - sessions[i].last
               d == TicksPerSecond
    <2>2. a \in Int /\ d \in Nat \ {0}
      BY <1>0
    <2>3. Elapsed(i) = a \div d /\ Elapsed(i)' = (a + 1) \div d
      <3>1. clock' - sessions'[i].last = a + 1
        BY <1>0, <2>1
      <3> QED
        BY <3>1 DEF Elapsed
    <2> HIDE DEF a, d
    <2>4. a \div d <= (a + 1) \div d /\ a \div d \in Int /\ (a + 1) \div d \in Int
      BY <2>2
    <2> QED
      BY <1>0, <2>1, <2>3, <2>4 DEF IsValidSession, NoSession
  <1>4. ASSUME NEW t \in Threads, NEW j \in Ids, CreateSession(t, j) PROVE Goal
    <2>1. CASE j = i
      <3>1. login[t].user \in Users
        BY <1>4 DEF IInv, Stamps, CreateSession
      <3>2. sessions'[i].user = login[t].user /\ lastUse'[i] = clock
        BY <1>0, <1>4, <2>1 DEF CreateSession
      <3>3. sessions'[i] # NoSession
        BY <3>1, <3>2, AuthConstants DEF NoSession, AuthConstants
      <3> QED
        BY <3>2, <3>3
    <2>2. CASE j # i
      <3>1. sessions'[i] = sessions[i] /\ clock' = clock
        BY <1>0, <1>4, <2>2 DEF CreateSession
      <3> QED
        BY <3>1 DEF IsValidSession, Elapsed, NoSession
    <2> QED
      BY <2>1, <2>2
  <1>5. ASSUME NEW j \in Ids, UpdateActivity(j) PROVE Goal
    <2>1. CASE j = i
      <3>1. sessions'[i].last = clock /\ lastUse'[i] = clock
        BY <1>0, <1>5, <2>1 DEF UpdateActivity, SessionRecords
      <3> QED
        BY <1>0, <3>1 DEF NoSession
    <2>2. CASE j # i
      <3>1. sessions'[i] = sessions[i] /\ clock' = clock
        BY <1>0, <1>5, <2>2 DEF UpdateActivity
      <3> QED
        BY <3>1 DEF IsValidSession, Elapsed, NoSession
    <2> QED
      BY <2>1, <2>2
  <1>6. ASSUME NEW j \in Ids, DeleteSession(j) PROVE Goal
    <2>1. CASE j = i
      <3>1. sessions'[i] = NoSession
        BY <1>0, <1>6, <2>1 DEF DeleteSession
      <3> QED
        BY <1>6, <2>1, <3>1 DEF IsValidSession, NoSession
    <2>2. CASE j # i
      <3>1. sessions'[i] = sessions[i] /\ clock' = clock
        BY <1>0, <1>6, <2>2 DEF DeleteSession
      <3> QED
        BY <3>1 DEF IsValidSession, Elapsed, NoSession
    <2> QED
      BY <2>1, <2>2
  <1>7. ASSUME NEW t \in Threads, NEW u \in Users, NEW s \in Secrets, Login(t, u, s)
        PROVE  Goal
    BY <1>1, <1>7 DEF Login
  <1>8. CASE UNCHANGED sessionVars
    BY <1>1, <1>8 DEF sessionVars
  <1>9. CASE UNCHANGED vars
    BY <1>8, <1>9 DEF vars
  <1> QED
    BY <1>2, <1>3, <1>4, <1>5, <1>6, <1>7, <1>8, <1>9
       DEF Next, RemoveFile, AddLine, Reload, AddKey, RemoveKey

\* isValidSession, getActiveSessions and cleanupExpiredSessions agree about expiry: what is
\* listed is what is valid, what is valid is never cleaned up, and what has lapsed is valid again only after its own use.
THEOREM ExpiryDoesAgree == Spec => ExpiryAgrees
  <1>1. IInv /\ [Next]_vars =>
          [\A i \in Ids : sessions[i] # NoSession =>
             /\ i \in GetActiveSessions <=> IsValidSession(i)
             /\ CleanupExpiredSessions => (sessions'[i] = NoSession <=> ~IsValidSession(i))
             /\ IsValidSession(i) /\ sessions'[i] = NoSession => DeleteSession(i)
             /\ ~IsValidSession(i) /\ IsValidSession(i)' => lastUse'[i] = clock]_vars
    BY ExpiryStep
  <1> QED
    BY <1>1, SessionInvariant, PTL DEF Spec, ExpiryAgrees
----------------------------------------------------------------------------
\* The least number principle, from the well-foundedness of < on Nat.
LEMMA LeastNumber ==
    ASSUME NEW T, T \subseteq Nat, T # {}
    PROVE  \E n \in T : \A m \in T : n <= m
  <1>1. PICK n \in T : \A m \in T : ~(<<m, n>> \in OpToRel(<, Nat))
    BY NatLessThanWellFounded, WFMin
  <1>2. ASSUME NEW m \in T PROVE n <= m
    <2>1. ~(<<m, n>> \in {p \in Nat \X Nat : p[1] < p[2]})
      BY <1>1 DEF OpToRel
    <2> QED
      BY <2>1
  <1> QED
    BY <1>2

LEMMA MaxOf ==
    ASSUME NEW n \in Nat, NEW S \in SUBSET (1..n), S # {}
    PROVE  Max(S) \in S /\ \A y \in S : y <= Max(S)
  <1> DEFINE T == {n - x : x \in S}
  <1>1. T \subseteq Nat /\ T # {}
    <2>1. ASSUME NEW x \in S PROVE n - x \in Nat
      <3>1. x \in 1..n
        OBVIOUS
      <3> QED
        BY <3>1
    <2>2. \A x \in S : n - x \in Nat
      BY <2>1
    <2> QED
      BY <2>2, Zenon
  <1> HIDE DEF T
  <1>2. PICK d \in T : \A e \in T : d <= e
    BY <1>1, LeastNumber
  <1>3. PICK x \in S : d = n - x
    BY DEF T
  <1>4. ASSUME NEW y \in S PROVE x >= y
    <2>1. n - y \in T
      BY DEF T
    <2>2. x \in Int /\ y \in Int /\ n - x <= n - y
      BY <1>2, <1>3, <2>1
    <2> QED
      BY <2>2
  <1>5. \E z \in S : \A y \in S : z >= y
    BY <1>4
  <1>6. Max(S) \in S /\ \A y \in S : Max(S) >= y
    BY <1>5 DEF Max
  <1> QED
    BY <1>6

----------------------------------------------------------------------------
\* LoadStore, line by line.

FoldStep(ls, S, it) ==
    IF S = {} THEN [u \in Users |-> {}]
    ELSE LoadLine(it[S \ {Max(S)}], ls[Max(S)])

IsFold(it, ls, n) == it = [S \in SUBSET (1..n) |-> FoldStep(ls, S, it)]

LEMMA FoldExtends ==
    ASSUME NEW ls, NEW k \in Nat \ {0}, NEW g, IsFold(g, ls, k - 1)
    PROVE  \E h : IsFold(h, ls, k)
  <1> DEFINE h == [S \in SUBSET (1..k) |->
                     IF k \in S THEN LoadLine(g[S \ {k}], ls[k]) ELSE g[S]]
  <1>1. ASSUME NEW S \in SUBSET (1..k) PROVE h[S] = FoldStep(ls, S, h)
    <2>1. CASE k \in S
      <3>1. Max(S) \in S /\ Max(S) >= k
        BY <2>1, MaxOf
      <3>2. Max(S) = k
        <4>1. Max(S) \in 1..k
          BY <3>1
        <4> QED
          BY <3>1, <4>1
      <3>3. h[S \ {k}] = g[S \ {k}]
        OBVIOUS
      <3>4. h[S] = LoadLine(g[S \ {k}], ls[k])
        BY <2>1
      <3> QED
        BY <2>1, <3>2, <3>3, <3>4, Zenon DEF FoldStep
    <2>2. CASE k \notin S
      <3>1. S \in SUBSET (1..(k - 1))
        BY <2>2
      <3>2. h[S] = g[S]
        BY <2>2
      <3>3. g[S] = FoldStep(ls, S, g)
        BY <3>1 DEF IsFold
      <3>4. CASE S = {}
        BY <3>2, <3>3, <3>4 DEF FoldStep
      <3>5. CASE S # {}
        <4>1. k \notin S \ {Max(S)} /\ S \ {Max(S)} \in SUBSET (1..k)
          BY <2>2
        <4>2. h[S \ {Max(S)}] = g[S \ {Max(S)}]
          BY <4>1
        <4> HIDE DEF h
        <4> QED
          BY <3>2, <3>3, <3>5, <4>2 DEF FoldStep
      <3> QED
        BY <3>4, <3>5
    <2> QED
      BY <2>1, <2>2
  <1>2. h = [S \in SUBSET (1..k) |-> h[S]]
    OBVIOUS
  <1>3. h = [S \in SUBSET (1..k) |-> FoldStep(ls, S, h)]
    <2> HIDE DEF h
    <2> QED
      BY <1>1, <1>2, Zenon
  <1> QED
    BY <1>3, Zenon DEF IsFold

LEMMA FoldExists ==
    ASSUME NEW ls, NEW n \in Nat
    PROVE  \E it : IsFold(it, ls, n)
  <1> DEFINE T == {k \in Nat : ~\E it : IsFold(it, ls, k)}
  <1> SUFFICES ASSUME T # {} PROVE FALSE
    OBVIOUS
  <1>1. T \subseteq Nat
    OBVIOUS
  <1> HIDE DEF T
  <1>2. PICK k \in T : \A m \in T : k <= m
    BY <1>1, LeastNumber
  <1>3. k \in Nat /\ ~\E it : IsFold(it, ls, k)
    BY DEF T
  <1>4. CASE k = 0
    <2> DEFINE g == [S \in SUBSET (1..0) |-> [u \in Users |-> {}]]
    <2>1. ASSUME NEW S \in SUBSET (1..0) PROVE [u \in Users |-> {}] = FoldStep(ls, S, g)
      <3>1. S = {}
        OBVIOUS
      <3> QED
        BY <3>1 DEF FoldStep
    <2>2. IsFold(g, ls, 0)
      <3> HIDE DEF g
      <3>1. g = [S \in SUBSET (1..0) |-> [u \in Users |-> {}]]
        BY DEF g
      <3> QED
        BY <2>1, <3>1, Zenon DEF IsFold
    <2> QED
      BY <1>3, <1>4, <2>2, Zenon
  <1>5. CASE k # 0
    <2>1. k - 1 \in Nat /\ ~(k <= k - 1)
      BY <1>3, <1>5
    <2>2. PICK g : IsFold(g, ls, k - 1)
      BY <1>2, <2>1 DEF T
    <2> QED
      BY <1>3, <1>5, <2>2, FoldExtends
  <1> QED
    BY <1>4, <1>5

LEMMA LoadStoreIsFold ==
    ASSUME NEW ls \in Seq(Line)
    PROVE  \E it : IsFold(it, ls, Len(ls)) /\ LoadStore(ls) = it[1..Len(ls)]
  <1> DEFINE it == CHOOSE f : f = [S \in SUBSET DOMAIN ls |-> FoldStep(ls, S, f)]
  <1>1. DOMAIN ls = 1..Len(ls) /\ Len(ls) \in Nat
    OBVIOUS
  <1>2. LoadStore(ls) = it[DOMAIN ls]
    BY Zenon DEF LoadStore, FoldLeft, MapThenFoldSet, FoldStep
  <1>3. \E f : f = [S \in SUBSET DOMAIN ls |-> FoldStep(ls, S, f)]
    <2>1. \E f : IsFold(f, ls, Len(ls))
      BY <1>1, FoldExists
    <2> QED
      BY <1>1, <2>1, Zenon DEF IsFold
  <1>4. it = [S \in SUBSET DOMAIN ls |-> FoldStep(ls, S, it)]
    BY <1>3, Zenon
  <1> HIDE DEF it
  <1> QED
    BY <1>1, <1>2, <1>4 DEF IsFold

\* What the first k lines of ls make of the store.
OwnLines(ls, u, k) == {n \in 1..k : ls[n].user = u /\ Accepts(ls[n])}
Effective(ls, u, k) ==
    {m \in OwnLines(ls, u, k) :
        method = "password" => \A n \in OwnLines(ls, u, k) : n <= m}
Follows(st, ls, k) ==
    /\ st \in [Users -> SUBSET Secrets]
    /\ \A u \in Users : st[u] = {ls[n].secret : n \in Effective(ls, u, k)}

LEMMA OneLineMore ==
    ASSUME NEW ls \in Seq(Line), NEW k \in 1..Len(ls), NEW st, Follows(st, ls, k - 1),
           method \in {"password", "public_key"}
    PROVE  Follows(LoadLine(st, ls[k]), ls, k)
  <1> DEFINE l == ls[k]
             new == LoadLine(st, l)
  <1>1. l \in Line /\ l.user \in Users /\ l.secret \in Secrets
    <2>1. l \in Line
      OBVIOUS
    <2> QED
      BY <2>1 DEF Line
  <1>2. st \in [Users -> SUBSET Secrets]
    BY DEF Follows
  <1>3. new \in [Users -> SUBSET Secrets]
    BY <1>1, <1>2 DEF LoadLine
  <1>4. ASSUME NEW u \in Users, ~(Accepts(l) /\ l.user = u)
        PROVE  new[u] = {ls[n].secret : n \in Effective(ls, u, k)}
    <2>1. OwnLines(ls, u, k) = OwnLines(ls, u, k - 1)
      BY <1>4 DEF OwnLines
    <2>2. Effective(ls, u, k) = Effective(ls, u, k - 1)
      BY <2>1 DEF Effective
    <2>3. new[u] = st[u]
      BY <1>1, <1>2, <1>4 DEF LoadLine
    <2> QED
      BY <2>2, <2>3 DEF Follows
  <1>5. ASSUME Accepts(l)
        PROVE  new[l.user] = {ls[n].secret : n \in Effective(ls, l.user, k)}
    <2>1. OwnLines(ls, l.user, k) = OwnLines(ls, l.user, k - 1) \cup {k}
      BY <1>5 DEF OwnLines
    <2>2. \A n \in OwnLines(ls, l.user, k) : n <= k
      BY DEF OwnLines
    <2>3. CASE method = "password"
      <3>1. Effective(ls, l.user, k) = {k}
        BY <2>1, <2>2, <2>3 DEF Effective, OwnLines
      <3>2. new[l.user] = {l.secret}
        BY <1>1, <1>2, <1>5, <2>3 DEF LoadLine
      <3> QED
        BY <3>1, <3>2
    <2>4. CASE method # "password"
      <3>1. Effective(ls, l.user, k) = Effective(ls, l.user, k - 1) \cup {k}
        BY <2>1, <2>4 DEF Effective
      <3>2. new[l.user] = st[l.user] \cup {l.secret}
        BY <1>1, <1>2, <1>5, <2>4 DEF LoadLine
      <3>3. st[l.user] = {ls[n].secret : n \in Effective(ls, l.user, k - 1)}
        BY <1>1 DEF Follows
      <3> HIDE DEF new
      <3> QED
        BY <3>1, <3>2, <3>3
    <2> QED
      BY <2>3, <2>4
  <1> HIDE DEF new
  <1>6. \A u \in Users : new[u] = {ls[n].secret : n \in Effective(ls, u, k)}
    BY <1>4, <1>5
  <1>7. Follows(new, ls, k)
    BY <1>3, <1>6 DEF Follows
  <1> QED
    BY <1>7 DEF new

\* PasswordFile::load and PublicKeyDatabase::load: a user's store is the effective lines.
LEMMA LoadStoreFollows ==
    ASSUME NEW ls \in Seq(Line), method \in {"password", "public_key"}
    PROVE  Follows(LoadStore(ls), ls, Len(ls))
  <1>1. PICK it : IsFold(it, ls, Len(ls)) /\ LoadStore(ls) = it[1..Len(ls)]
    BY LoadStoreIsFold
  <1> DEFINE T == {k \in 0..Len(ls) : ~Follows(it[1..k], ls, k)}
  <1>2. SUFFICES ASSUME T # {} PROVE FALSE
    BY <1>1
  <1>3. T \subseteq Nat
    OBVIOUS
  <1> HIDE DEF T
  <1>4. PICK k \in T : \A m \in T : k <= m
    BY <1>2, <1>3, LeastNumber
  <1>5. k \in 0..Len(ls) /\ ~Follows(it[1..k], ls, k)
    BY DEF T
  <1>6. CASE k = 0
    <2>1. it[1..0] = [u \in Users |-> {}]
      BY <1>1 DEF IsFold, FoldStep
    <2>2. Follows(it[1..0], ls, 0)
      BY <2>1 DEF Follows, Effective, OwnLines
    <2> QED
      BY <1>5, <1>6, <2>2
  <1>7. CASE k # 0
    <2>1. k \in 1..Len(ls) /\ k - 1 \in 0..Len(ls) /\ ~(k <= k - 1)
      BY <1>5, <1>7
    <2>2. Follows(it[1..(k - 1)], ls, k - 1)
      BY <1>4, <2>1 DEF T
    <2>3. 1..k \in SUBSET (1..Len(ls)) /\ 1..k # {} /\ k \in Nat /\ k \in 1..k
      <3>1. Len(ls) \in Nat /\ k \in Nat /\ 1 <= k /\ k <= Len(ls)
        BY <2>1
      <3>2. 1..k \subseteq 1..Len(ls) /\ k \in 1..k
        BY <3>1
      <3> QED
        BY <3>1, <3>2, Zenon
    <2>4. Max(1..k) \in 1..k /\ Max(1..k) >= k
      BY <2>3, MaxOf
    <2>5. Max(1..k) = k
      BY <2>1, <2>4
    <2>6. (1..k) \ {k} = 1..(k - 1)
      BY <2>1
    <2>7. it[1..k] = FoldStep(ls, 1..k, it)
      BY <1>1, <2>3 DEF IsFold
    <2>8. it[1..k] = LoadLine(it[1..(k - 1)], ls[k])
      BY <2>3, <2>5, <2>6, <2>7, Zenon DEF FoldStep
    <2> QED
      BY <1>5, <2>1, <2>2, <2>8, OneLineMore
  <1> QED
    BY <1>6, <1>7
----------------------------------------------------------------------------
\* Files that are written from a set.

LEMMA LinesOfSetToSeq ==
    ASSUME NEW S, IsFiniteSet(S)
    PROVE  SetToSeq(S) \in Seq(S) /\ LinesOf(SetToSeq(S)) = S
  <1> DEFINE c == Cardinality(S)
             f == SetToSeq(S)
  <1>1. c \in Nat /\ ExistsBijection(1..c, S)
    BY FS_CardinalityType
  <1> HIDE DEF c
  <1>2. \E g \in [1..c -> S] : IsInjective(g)
    BY <1>1 DEF ExistsBijection, Bijection, Injection
  <1>3. f \in [1..c -> S] /\ IsInjective(f)
    BY <1>2 DEF SetToSeq, c
  <1> HIDE DEF f
  <1>4. f \in Injection(1..c, S)
    BY <1>3 DEF Injection
  <1>5. IsFiniteSet(1..c) /\ Cardinality(1..c) = c
    BY <1>1, FS_Interval
  <1>6. f \in Surjection(1..c, S)
    BY <1>4, <1>5, FS_Injection DEF c
  <1>7. f \in Seq(S) /\ Len(f) = c
    BY <1>1, <1>3
  <1>8. LinesOf(f) = S
    BY <1>6, <1>7 DEF LinesOf, Surjection
  <1> QED
    BY <1>7, <1>8 DEF f

LEMMA LineFinite == IsFiniteSet(Line)
  <1> DEFINE D == (Users \X Secrets) \X BOOLEAN
             f == [p \in D |-> [user |-> p[1][1], secret |-> p[1][2], hashed |-> p[2]]]
  <1>1. IsFiniteSet(D)
    <2>1. IsFiniteSet(BOOLEAN)
      <3>1. IsFiniteSet({TRUE} \cup {FALSE})
        BY FS_Singleton, FS_AddElement
      <3>2. BOOLEAN = {TRUE} \cup {FALSE}
        OBVIOUS
      <3> QED
        BY <3>1, <3>2
    <2> QED
      BY <2>1, AuthConstants, FS_Product DEF AuthConstants
  <1>2. f \in [D -> Line]
    BY DEF Line
  <1>3. ASSUME NEW l \in Line PROVE \E p \in D : f[p] = l
    <2>1. <<<<l.user, l.secret>>, l.hashed>> \in D
      BY DEF Line
    <2>2. f[<<<<l.user, l.secret>>, l.hashed>>] = l
      BY <2>1 DEF Line
    <2> QED
      BY <2>1, <2>2
  <1>4. f \in Surjection(D, Line)
    BY <1>2, <1>3 DEF Surjection
  <1> HIDE DEF D, f
  <1> QED
    BY <1>1, <1>4, FS_Surjection

\* The lines that PublicKeyDatabase::save writes.
SavedKeys(st) == {l \in Line : l.hashed /\ l.secret \in st[l.user]}

LEMMA SavedLines ==
    ASSUME NEW st
    PROVE  /\ SetToSeq(SavedKeys(st)) \in Seq(Line)
           /\ LinesOf(SetToSeq(SavedKeys(st))) = SavedKeys(st)
  <1>1. SavedKeys(st) \in SUBSET Line
    BY DEF SavedKeys
  <1>2. IsFiniteSet(SavedKeys(st))
    BY <1>1, LineFinite, FS_Subset
  <1>3. SetToSeq(SavedKeys(st)) \in Seq(SavedKeys(st))
    BY <1>2, LinesOfSetToSeq
  <1>4. SetToSeq(SavedKeys(st)) \in Seq(Line)
    BY <1>1, <1>3, SeqMonotonic
  <1> QED
    BY <1>2, <1>4, LinesOfSetToSeq

LEMMA LinesOfAppend ==
    ASSUME NEW ls \in Seq(Line), NEW l \in Line
    PROVE  /\ Append(ls, l) \in Seq(Line)
           /\ LinesOf(Append(ls, l)) = LinesOf(ls) \cup {l}
  <1> DEFINE new == Append(ls, l)
             n == Len(ls)
  <1>1. /\ n \in Nat /\ new \in Seq(Line) /\ Len(new) = n + 1
        /\ \A i \in 1..n : new[i] = ls[i]
        /\ new[n + 1] = l
    BY AppendProperties
  <1> HIDE DEF new
  <1>2. 1..(n + 1) = (1..n) \cup {n + 1}
    BY <1>1
  <1>3. LinesOf(new) = {new[i] : i \in (1..n) \cup {n + 1}}
    BY <1>1, <1>2 DEF LinesOf
  <1>4. LinesOf(new) = LinesOf(ls) \cup {l}
    BY <1>1, <1>3, Zenon DEF LinesOf
  <1> QED
    BY <1>1, <1>4 DEF new

LEMMA LinesOfType ==
    ASSUME NEW ls \in Seq(Line)
    PROVE  LinesOf(ls) \in SUBSET Line /\ IsFiniteSet(LinesOf(ls))
  <1>1. LinesOf(ls) \in SUBSET Line
    BY DEF LinesOf
  <1> QED
    BY <1>1, LineFinite, FS_Subset

\* With keys every line counts, in whatever order.
KeysFollow(st, ls) ==
    \A u \in Users : st[u] = {l.secret : l \in {m \in LinesOf(ls) : m.user = u}}

LEMMA KeysFollowLines ==
    ASSUME method = "public_key"
    PROVE  StoreFollowsFile <=> KeysFollow(store, inForce)
  <1>1. ASSUME NEW u
        PROVE  {inForce[n].secret : n \in {m \in Counting(inForce, u) :
                    method = "password" => \A k \in Counting(inForce, u) : k <= m}}
               = {l.secret : l \in {m \in LinesOf(inForce) : m.user = u}}
    BY DEF Counting, Accepts, LinesOf
  <1> QED
    BY <1>1 DEF StoreFollowsFile, KeysFollow

----------------------------------------------------------------------------
\* The types of the store's part of the state.
StoreTypes ==
    /\ method \in {"password", "public_key"}
    /\ file \in [exists : BOOLEAN, lines : Seq(Line)]
    /\ store \in [Users -> SUBSET Secrets]
    /\ inForce \in Seq(Line)
    /\ revoked \subseteq Users \X Secrets

\* A revoked key is neither in memory nor in the file, from which it would come back.
RevokedEverywhere ==
    \A r \in revoked :
        /\ r[2] \notin store[r[1]]
        /\ \A l \in LinesOf(file.lines) : l.user # r[1] \/ l.secret # r[2]

SInv == StoreTypes /\ StoreFollowsFile /\ RevokedEverywhere

LEMMA InitStore == Init => SInv
  <1> SUFFICES ASSUME Init PROVE SInv
    OBVIOUS
  <1>1. StoreTypes
    BY DEF Init, StoreTypes
  <1>2. StoreFollowsFile
    BY DEF Init, StoreFollowsFile, Counting
  <1>3. RevokedEverywhere
    BY DEF Init, RevokedEverywhere
  <1> QED
    BY <1>1, <1>2, <1>3 DEF SInv

\* What neither the store nor the lines in force notice.
LEMMA FollowsKept ==
    ASSUME UNCHANGED <<method, store, inForce>>, StoreFollowsFile
    PROVE  StoreFollowsFile'
  BY DEF StoreFollowsFile, Counting, Accepts

LEMMA SessionStep == SInv /\ UNCHANGED storeVars => SInv'
  <1> SUFFICES ASSUME SInv, UNCHANGED storeVars PROVE SInv'
    OBVIOUS
  <1> USE DEF SInv, storeVars
  <1>1. StoreTypes' /\ RevokedEverywhere'
    BY DEF StoreTypes, RevokedEverywhere, LinesOf
  <1> QED
    BY <1>1, FollowsKept

LEMMA AddLineStep ==
    ASSUME SInv, NEW l \in Line, AddLine(l)
    PROVE  SInv'
  <1> USE DEF SInv, AddLine
  <1>1. Append(file.lines, l) \in Seq(Line)
    BY LinesOfAppend DEF StoreTypes
  <1>2. StoreTypes'
    BY <1>1 DEF StoreTypes
  <1>3. RevokedEverywhere'
    BY DEF RevokedEverywhere
  <1> QED
    BY <1>2, <1>3, FollowsKept

LEMMA RemoveFileStep == ASSUME SInv, RemoveFile PROVE SInv'
  <1> USE DEF SInv, RemoveFile
  <1>1. StoreTypes'
    BY DEF StoreTypes
  <1>2. RevokedEverywhere'
    BY DEF RevokedEverywhere, LinesOf
  <1> QED
    BY <1>1, <1>2, FollowsKept

LEMMA ReloadStep ==
    ASSUME SInv, NEW opened \in BOOLEAN, Reload(opened)
    PROVE  SInv'
  <1> USE DEF SInv
  <1>1. PICK ls : /\ ls = IF opened THEN file.lines ELSE <<>>
                  /\ store' = LoadStore(ls) /\ inForce' = ls
                  /\ UNCHANGED <<method, file, revoked>>
    BY DEF Reload
  <1>2. ls \in Seq(Line) /\ method \in {"password", "public_key"}
    BY <1>1 DEF StoreTypes
  <1>3. Follows(LoadStore(ls), ls, Len(ls))
    BY <1>2, LoadStoreFollows
  <1>4. LoadStore(ls) \in [Users -> SUBSET Secrets]
    BY <1>3 DEF Follows
  <1>5. StoreTypes'
    BY <1>1, <1>2, <1>4 DEF StoreTypes
  <1>6. StoreFollowsFile'
    BY <1>1, <1>3
       DEF StoreFollowsFile, Counting, Accepts, Follows, Effective, OwnLines
  <1>7. RevokedEverywhere'
    <2> SUFFICES ASSUME NEW r \in revoked
                 PROVE  /\ r[2] \notin LoadStore(ls)[r[1]]
                        /\ \A l \in LinesOf(file.lines) : l.user # r[1] \/ l.secret # r[2]
      BY <1>1 DEF RevokedEverywhere, LinesOf
    <2>1. r[1] \in Users
      BY DEF StoreTypes
    <2>2. ASSUME NEW n \in 1..Len(ls) PROVE ls[n].user # r[1] \/ ls[n].secret # r[2]
      <3>1. ls = file.lines
        BY <1>1, <2>2
      <3> QED
        BY <2>2, <3>1 DEF RevokedEverywhere, LinesOf
    <2>3. r[2] \notin LoadStore(ls)[r[1]]
      BY <1>3, <2>1, <2>2 DEF Follows, Effective, OwnLines
    <2> QED
      BY <2>3 DEF RevokedEverywhere
  <1> QED
    BY <1>5, <1>6, <1>7

\* After a save, or a failed one, no revoked key is in the file.
LEMMA SaveStep ==
    ASSUME SInv, NEW opened \in BOOLEAN, NEW st, Save(st, opened),
           NEW r, \A l \in LinesOf(file.lines) : l.user # r[1] \/ l.secret # r[2],
           r[2] \notin st[r[1]]
    PROVE  \A l \in LinesOf(file'.lines) : l.user # r[1] \/ l.secret # r[2]
  <1>1. CASE opened
    <2>1. file'.lines = SetToSeq(SavedKeys(st))
      BY <1>1 DEF Save, SavedKeys
    <2>2. LinesOf(file'.lines) = SavedKeys(st)
      BY <2>1, SavedLines
    <2> QED
      BY <2>2 DEF SavedKeys
  <1>2. CASE ~opened
    BY <1>2 DEF Save
  <1> QED
    BY <1>1, <1>2

LEMMA SaveType ==
    ASSUME StoreTypes, NEW opened \in BOOLEAN, NEW st, Save(st, opened)
    PROVE  file' \in [exists : BOOLEAN, lines : Seq(Line)]
  <1>1. SetToSeq(SavedKeys(st)) \in Seq(Line)
    BY SavedLines
  <1> QED
    BY <1>1 DEF StoreTypes, Save, SavedKeys

LEMMA AddKeyStep ==
    ASSUME SInv, NEW opened \in BOOLEAN, NEW u \in Users, NEW k \in Secrets,
           AddKey(u, k, opened)
    PROVE  SInv'
  <1> DEFINE st == [store EXCEPT ![u] = @ \cup {k}]
             line == [user |-> u, secret |-> k, hashed |-> TRUE]
  <1>1. /\ method = "public_key" /\ method' = method
        /\ store' = st /\ inForce' = Append(inForce, line)
        /\ Save(st, opened) /\ revoked' = revoked \ {<<u, k>>}
    BY DEF AddKey
  <1>2. store \in [Users -> SUBSET Secrets] /\ inForce \in Seq(Line)
    BY DEF SInv, StoreTypes
  <1>3. line \in Line
    BY DEF Line
  <1>4. st \in [Users -> SUBSET Secrets]
    BY <1>2
  <1>5. /\ Append(inForce, line) \in Seq(Line)
        /\ LinesOf(Append(inForce, line)) = LinesOf(inForce) \cup {line}
    BY <1>2, <1>3, LinesOfAppend
  <1>6. StoreTypes'
    <2>1. file' \in [exists : BOOLEAN, lines : Seq(Line)]
      BY <1>1, SaveType DEF SInv
    <2> QED
      BY <1>1, <1>4, <1>5, <2>1 DEF SInv, StoreTypes
  <1>7. StoreFollowsFile'
    <2>1. KeysFollow(store, inForce)
      BY <1>1, KeysFollowLines DEF SInv
    <2>2. KeysFollow(st, Append(inForce, line))
      <3> SUFFICES ASSUME NEW v \in Users
                   PROVE  st[v] = {l.secret :
                             l \in {m \in LinesOf(inForce) \cup {line} : m.user = v}}
        BY <1>5 DEF KeysFollow
      <3>1. store[v] = {l.secret : l \in {m \in LinesOf(inForce) : m.user = v}}
        BY <2>1 DEF KeysFollow
      <3>2. CASE v = u
        <4>1. st[v] = store[v] \cup {line.secret} /\ line.user = v
          BY <1>2, <3>2
        <4> HIDE DEF st, line
        <4> QED
          BY <3>1, <4>1
      <3>3. CASE v # u
        <4>1. st[v] = store[v] /\ line.user # v
          BY <1>2, <3>3
        <4> HIDE DEF st, line
        <4> QED
          BY <3>1, <4>1
      <3> QED
        BY <3>2, <3>3
    <2> QED
      BY <1>1, <2>2 DEF KeysFollow, StoreFollowsFile, Counting, Accepts, LinesOf
  <1>8. RevokedEverywhere'
    <2> SUFFICES ASSUME NEW r \in revoked, r # <<u, k>>
                 PROVE  /\ r[2] \notin st[r[1]]
                        /\ \A l \in LinesOf(file'.lines) : l.user # r[1] \/ l.secret # r[2]
      BY <1>1 DEF RevokedEverywhere, LinesOf
    <2>1. r \in Users \X Secrets
      BY DEF SInv, StoreTypes
    <2>2. r[1] # u \/ r[2] # k
      BY <2>1
    <2>3. r[2] \notin st[r[1]]
      BY <1>2, <2>1, <2>2 DEF SInv, RevokedEverywhere
    <2> HIDE DEF st
    <2> QED
      BY <1>1, <2>3, SaveStep DEF SInv, RevokedEverywhere
  <1> QED
    BY <1>6, <1>7, <1>8 DEF SInv

LEMMA RemoveKeyStep ==
    ASSUME SInv, NEW opened \in BOOLEAN, NEW u \in Users, NEW k \in Secrets,
           RemoveKey(u, k, opened)
    PROVE  SInv'
  <1> DEFINE st == [store EXCEPT ![u] = @ \ {k}]
             rest == {l \in LinesOf(inForce) : l.user # u \/ l.secret # k}
  <1>1. /\ method = "public_key" /\ method' = method
        /\ store' = st /\ inForce' = SetToSeq(rest)
        /\ Save(st, opened)
        /\ revoked' = IF opened THEN revoked \cup {<<u, k>>} ELSE revoked
    BY DEF RemoveKey
  <1>2. store \in [Users -> SUBSET Secrets] /\ inForce \in Seq(Line)
    BY DEF SInv, StoreTypes
  <1>3. st \in [Users -> SUBSET Secrets]
    BY <1>2
  <1>4. SetToSeq(rest) \in Seq(Line) /\ LinesOf(SetToSeq(rest)) = rest
    <2>1. LinesOf(inForce) \in SUBSET Line
      BY <1>2, LinesOfType
    <2>2. rest \in SUBSET Line
      BY <2>1
    <2>3. IsFiniteSet(rest)
      BY <2>2, LineFinite, FS_Subset
    <2> HIDE DEF rest
    <2>4. SetToSeq(rest) \in Seq(rest)
      BY <2>3, LinesOfSetToSeq
    <2> QED
      BY <2>2, <2>3, <2>4, LinesOfSetToSeq, SeqMonotonic
  <1>5. StoreTypes'
    <2>1. file' \in [exists : BOOLEAN, lines : Seq(Line)]
      BY <1>1, SaveType DEF SInv
    <2>2. revoked' \subseteq Users \X Secrets
      BY <1>1 DEF SInv, StoreTypes
    <2> QED
      BY <1>1, <1>3, <1>4, <2>1, <2>2 DEF SInv, StoreTypes
  <1>6. StoreFollowsFile'
    <2>1. KeysFollow(store, inForce)
      BY <1>1, KeysFollowLines DEF SInv
    <2>2. KeysFollow(st, SetToSeq(rest))
      <3> SUFFICES ASSUME NEW v \in Users
                   PROVE  st[v] = {l.secret : l \in {m \in rest : m.user = v}}
        BY <1>4 DEF KeysFollow
      <3>1. store[v] = {l.secret : l \in {m \in LinesOf(inForce) : m.user = v}}
        BY <2>1 DEF KeysFollow
      <3>2. CASE v = u
        <4>1. st[v] = store[v] \ {k}
          BY <1>2, <3>2
        <4> HIDE DEF st
        <4> QED
          BY <3>1, <3>2, <4>1
      <3>3. CASE v # u
        <4>1. st[v] = store[v]
          BY <1>2, <3>3
        <4> HIDE DEF st
        <4> QED
          BY <3>1, <3>3, <4>1
      <3> QED
        BY <3>2, <3>3
    <2> HIDE DEF st, rest
    <2> QED
      BY <1>1, <2>2 DEF KeysFollow, StoreFollowsFile, Counting, Accepts, LinesOf
  <1>7. RevokedEverywhere'
    <2>1. ASSUME NEW r \in revoked
          PROVE  /\ r[2] \notin st[r[1]]
                 /\ \A l \in LinesOf(file'.lines) : l.user # r[1] \/ l.secret # r[2]
      <3>1. r \in Users \X Secrets /\ r[2] \notin store[r[1]]
        BY <2>1 DEF SInv, StoreTypes, RevokedEverywhere
      <3>2. r[2] \notin st[r[1]]
        BY <1>2, <3>1
      <3> HIDE DEF st
      <3> QED
        BY <1>1, <2>1, <3>2, SaveStep DEF SInv, RevokedEverywhere
    <2>2. ASSUME opened
          PROVE  /\ k \notin st[u]
                 /\ \A l \in LinesOf(file'.lines) : l.user # u \/ l.secret # k
      <3>1. k \notin st[u]
        BY <1>2
      <3>2. file'.lines = SetToSeq(SavedKeys(st))
        BY <1>1, <2>2 DEF Save, SavedKeys
      <3> HIDE DEF st
      <3>3. LinesOf(file'.lines) = SavedKeys(st)
        BY <3>2, SavedLines
      <3> QED
        BY <3>1, <3>3 DEF SavedKeys
    <2> SUFFICES ASSUME NEW r \in revoked'
                 PROVE  /\ r[2] \notin store'[r[1]]
                        /\ \A l \in LinesOf(file'.lines) : l.user # r[1] \/ l.secret # r[2]
      BY DEF RevokedEverywhere, LinesOf
    <2> HIDE DEF st
    <2>3. CASE r \in revoked
      BY <1>1, <2>1, <2>3
    <2>4. CASE r \notin revoked
      <3>1. opened /\ r = <<u, k>>
        BY <1>1, <2>4
      <3> QED
        BY <1>1, <2>2, <3>1
    <2> QED
      BY <2>3, <2>4
  <1> QED
    BY <1>5, <1>6, <1>7 DEF SInv

LEMMA NextStore == SInv /\ [Next]_vars => SInv'
  <1> SUFFICES ASSUME SInv, [Next]_vars PROVE SInv'
    OBVIOUS
  <1>1. ASSUME UNCHANGED storeVars PROVE SInv'
    BY <1>1, SessionStep
  <1>2. CASE RemoveFile
    BY <1>2, RemoveFileStep
  <1>3. ASSUME NEW l \in Line, AddLine(l) PROVE SInv'
    BY <1>3, AddLineStep
  <1>4. ASSUME NEW opened \in BOOLEAN, Reload(opened) PROVE SInv'
    BY <1>4, ReloadStep
  <1>5. ASSUME NEW opened \in BOOLEAN, NEW u \in Users, NEW k \in Secrets,
               AddKey(u, k, opened) \/ RemoveKey(u, k, opened)
        PROVE  SInv'
    BY <1>5, AddKeyStep, RemoveKeyStep
  <1>6. CASE \/ CleanupExpiredSessions \/ Tick
             \/ \E t \in Threads, u \in Users, s \in Secrets : Login(t, u, s)
             \/ \E t \in Threads, i \in Ids : CreateSession(t, i)
             \/ \E i \in Ids : UpdateActivity(i) \/ DeleteSession(i)
             \/ UNCHANGED vars
    <2>1. UNCHANGED storeVars
      BY <1>6 DEF CleanupExpiredSessions, Tick, Login, CreateSession, UpdateActivity,
                  DeleteSession, vars
    <2> QED
      BY <1>1, <2>1
  <1> QED
    BY <1>2, <1>3, <1>4, <1>5, <1>6 DEF Next

\* The store in memory, the lines it was made from and the revocations stay consistent.
THEOREM StoreInvariant == Spec => []SInv
  BY InitStore, NextStore, PTL DEF Spec

\* Who can log in with what is what the file said when it was last loaded, and the keys
\* added and removed since: with passwords a user's last acceptable line, with keys all
\* of them, for files of any length.
THEOREM StoreDoesFollowFile == Spec => []StoreFollowsFile
  <1>1. SInv => StoreFollowsFile
    BY DEF SInv
  <1> QED
    BY <1>1, StoreInvariant, PTL

\* A key that removeKey reported as removed opens no account, whatever is reloaded or
\* saved after that, until it is added again or the file is edited.
THEOREM RevokedDoesStayOut == Spec => []RevokedStaysOut
  <1>1. SInv => RevokedStaysOut
    BY DEF SInv, RevokedEverywhere, RevokedStaysOut
  <1> QED
    BY <1>1, StoreInvariant, PTL

\* The types of the manager's state.
THEOREM AuthTypeCorrect == Spec => []TypeOK
  <1>1. IInv /\ SInv => TypeOK
    BY DEF IInv, SInv, TypeOK, SessionTypes, StoreTypes, SessionRecords, LoginRecords
  <1> QED
    BY <1>1, SessionInvariant, StoreInvariant, PTL
=============================================================================
