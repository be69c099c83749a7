-------------------------------- MODULE Auth --------------------------------
(***************************************************************************)
(* AuthenticationManager (core/auth.cpp) with the store it was configured  *)
(* with, a PasswordFile or a PublicKeyDatabase, and its SessionManager.    *)
(* The daemon has one manager; its worker threads log clients in, an       *)
(* administrator edits the file and calls the management operations.       *)
(*                                                                         *)
(* A secret is a password, or the key whose signature the client sends;    *)
(* whether a secret fits a stored one (digest or signature check) is       *)
(* equality.  A file is the sequence of the lines that parse.  Times are   *)
(* system_clock, in ticks finer than the seconds of the timeout, and the   *)
(* clock is assumed not to be set back.  Authentication is enabled:        *)
(* otherwise RSyncSession never asks the manager.  user_info_, the home    *)
(* directories of a password file, is left out: nothing decides by it.     *)
(***************************************************************************)
EXTENDS Integers, Sequences, FiniteSets, SequencesExt

CONSTANTS
    Users, Secrets,
    Denied,         \* denied_users
    Allowed,        \* allowed_users, empty for everybody
    RejectPlain,    \* reject_plaintext_passwords
    MaxLines,       \* bound on the length of the file
    Threads,        \* the daemon's worker threads
    NoUser,         \* no session, and a thread that is not logging anyone in
    Ids,            \* what generateSessionId returns, never the same twice
    Timeout,        \* the session timeout in seconds (3600 in the code)
    TicksPerSecond, \* the resolution of system_clock
    MaxTime         \* bound on the clock

ASSUME AuthConstants ==
    /\ Denied \subseteq Users /\ Allowed \subseteq Users
    /\ NoUser \notin Users
    /\ IsFiniteSet(Users) /\ IsFiniteSet(Secrets)
    /\ RejectPlain \in BOOLEAN
    /\ MaxLines \in Nat /\ Timeout \in Nat /\ MaxTime \in Nat
    /\ TicksPerSecond \in Nat \ {0}

VARIABLES
    method,     \* auth.method: "password" or "public_key"
    file,       \* the file on disk: does it exist, and its lines
    store,      \* users_ or keys_: the secrets that open each user's account
    inForce,    \* history: the lines last loaded, keys added and removed since
    revoked,    \* history: removals of keys that were reported as done
    clock,
    sessions,   \* sessions_
    login,      \* a thread's createSession before it has the lock
    lastUse     \* history: when a session was created or last used

storeVars == <<method, file, store, inForce, revoked>>
sessionVars == <<clock, sessions, login, lastUse>>
vars == <<storeVars, sessionVars>>

Line == [user : Users, secret : Secrets, hashed : BOOLEAN]
LinesOf(ls) == {ls[n] : n \in 1..Len(ls)}
NoSession == [user |-> NoUser, last |-> 0]
NoLogin == [user |-> NoUser, stamp |-> 0]

\* The types of the manager's state.
TypeOK ==
    /\ method \in {"password", "public_key"}
    /\ file \in [exists : BOOLEAN, lines : Seq(Line)]
    /\ store \in [Users -> SUBSET Secrets]
    /\ inForce \in Seq(Line)
    /\ revoked \subseteq Users \X Secrets
    /\ clock \in Nat \ {0}
    /\ sessions \in [Ids -> [user : Users \cup {NoUser}, last : Nat]]
    /\ login \in [Threads -> [user : Users \cup {NoUser}, stamp : Nat]]
    /\ lastUse \in [Ids -> Nat]

Init ==
    /\ method \in {"password", "public_key"}
    /\ file = [exists |-> FALSE, lines |-> <<>>]
    /\ store = [u \in Users |-> {}]
    /\ inForce = <<>> /\ revoked = {}
    /\ clock = 1
    /\ sessions = [i \in Ids |-> NoSession]
    /\ login = [t \in Threads |-> NoLogin]
    /\ lastUse = [i \in Ids |-> 0]

----------------------------------------------------------------------------
\* The store.

\* The file is edited behind the manager's back.
AddLine(l) ==
    /\ Len(file.lines) < MaxLines
    /\ method = "public_key" => l.hashed
    /\ file' = [exists |-> TRUE, lines |-> Append(file.lines, l)]
    /\ revoked' = {}
    /\ UNCHANGED <<method, store, inForce, sessionVars>>

RemoveFile ==
    /\ file.exists
    /\ file' = [exists |-> FALSE, lines |-> <<>>]
    /\ UNCHANGED <<method, store, inForce, revoked, sessionVars>>

Accepts(l) == method = "password" /\ RejectPlain => l.hashed

\* One line of PasswordFile::load or of PublicKeyDatabase::load.
LoadLine(st, l) ==
    IF ~Accepts(l) THEN st
    ELSE [st EXCEPT ![l.user] =
            IF method = "password" THEN {l.secret} ELSE @ \cup {l.secret}]

\* Mutant of LoadStore: what was in memory stays.
LoadKeeps(ls) == FoldLeft(LoadLine, store, ls)

\* The maps are cleared before the file is opened.
LoadStore(ls) == FoldLeft(LoadLine, [u \in Users |-> {}], ls)

\* reload(), which finds nothing when the file cannot be opened.
Reload(opened) ==
    LET ls == IF opened THEN file.lines ELSE <<>> IN
    /\ opened => file.exists
    /\ store' = LoadStore(ls)
    /\ inForce' = ls
    /\ UNCHANGED <<method, file, revoked, sessionVars>>

\* Mutant of Save: an existing file is left alone.
SaveOnce(st, opened) ==
    file' = IF file.exists THEN file
            ELSE [exists |-> TRUE,
                  lines |-> SetToSeq({l \in Line : l.hashed /\ l.secret \in st[l.user]})]

\* PublicKeyDatabase::save of the keys st, when the file can be opened.
Save(st, opened) ==
    file' = IF opened
            THEN [exists |-> TRUE,
                  lines |-> SetToSeq({l \in Line : l.hashed /\ l.secret \in st[l.user]})]
            ELSE file

\* addKey and removeKey change the keys and then save them; they report whether the
\* file was written.
AddKey(u, k, opened) ==
    LET st == [store EXCEPT ![u] = @ \cup {k}] IN
    /\ method = "public_key"
    /\ Len(inForce) < MaxLines
    /\ store' = st
    /\ inForce' = Append(inForce, [user |-> u, secret |-> k, hashed |-> TRUE])
    /\ Save(st, opened)
    /\ revoked' = revoked \ {<<u, k>>}
    /\ UNCHANGED <<method, sessionVars>>

RemoveKey(u, k, opened) ==
    LET st == [store EXCEPT ![u] = @ \ {k}] IN
    /\ method = "public_key"
    /\ store[u] # {}
    /\ store' = st
    /\ inForce' = SetToSeq({l \in LinesOf(inForce) : l.user # u \/ l.secret # k})
    /\ Save(st, opened)
    /\ revoked' = IF opened THEN revoked \cup {<<u, k>>} ELSE revoked
    /\ UNCHANGED <<method, sessionVars>>

----------------------------------------------------------------------------
\* Logging in, and the sessions.

\* authenticate or authenticateWithKey, up to the clock that createSession reads before
\* it takes the lock.  A login that is refused changes nothing.
Login(t, u, s) ==
    /\ login[t] = NoLogin
    /\ u \notin Denied
    /\ Allowed # {} => u \in Allowed
    /\ s \in store[u]
    /\ login' = [login EXCEPT ![t] = [user |-> u, stamp |-> clock]]
    /\ UNCHANGED <<storeVars, clock, sessions, lastUse>>

\* Mutant of CreateSession: an expiry time where the last activity is wanted.
CreateWithExpiry(t, i) ==
    /\ login[t] # NoLogin
    /\ lastUse[i] = 0
    /\ sessions' = [sessions EXCEPT ![i] =
          [user |-> login[t].user, last |-> login[t].stamp + Timeout * TicksPerSecond]]
    /\ lastUse' = [lastUse EXCEPT ![i] = clock]
    /\ login' = [login EXCEPT ![t] = NoLogin]
    /\ UNCHANGED <<storeVars, clock>>

\* The critical section of createSession, with a new id.
CreateSession(t, i) ==
    /\ login[t] # NoLogin
    /\ lastUse[i] = 0
    /\ sessions' = [sessions EXCEPT ![i] = [user |-> login[t].user,
                                            last |-> login[t].stamp]]
    /\ lastUse' = [lastUse EXCEPT ![i] = clock]
    /\ login' = [login EXCEPT ![t] = NoLogin]
    /\ UNCHANGED <<storeVars, clock>>

\* duration_cast<seconds> of the time since the last activity: a second that has begun
\* does not count.
Elapsed(i) == (clock - sessions[i].last) \div TicksPerSecond

\* isValidSession; active is never cleared.
IsValidSession(i) == sessions[i] # NoSession /\ Elapsed(i) <= Timeout

GetActiveSessions == {i \in Ids : sessions[i] # NoSession /\ ~(Elapsed(i) > Timeout)}

\* updateActivity does not ask whether the session is still valid.
UpdateActivity(i) ==
    /\ sessions[i] # NoSession
    /\ sessions' = [sessions EXCEPT ![i].last = clock]
    /\ lastUse' = [lastUse EXCEPT ![i] = clock]
    /\ UNCHANGED <<storeVars, clock, login>>

DeleteSession(i) ==
    /\ sessions[i] # NoSession
    /\ sessions' = [sessions EXCEPT ![i] = NoSession]
    /\ UNCHANGED <<storeVars, clock, login, lastUse>>

\* Mutant of CleanupExpiredSessions: the exact time is compared, without the cast.
CleanupEarly ==
    /\ sessions' = [i \in Ids |->
          IF clock - sessions[i].last > Timeout * TicksPerSecond
          THEN NoSession ELSE sessions[i]]
    /\ UNCHANGED <<storeVars, clock, login, lastUse>>

CleanupExpiredSessions ==
    /\ sessions' = [i \in Ids |->
          IF Elapsed(i) > Timeout THEN NoSession ELSE sessions[i]]
    /\ UNCHANGED <<storeVars, clock, login, lastUse>>

Tick ==
    /\ clock < MaxTime
    /\ clock' = clock + 1
    /\ UNCHANGED <<storeVars, sessions, login, lastUse>>

Next ==
    \/ RemoveFile \/ CleanupExpiredSessions \/ Tick
    \/ \E l \in Line : AddLine(l)
    \/ \E opened \in BOOLEAN :
          \/ Reload(opened)
          \/ \E u \in Users, k \in Secrets : AddKey(u, k, opened) \/ RemoveKey(u, k, opened)
    \/ \E t \in Threads, u \in Users, s \in Secrets : Login(t, u, s)
    \/ \E t \in Threads, i \in Ids : CreateSession(t, i)
    \/ \E i \in Ids : UpdateActivity(i) \/ DeleteSession(i)

Spec == Init /\ [][Next]_vars

----------------------------------------------------------------------------
\* The lines of ls that count for u.
Counting(ls, u) == {n \in 1..Len(ls) : ls[n].user = u /\ Accepts(ls[n])}

\* Who can log in with what follows from the file as it was last loaded: with passwords
\* a user's last acceptable line counts and no other, with keys all of them; a failed
\* reload leaves nobody, and nothing survives from the file before.
StoreFollowsFile ==
    \A u \in Users :
        LET own == Counting(inForce, u) IN
        store[u] = {inForce[n].secret :
                      n \in {m \in own : method = "password" => \A k \in own : k <= m}}

\* A key whose removal was reported as done opens no account again, whatever is loaded
\* or saved later, until it is added again or somebody edits the file.
RevokedStaysOut == \A r \in revoked : r[2] \notin store[r[1]]

\* An idle session lapses, but not when its timeout is over: as duration_cast drops the
\* second that has begun, it stays valid until the timeout and one second more have
\* passed since it was entered by createSession or last used.
IdleSessionsLapse ==
    \A i \in Ids :
        IsValidSession(i) => clock - lastUse[i] < (Timeout + 1) * TicksPerSecond

\* The three places that decide whether a session has expired agree to the tick: what
\* getActiveSessions lists is what isValidSession accepts, cleanupExpiredSessions removes
\* just the others, a valid session disappears only when it is deleted, and one that has
\* lapsed becomes valid again only by being used itself, which updateActivity allows.
ExpiryAgrees ==
    [][\A i \in Ids : sessions[i] # NoSession =>
          /\ i \in GetActiveSessions <=> IsValidSession(i)
          /\ CleanupExpiredSessions => (sessions'[i] = NoSession <=> ~IsValidSession(i))
          /\ IsValidSession(i) /\ sessions'[i] = NoSession => DeleteSession(i)
          /\ ~IsValidSession(i) /\ IsValidSession(i)' => lastUse'[i] = clock]_vars
=============================================================================
