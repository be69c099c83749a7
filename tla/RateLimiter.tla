---------------------------- MODULE RateLimiter ----------------------------
(***************************************************************************)
(* ConnectionRateLimiter (security/rate_limiter.cpp) and the protocol by   *)
(* which RSyncDaemon::acceptLoop uses it: allowConnection before the       *)
(* connection is admitted, recordConnection after the max_connections      *)
(* check, each under the limiter's own mutex and not under a common one.   *)
(* A caller is a thread that runs this protocol; the daemon has one, its   *)
(* accept thread.                                                          *)
(***************************************************************************)
EXTENDS Integers, FiniteSets

CONSTANTS
    Clients,        \* client addresses
    NoClient,       \* the value of pending[t] when t holds no permission
    Callers,        \* threads between checkRateLimit and updateRateLimit
    MaxPerMinute,   \* max_per_minute_, 0 for no limit
    MaxPerHour,     \* max_per_hour_, 0 for no limit
    Minute,         \* length of the short window (60 s in the code)
    Hour,           \* length of the long window (3600 s in the code)
    MaxTime         \* bound on the clock

ASSUME LimitsAssumption == MaxPerMinute \in Nat /\ MaxPerHour \in Nat
ASSUME PeriodsAssumption == Minute \in Nat \ {0} /\ Hour \in Nat \ {0}
ASSUME CallersAssumption == IsFiniteSet(Callers) /\ Callers # {}
ASSUME ClientsAssumption == NoClient \notin Clients
ASSUME MaxTimeAssumption == MaxTime \in Nat \ {0}

VARIABLES
    now,            \* steady_clock, never 0
    minute,         \* minute_windows_; start = 0 before the first use
    hour,           \* hour_windows_
    pending,        \* the client a caller was allowed to admit, not yet recorded
    sinceMinute,    \* history: connections admitted since minute[c] started
    sinceHour       \* history: connections admitted since hour[c] started

vars == <<now, minute, hour, pending, sinceMinute, sinceHour>>

Window == [start : Nat, count : Nat]

\* The types of the limiter's state.
TypeOK ==
    /\ now \in Nat \ {0}
    /\ minute \in [Clients -> Window]
    /\ hour \in [Clients -> Window]
    /\ pending \in [Callers -> Clients \cup {NoClient}]
    /\ sinceMinute \in [Clients -> Nat]
    /\ sinceHour \in [Clients -> Nat]

----------------------------------------------------------------------------
\* Mutant of Expired: the comparison is the wrong way round.
ExpiredReversed(w, period) == w.start = 0 \/ now - w.start <= period

Expired(w, period) == w.start = 0 \/ now - w.start >= period

Refresh(w, period) ==
    IF Expired(w, period) THEN [start |-> now, count |-> 0] ELSE w

\* Mutant of Increment: a full window goes on counting.
IncrementPastFull(w, max, period) == [Refresh(w, period) EXCEPT !.count = @ + 1]

\* incrementWindow; a full window is left as it is and the caller is not told.
Increment(w, max, period) ==
    LET r == Refresh(w, period)
    IN  IF max > 0 /\ r.count >= max THEN r ELSE [r EXCEPT !.count = @ + 1]

\* The history counter that goes with a window: restarted with it.
Restarted(n, w, period) == IF Expired(w, period) THEN 0 ELSE n

\* Mutant of MinuteFull: one connection too many.
MinuteFullLate(c) ==
    MaxPerMinute > 0 /\ Refresh(minute[c], Minute).count > MaxPerMinute

MinuteFull(c) ==
    MaxPerMinute > 0 /\ Refresh(minute[c], Minute).count >= MaxPerMinute

\* Mutant of HourFull: one connection too many, in a window that may be over.
HourFullLate(c) ==
    MaxPerHour > 0 /\ hour[c].count > MaxPerHour

HourFull(c) ==
    MaxPerHour > 0 /\ Refresh(hour[c], Hour).count >= MaxPerHour

----------------------------------------------------------------------------
Init ==
    /\ now = 1
    /\ minute = [c \in Clients |-> [start |-> 0, count |-> 0]]
    /\ hour = [c \in Clients |-> [start |-> 0, count |-> 0]]
    /\ pending = [t \in Callers |-> NoClient]
    /\ sinceMinute = [c \in Clients |-> 0]
    /\ sinceHour = [c \in Clients |-> 0]

Tick ==
    /\ now < MaxTime
    /\ now' = now + 1
    /\ UNCHANGED <<minute, hour, pending, sinceMinute, sinceHour>>

TouchMinute(c) ==
    IF MaxPerMinute > 0
    THEN /\ minute' = [minute EXCEPT ![c] = Refresh(@, Minute)]
         /\ sinceMinute' = [sinceMinute EXCEPT ![c] = Restarted(@, minute[c], Minute)]
    ELSE UNCHANGED <<minute, sinceMinute>>

TouchHour(c) ==
    IF MaxPerHour > 0
    THEN /\ hour' = [hour EXCEPT ![c] = Refresh(@, Hour)]
         /\ sinceHour' = [sinceHour EXCEPT ![c] = Restarted(@, hour[c], Hour)]
    ELSE UNCHANGED <<hour, sinceHour>>

\* allowConnection returns false on the short window: the long one is not looked at.
RefuseMinute(t, c) ==
    /\ pending[t] = NoClient
    /\ MinuteFull(c)
    /\ TouchMinute(c)
    /\ UNCHANGED <<now, hour, pending, sinceHour>>

\* allowConnection returns false on the long window, the short one restarted if due.
RefuseHour(t, c) ==
    /\ pending[t] = NoClient
    /\ ~MinuteFull(c)
    /\ HourFull(c)
    /\ TouchMinute(c)
    /\ TouchHour(c)
    /\ UNCHANGED <<now, pending>>

\* allowConnection returns true.
Allow(t, c) ==
    /\ pending[t] = NoClient
    /\ ~MinuteFull(c)
    /\ ~HourFull(c)
    /\ TouchMinute(c)
    /\ TouchHour(c)
    /\ pending' = [pending EXCEPT ![t] = c]
    /\ UNCHANGED now

\* The accept loop found max_connections reached: the permission is dropped.
Abandon(t) ==
    /\ pending[t] # NoClient
    /\ pending' = [pending EXCEPT ![t] = NoClient]
    /\ UNCHANGED <<now, minute, hour, sinceMinute, sinceHour>>

\* updateRateLimit -> recordConnection: the connection is admitted.
Record(t) ==
    LET c == pending[t] IN
    /\ c # NoClient
    /\ pending' = [pending EXCEPT ![t] = NoClient]
    /\ IF MaxPerMinute > 0
       THEN /\ minute' = [minute EXCEPT ![c] = Increment(@, MaxPerMinute, Minute)]
            /\ sinceMinute' = [sinceMinute EXCEPT
                                 ![c] = Restarted(@, minute[c], Minute) + 1]
       ELSE UNCHANGED <<minute, sinceMinute>>
    /\ IF MaxPerHour > 0
       THEN /\ hour' = [hour EXCEPT ![c] = Increment(@, MaxPerHour, Hour)]
            /\ sinceHour' = [sinceHour EXCEPT
                               ![c] = Restarted(@, hour[c], Hour) + 1]
       ELSE UNCHANGED <<hour, sinceHour>>
    /\ UNCHANGED now

Next ==
    \/ Tick
    \/ \E t \in Callers : Abandon(t) \/ Record(t)
    \/ \E t \in Callers, c \in Clients :
          RefuseMinute(t, c) \/ RefuseHour(t, c) \/ Allow(t, c)

Spec == Init /\ [][Next]_vars

----------------------------------------------------------------------------
\* Connections a window may admit above its limit: one for every other caller
\* that holds a permission when the window's last place is taken.
Slack == Cardinality(Callers) - 1

Holders(c) == {t \in Callers : pending[t] = c}

\* A window, the connections n it has admitted and the p permissions that are out.
Accounted(w, n, max, p) ==
    max > 0 =>
        /\ w.count <= max
        /\ w.count <= n
        /\ w.count < max => n = w.count
        /\ n + p <= max + Slack

\* The windows account for the permissions that are still out: a window counts every
\* admission until it is full, and what it has admitted plus what callers may yet
\* record for it stays within its limit plus Slack.
WindowsAccount ==
    \A c \in Clients :
        /\ Accounted(minute[c], sinceMinute[c], MaxPerMinute, Cardinality(Holders(c)))
        /\ Accounted(hour[c], sinceHour[c], MaxPerHour, Cardinality(Holders(c)))

\* allowConnection and recordConnection take the lock separately, yet no window of
\* either length admits more than its limit plus Slack; for the daemon, whose only
\* caller is the accept thread, Slack is 0 and the limit is exact.
AdmittedWithinLimit ==
    \A c \in Clients :
        /\ MaxPerMinute > 0 => sinceMinute[c] <= MaxPerMinute + Slack
        /\ MaxPerHour > 0 => sinceHour[c] <= MaxPerHour + Slack

\* recordConnection ignores the result of incrementWindow, so an admission into a full
\* window is not counted: that happens at most once for every other caller, and never
\* in the daemon, which has one.
EveryAdmissionCounted ==
    \A c \in Clients :
        /\ MaxPerMinute > 0 => sinceMinute[c] \in minute[c].count..(minute[c].count + Slack)
        /\ MaxPerHour > 0 => sinceHour[c] \in hour[c].count..(hour[c].count + Slack)
=============================================================================
