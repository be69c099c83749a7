------------------------- MODULE RateLimiterProofs --------------------------
(***************************************************************************)
(* Proofs about RateLimiter, for every set of clients, every finite set of *)
(* callers, all limits and all periods.  WindowsAccount is the inductive   *)
(* invariant: the bound on what a window admits is not inductive alone,    *)
(* the permissions given out and not yet recorded have to be counted too.  *)
(* For intervals that are not windows (RateHistory), Spread adds what was  *)
(* admitted shortly before the present window started.                     *)
(***************************************************************************)
EXTENDS RateHistory, FiniteSetTheorems, TLAPS

N == Cardinality(Callers)

IInv == TypeOK /\ WindowsAccount

----------------------------------------------------------------------------
\* The number of callers, and of those that hold a permission for one client.

LEMMA CallersFinite ==
    /\ N \in Nat /\ N >= 1
    /\ Slack \in Nat /\ Slack = N - 1
BY CallersAssumption, FS_CardinalityType, FS_EmptySet DEF N, Slack

LEMMA HoldersFinite ==
    ASSUME NEW c
    PROVE  /\ IsFiniteSet(Holders(c))
           /\ Cardinality(Holders(c)) \in Nat
           /\ Cardinality(Holders(c)) <= N
<1>1. Holders(c) \in SUBSET Callers
  BY DEF Holders
<1>2. IsFiniteSet(Holders(c)) /\ Cardinality(Holders(c)) <= N
  BY <1>1, FS_Subset, CallersAssumption DEF N
<1> QED
  BY <1>2, FS_CardinalityType

\* A caller without a permission for c leaves room for one more.
LEMMA HoldersNotAll ==
    ASSUME NEW c, NEW t \in Callers, pending[t] # c
    PROVE  Cardinality(Holders(c)) + 1 <= N
<1>1. Holders(c) \cup {t} \in SUBSET Callers /\ t \notin Holders(c)
  BY DEF Holders
<1>2. Cardinality(Holders(c) \cup {t}) = Cardinality(Holders(c)) + 1
  BY <1>1, HoldersFinite, FS_AddElement
<1>3. Cardinality(Holders(c) \cup {t}) <= N
  BY <1>1, FS_Subset, CallersAssumption DEF N
<1> QED
  BY <1>2, <1>3

\* Giving a permission to t, and taking it away.
LEMMA HoldersAfterGrant ==
    ASSUME TypeOK, NEW t \in Callers, pending[t] = NoClient, NEW c \in Clients,
           pending' = [pending EXCEPT ![t] = c], NEW d \in Clients
    PROVE  Cardinality(Holders(d)') =
             IF d = c THEN Cardinality(Holders(d)) + 1 ELSE Cardinality(Holders(d))
<1>1. t \notin Holders(d)
  BY ClientsAssumption DEF Holders
<1>2. CASE d = c
  <2>1. Holders(d)' = Holders(d) \cup {t}
    BY <1>2 DEF TypeOK, Holders
  <2> QED
    BY <1>1, <1>2, <2>1, HoldersFinite, FS_AddElement
<1>3. CASE d # c
  <2>1. Holders(d)' = Holders(d)
    BY <1>3, ClientsAssumption DEF TypeOK, Holders
  <2> QED
    BY <1>3, <2>1
<1> QED
  BY <1>2, <1>3

LEMMA HoldersAfterRelease ==
    ASSUME TypeOK, NEW t \in Callers, pending[t] # NoClient,
           pending' = [pending EXCEPT ![t] = NoClient], NEW d \in Clients
    PROVE  Cardinality(Holders(d)') =
             IF d = pending[t] THEN Cardinality(Holders(d)) - 1
                               ELSE Cardinality(Holders(d))
<1>1. CASE d = pending[t]
  <2>1. Holders(d)' = Holders(d) \ {t} /\ t \in Holders(d)
    BY <1>1, ClientsAssumption DEF TypeOK, Holders
  <2> QED
    BY <1>1, <2>1, HoldersFinite, FS_RemoveElement
<1>2. CASE d # pending[t]
  <2>1. Holders(d)' = Holders(d)
    BY <1>2, ClientsAssumption DEF TypeOK, Holders
  <2> QED
    BY <1>2, <2>1
<1> QED
  BY <1>1, <1>2

----------------------------------------------------------------------------
\* One window: what the operators on it preserve.

LEMMA WindowTypes ==
    ASSUME now \in Nat \ {0}, NEW w \in Window, NEW n \in Nat, NEW max \in Nat,
           NEW period \in Nat
    PROVE  /\ Refresh(w, period) \in Window
           /\ Restarted(n, w, period) \in Nat
           /\ Increment(w, max, period) \in Window
BY DEF Window, Refresh, Restarted, Increment, Expired

LEMMA RefreshAccounted ==
    ASSUME now \in Nat \ {0}, NEW w \in Window, NEW n \in Nat, NEW max \in Nat,
           NEW period \in Nat, NEW p \in Nat, p <= N, Accounted(w, n, max, p)
    PROVE  Accounted(Refresh(w, period), Restarted(n, w, period), max, p)
BY CallersFinite DEF Accounted, Refresh, Restarted, Expired, Window

\* A permission given while the window has room.
LEMMA GrantAccounted ==
    ASSUME now \in Nat \ {0}, NEW w \in Window, NEW n \in Nat, NEW max \in Nat,
           NEW period \in Nat, NEW p \in Nat, p + 1 <= N, Accounted(w, n, max, p),
           max > 0 => Refresh(w, period).count < max
    PROVE  Accounted(Refresh(w, period), Restarted(n, w, period), max, p + 1)
BY CallersFinite DEF Accounted, Refresh, Restarted, Expired, Window

\* A permission turned into an admission.
LEMMA RecordAccounted ==
    ASSUME now \in Nat \ {0}, NEW w \in Window, NEW n \in Nat, NEW max \in Nat,
           NEW period \in Nat, NEW p \in Nat, p >= 1, p <= N, Accounted(w, n, max, p)
    PROVE  Accounted(Increment(w, max, period), Restarted(n, w, period) + 1, max, p - 1)
BY CallersFinite DEF Accounted, Increment, Refresh, Restarted, Expired, Window

LEMMA FewerHolders ==
    ASSUME NEW w \in Window, NEW n \in Nat, NEW max \in Nat, NEW p \in Nat,
           NEW q \in Int, q <= p, Accounted(w, n, max, p)
    PROVE  Accounted(w, n, max, q)
BY CallersFinite DEF Accounted, Window

----------------------------------------------------------------------------
\* The type invariant.

LEMMA InitTypeOK == Init => TypeOK
BY DEF Init, TypeOK, Window

\* What TouchMinute and TouchHour do to the types.
LEMMA TouchMinuteType ==
    ASSUME TypeOK, NEW c \in Clients, TouchMinute(c)
    PROVE  minute' \in [Clients -> Window] /\ sinceMinute' \in [Clients -> Nat]
<1>1. minute[c] \in Window /\ sinceMinute[c] \in Nat
  BY DEF TypeOK
<1>2. Refresh(minute[c], Minute) \in Window
  BY <1>1, WindowTypes, PeriodsAssumption, LimitsAssumption DEF TypeOK
<1>3. Restarted(sinceMinute[c], minute[c], Minute) \in Nat
  BY <1>1, WindowTypes, PeriodsAssumption, LimitsAssumption DEF TypeOK
<1> QED
  BY <1>2, <1>3 DEF TypeOK, TouchMinute

LEMMA TouchHourType ==
    ASSUME TypeOK, NEW c \in Clients, TouchHour(c)
    PROVE  hour' \in [Clients -> Window] /\ sinceHour' \in [Clients -> Nat]
<1>1. hour[c] \in Window /\ sinceHour[c] \in Nat
  BY DEF TypeOK
<1>2. Refresh(hour[c], Hour) \in Window
  BY <1>1, WindowTypes, PeriodsAssumption, LimitsAssumption DEF TypeOK
<1>3. Restarted(sinceHour[c], hour[c], Hour) \in Nat
  BY <1>1, WindowTypes, PeriodsAssumption, LimitsAssumption DEF TypeOK
<1> QED
  BY <1>2, <1>3 DEF TypeOK, TouchHour

LEMMA RecordType ==
    ASSUME TypeOK, NEW t \in Callers, Record(t)
    PROVE  TypeOK'
<1> DEFINE c == pending[t]
<1>1. c \in Clients
  BY DEF Record, TypeOK
<1>2. /\ minute[c] \in Window /\ sinceMinute[c] \in Nat
      /\ hour[c] \in Window /\ sinceHour[c] \in Nat
  BY <1>1 DEF TypeOK
<1>3. /\ Increment(minute[c], MaxPerMinute, Minute) \in Window
      /\ Restarted(sinceMinute[c], minute[c], Minute) \in Nat
  BY <1>2, WindowTypes, PeriodsAssumption, LimitsAssumption DEF TypeOK
<1>4. /\ Increment(hour[c], MaxPerHour, Hour) \in Window
      /\ Restarted(sinceHour[c], hour[c], Hour) \in Nat
  BY <1>2, WindowTypes, PeriodsAssumption, LimitsAssumption DEF TypeOK
<1>5. minute' \in [Clients -> Window] /\ sinceMinute' \in [Clients -> Nat]
  BY <1>3 DEF Record, TypeOK
<1>6. hour' \in [Clients -> Window] /\ sinceHour' \in [Clients -> Nat]
  BY <1>4 DEF Record, TypeOK
<1>7. now' \in Nat \ {0} /\ pending' \in [Callers -> Clients \cup {NoClient}]
  BY DEF Record, TypeOK
<1> QED
  BY <1>5, <1>6, <1>7 DEF TypeOK

LEMMA NextTypeOK == TypeOK /\ [Next]_vars => TypeOK'
<1> SUFFICES ASSUME TypeOK, [Next]_vars PROVE TypeOK'
  OBVIOUS
<1>1. CASE Tick
  BY <1>1 DEF Tick, TypeOK
<1>2. ASSUME NEW t \in Callers, Abandon(t) PROVE TypeOK'
  BY <1>2 DEF Abandon, TypeOK
<1>3. ASSUME NEW t \in Callers, Record(t) PROVE TypeOK'
  BY <1>3, RecordType
<1>4. ASSUME NEW t \in Callers, NEW c \in Clients, RefuseMinute(t, c) PROVE TypeOK'
  BY <1>4, TouchMinuteType DEF RefuseMinute, TypeOK
<1>5. ASSUME NEW t \in Callers, NEW c \in Clients, RefuseHour(t, c) PROVE TypeOK'
  BY <1>5, TouchMinuteType, TouchHourType DEF RefuseHour, TypeOK
<1>6. ASSUME NEW t \in Callers, NEW c \in Clients, Allow(t, c) PROVE TypeOK'
  BY <1>6, TouchMinuteType, TouchHourType DEF Allow, TypeOK
<1>7. CASE UNCHANGED vars
  BY <1>7 DEF vars, TypeOK
<1> QED
  BY <1>1, <1>2, <1>3, <1>4, <1>5, <1>6, <1>7 DEF Next

\* Every reachable state of the limiter is well typed: no window and no history
\* counter ever leaves the naturals.
THEOREM TypeCorrect == Spec => []TypeOK
BY InitTypeOK, NextTypeOK, PTL DEF Spec

----------------------------------------------------------------------------
\* The inductive invariant.

LEMMA InitAccount == Init => WindowsAccount
<1> SUFFICES ASSUME Init PROVE WindowsAccount
  OBVIOUS
<1>1. ASSUME NEW c \in Clients
      PROVE  /\ Accounted(minute[c], sinceMinute[c], MaxPerMinute, Cardinality(Holders(c)))
             /\ Accounted(hour[c], sinceHour[c], MaxPerHour, Cardinality(Holders(c)))
  <2>1. Holders(c) = {}
    BY ClientsAssumption DEF Init, Holders
  <2>2. Cardinality(Holders(c)) = 0
    BY <2>1, FS_EmptySet
  <2> QED
    BY <2>2, CallersFinite, LimitsAssumption DEF Init, Accounted
<1> QED
  BY <1>1 DEF WindowsAccount

\* A step that leaves a client's windows alone and gives it no permission keeps that
\* client's part of the invariant.
LEMMA OtherClient ==
    ASSUME IInv, NEW d \in Clients,
           minute'[d] = minute[d], hour'[d] = hour[d],
           sinceMinute'[d] = sinceMinute[d], sinceHour'[d] = sinceHour[d],
           Cardinality(Holders(d)') \in Int,
           Cardinality(Holders(d)') <= Cardinality(Holders(d))
    PROVE  /\ Accounted(minute'[d], sinceMinute'[d], MaxPerMinute, Cardinality(Holders(d)'))
           /\ Accounted(hour'[d], sinceHour'[d], MaxPerHour, Cardinality(Holders(d)'))
<1> DEFINE p == Cardinality(Holders(d))
           q == Cardinality(Holders(d)')
<1>1. /\ minute[d] \in Window /\ hour[d] \in Window
      /\ sinceMinute[d] \in Nat /\ sinceHour[d] \in Nat
  BY DEF IInv, TypeOK
<1>2. p \in Nat
  BY HoldersFinite
<1>3. /\ Accounted(minute[d], sinceMinute[d], MaxPerMinute, p)
      /\ Accounted(hour[d], sinceHour[d], MaxPerHour, p)
  BY DEF IInv, WindowsAccount
<1> HIDE DEF p, q
<1>4. Accounted(minute[d], sinceMinute[d], MaxPerMinute, q)
  BY <1>1, <1>2, <1>3, FewerHolders, LimitsAssumption DEF p, q
<1>5. Accounted(hour[d], sinceHour[d], MaxPerHour, q)
  BY <1>1, <1>2, <1>3, FewerHolders, LimitsAssumption DEF p, q
<1> QED
  BY <1>4, <1>5 DEF q

\* The part of client d, as a step must establish it.
Part(d) ==
    /\ Accounted(minute[d], sinceMinute[d], MaxPerMinute, Cardinality(Holders(d)))
    /\ Accounted(hour[d], sinceHour[d], MaxPerHour, Cardinality(Holders(d)))

LEMMA OtherClientPart ==
    ASSUME IInv, NEW d \in Clients,
           minute'[d] = minute[d], hour'[d] = hour[d],
           sinceMinute'[d] = sinceMinute[d], sinceHour'[d] = sinceHour[d],
           Cardinality(Holders(d)') \in Int,
           Cardinality(Holders(d)') <= Cardinality(Holders(d))
    PROVE  Part(d)'
BY OtherClient DEF Part

\* When pending does not change, neither do the holders.
LEMMA SameHolders ==
    ASSUME pending' = pending, NEW d
    PROVE  Cardinality(Holders(d)') = Cardinality(Holders(d))
BY DEF Holders

LEMMA RefuseMinutePart ==
    ASSUME IInv, NEW t \in Callers, NEW c \in Clients, RefuseMinute(t, c),
           NEW d \in Clients
    PROVE  Part(d)'
<1> DEFINE p == Cardinality(Holders(d))
<1>1. Cardinality(Holders(d)') = p
  BY SameHolders DEF RefuseMinute
<1>2. p \in Nat /\ p <= N
  BY HoldersFinite
<1>3. CASE d # c
  BY <1>1, <1>2, <1>3, OtherClientPart DEF RefuseMinute, TouchMinute, IInv, TypeOK
<1>4. CASE d = c
  <2>1. /\ now \in Nat \ {0} /\ minute[c] \in Window /\ sinceMinute[c] \in Nat
        /\ Accounted(minute[c], sinceMinute[c], MaxPerMinute, p)
        /\ Accounted(hour[c], sinceHour[c], MaxPerHour, p)
    BY <1>4 DEF IInv, TypeOK, WindowsAccount
  <2>2. /\ minute'[c] = Refresh(minute[c], Minute)
        /\ sinceMinute'[c] = Restarted(sinceMinute[c], minute[c], Minute)
        /\ hour'[c] = hour[c] /\ sinceHour'[c] = sinceHour[c]
    BY DEF RefuseMinute, MinuteFull, TouchMinute, IInv, TypeOK
  <2> HIDE DEF p
  <2>3. Accounted(minute'[c], sinceMinute'[c], MaxPerMinute, p)
    BY <1>2, <2>1, <2>2, RefreshAccounted, PeriodsAssumption, LimitsAssumption
  <2> QED
    BY <1>1, <1>4, <2>1, <2>2, <2>3 DEF Part
<1> QED
  BY <1>3, <1>4

\* TouchMinute and TouchHour on the client they are about, with q permissions out.
LEMMA TouchAccounted ==
    ASSUME IInv, NEW c \in Clients, TouchMinute(c), TouchHour(c),
           NEW q \in Nat, q <= N,
           \/ q = Cardinality(Holders(c))
           \/ q = Cardinality(Holders(c)) + 1 /\ ~MinuteFull(c) /\ ~HourFull(c)
    PROVE  /\ Accounted(minute'[c], sinceMinute'[c], MaxPerMinute, q)
           /\ Accounted(hour'[c], sinceHour'[c], MaxPerHour, q)
<1> DEFINE p == Cardinality(Holders(c))
<1>1. p \in Nat
  BY HoldersFinite
<1>2. /\ now \in Nat \ {0}
      /\ minute[c] \in Window /\ sinceMinute[c] \in Nat
      /\ hour[c] \in Window /\ sinceHour[c] \in Nat
      /\ Accounted(minute[c], sinceMinute[c], MaxPerMinute, p)
      /\ Accounted(hour[c], sinceHour[c], MaxPerHour, p)
  BY DEF IInv, TypeOK, WindowsAccount
<1>3. ASSUME MaxPerMinute > 0
      PROVE  /\ minute'[c] = Refresh(minute[c], Minute)
             /\ sinceMinute'[c] = Restarted(sinceMinute[c], minute[c], Minute)
  BY <1>3 DEF TouchMinute, IInv, TypeOK
<1>4. ASSUME MaxPerHour > 0
      PROVE  /\ hour'[c] = Refresh(hour[c], Hour)
             /\ sinceHour'[c] = Restarted(sinceHour[c], hour[c], Hour)
  BY <1>4 DEF TouchHour, IInv, TypeOK
<1>5. \/ q = p
      \/ /\ q = p + 1
         /\ MaxPerMinute > 0 => Refresh(minute[c], Minute).count < MaxPerMinute
         /\ MaxPerHour > 0 => Refresh(hour[c], Hour).count < MaxPerHour
  <2>1. Refresh(minute[c], Minute) \in Window /\ Refresh(hour[c], Hour) \in Window
    BY <1>2, WindowTypes, PeriodsAssumption, LimitsAssumption
  <2> QED
    BY <2>1, LimitsAssumption DEF MinuteFull, HourFull, Window
<1> HIDE DEF p
<1>6. MaxPerMinute > 0 =>
        Accounted(Refresh(minute[c], Minute),
                  Restarted(sinceMinute[c], minute[c], Minute), MaxPerMinute, q)
  BY <1>1, <1>2, <1>5, RefreshAccounted, GrantAccounted, PeriodsAssumption,
     LimitsAssumption
<1>7. MaxPerHour > 0 =>
        Accounted(Refresh(hour[c], Hour),
                  Restarted(sinceHour[c], hour[c], Hour), MaxPerHour, q)
  BY <1>1, <1>2, <1>5, RefreshAccounted, GrantAccounted, PeriodsAssumption,
     LimitsAssumption
<1>8. Accounted(minute'[c], sinceMinute'[c], MaxPerMinute, q)
  BY <1>3, <1>6 DEF Accounted
<1>9. Accounted(hour'[c], sinceHour'[c], MaxPerHour, q)
  BY <1>4, <1>7 DEF Accounted
<1> QED
  BY <1>8, <1>9

LEMMA RefuseHourPart ==
    ASSUME IInv, NEW t \in Callers, NEW c \in Clients, RefuseHour(t, c),
           NEW d \in Clients
    PROVE  Part(d)'
<1>1. Cardinality(Holders(d)') = Cardinality(Holders(d))
  BY SameHolders DEF RefuseHour
<1>2. Cardinality(Holders(d)) \in Nat /\ Cardinality(Holders(d)) <= N
  BY HoldersFinite
<1>3. CASE d # c
  BY <1>1, <1>2, <1>3, OtherClientPart
     DEF RefuseHour, TouchMinute, TouchHour, IInv, TypeOK
<1>4. CASE d = c
  BY <1>1, <1>2, <1>4, TouchAccounted DEF RefuseHour, Part
<1> QED
  BY <1>3, <1>4

LEMMA AllowPart ==
    ASSUME IInv, NEW t \in Callers, NEW c \in Clients, Allow(t, c),
           NEW d \in Clients
    PROVE  Part(d)'
<1>1. /\ pending[t] = NoClient
      /\ pending' = [pending EXCEPT ![t] = c]
  BY DEF Allow
<1>2. Cardinality(Holders(d)') =
        IF d = c THEN Cardinality(Holders(d)) + 1 ELSE Cardinality(Holders(d))
  BY <1>1, HoldersAfterGrant DEF IInv
<1>3. Cardinality(Holders(d)) \in Nat
  BY HoldersFinite
<1>4. CASE d # c
  BY <1>2, <1>3, <1>4, OtherClientPart
     DEF Allow, TouchMinute, TouchHour, IInv, TypeOK
<1>5. CASE d = c
  <2>1. Cardinality(Holders(c)) + 1 <= N
    BY <1>1, HoldersNotAll, ClientsAssumption
  <2>2. Cardinality(Holders(c)) + 1 \in Nat
    BY <1>3, <1>5
  <2>3. /\ TouchMinute(c) /\ TouchHour(c)
        /\ ~MinuteFull(c) /\ ~HourFull(c)
    BY DEF Allow
  <2>4. /\ Accounted(minute'[c], sinceMinute'[c], MaxPerMinute, Cardinality(Holders(c)) + 1)
        /\ Accounted(hour'[c], sinceHour'[c], MaxPerHour, Cardinality(Holders(c)) + 1)
    BY <2>1, <2>2, <2>3, TouchAccounted
  <2> QED
    BY <1>2, <1>5, <2>4 DEF Part
<1> QED
  BY <1>4, <1>5

LEMMA RecordPart ==
    ASSUME IInv, NEW t \in Callers, Record(t), NEW d \in Clients
    PROVE  Part(d)'
<1> DEFINE c == pending[t]
           p == Cardinality(Holders(d))
<1>1. /\ c \in Clients
      /\ pending[t] # NoClient
      /\ pending' = [pending EXCEPT ![t] = NoClient]
  BY DEF Record, IInv, TypeOK
<1>2. Cardinality(Holders(d)') = IF d = c THEN p - 1 ELSE p
  BY <1>1, HoldersAfterRelease DEF IInv
<1>3. p \in Nat /\ p <= N
  BY HoldersFinite
<1>4. CASE d # c
  BY <1>1, <1>2, <1>3, <1>4, OtherClientPart DEF Record, IInv, TypeOK
<1>5. CASE d = c
  <2>1. /\ now \in Nat \ {0}
        /\ minute[d] \in Window /\ sinceMinute[d] \in Nat
        /\ hour[d] \in Window /\ sinceHour[d] \in Nat
        /\ Accounted(minute[d], sinceMinute[d], MaxPerMinute, p)
        /\ Accounted(hour[d], sinceHour[d], MaxPerHour, p)
    BY DEF IInv, TypeOK, WindowsAccount
  <2>2. p >= 1
    <3>1. t \in Holders(d)
      BY <1>5 DEF Holders
    <3> QED
      BY <3>1, <1>3, HoldersFinite, FS_EmptySet
  <2>3. ASSUME MaxPerMinute > 0
        PROVE  /\ minute'[d] = Increment(minute[d], MaxPerMinute, Minute)
               /\ sinceMinute'[d] = Restarted(sinceMinute[d], minute[d], Minute) + 1
    BY <1>5, <2>3 DEF Record, IInv, TypeOK
  <2>4. ASSUME MaxPerHour > 0
        PROVE  /\ hour'[d] = Increment(hour[d], MaxPerHour, Hour)
               /\ sinceHour'[d] = Restarted(sinceHour[d], hour[d], Hour) + 1
    BY <1>5, <2>4 DEF Record, IInv, TypeOK
  <2> HIDE DEF p
  <2>5. Accounted(Increment(minute[d], MaxPerMinute, Minute),
                  Restarted(sinceMinute[d], minute[d], Minute) + 1, MaxPerMinute, p - 1)
    BY <1>3, <2>1, <2>2, RecordAccounted, PeriodsAssumption, LimitsAssumption
  <2>6. Accounted(Increment(hour[d], MaxPerHour, Hour),
                  Restarted(sinceHour[d], hour[d], Hour) + 1, MaxPerHour, p - 1)
    BY <1>3, <2>1, <2>2, RecordAccounted, PeriodsAssumption, LimitsAssumption
  <2>7. Accounted(minute'[d], sinceMinute'[d], MaxPerMinute, p - 1)
    BY <2>3, <2>5 DEF Accounted
  <2>8. Accounted(hour'[d], sinceHour'[d], MaxPerHour, p - 1)
    BY <2>4, <2>6 DEF Accounted
  <2> QED
    BY <1>2, <1>5, <2>7, <2>8 DEF Part
<1> QED
  BY <1>4, <1>5

LEMMA AbandonPart ==
    ASSUME IInv, NEW t \in Callers, Abandon(t), NEW d \in Clients
    PROVE  Part(d)'
<1>1. Cardinality(Holders(d)') = IF d = pending[t] THEN Cardinality(Holders(d)) - 1
                                                   ELSE Cardinality(Holders(d))
  BY HoldersAfterRelease DEF Abandon, IInv
<1>2. Cardinality(Holders(d)) \in Nat
  BY HoldersFinite
<1> QED
  BY <1>1, <1>2, OtherClientPart DEF Abandon

LEMMA NextAccount == IInv /\ [Next]_vars => WindowsAccount'
<1> SUFFICES ASSUME IInv, [Next]_vars, NEW d \in Clients PROVE Part(d)'
  BY DEF WindowsAccount, Part
<1>1. ASSUME UNCHANGED <<minute, hour, pending, sinceMinute, sinceHour>>
      PROVE  Part(d)'
  <2>1. Cardinality(Holders(d)') = Cardinality(Holders(d))
    BY <1>1, SameHolders
  <2> QED
    BY <1>1, <2>1, HoldersFinite, OtherClientPart
<1>2. CASE Tick
  BY <1>1, <1>2 DEF Tick
<1>3. CASE UNCHANGED vars
  BY <1>1, <1>3 DEF vars
<1>4. CASE \E t \in Callers : Abandon(t) \/ Record(t)
  BY <1>4, AbandonPart, RecordPart
<1>5. CASE \E t \in Callers, c \in Clients :
             RefuseMinute(t, c) \/ RefuseHour(t, c) \/ Allow(t, c)
  BY <1>5, RefuseMinutePart, RefuseHourPart, AllowPart
<1> QED
  BY <1>2, <1>3, <1>4, <1>5 DEF Next

\* WindowsAccount is an invariant of the limiter: see its definition.
THEOREM AccountInvariant == Spec => []WindowsAccount
<1>1. Init => IInv
  BY InitTypeOK, InitAccount DEF IInv
<1>2. IInv /\ [Next]_vars => IInv'
  BY NextTypeOK, NextAccount DEF IInv
<1>3. IInv => WindowsAccount
  BY DEF IInv
<1> QED
  BY <1>1, <1>2, <1>3, PTL DEF Spec

----------------------------------------------------------------------------

LEMMA AccountImpliesLimit == IInv => AdmittedWithinLimit /\ EveryAdmissionCounted
<1> SUFFICES ASSUME IInv PROVE AdmittedWithinLimit /\ EveryAdmissionCounted
  OBVIOUS
<1>1. ASSUME NEW c \in Clients
      PROVE  /\ MaxPerMinute > 0 =>
                  /\ sinceMinute[c] <= MaxPerMinute + Slack
                  /\ sinceMinute[c] \in minute[c].count..(minute[c].count + Slack)
             /\ MaxPerHour > 0 =>
                  /\ sinceHour[c] <= MaxPerHour + Slack
                  /\ sinceHour[c] \in hour[c].count..(hour[c].count + Slack)
  <2>1. Cardinality(Holders(c)) \in Nat
    BY HoldersFinite
  <2>2. /\ minute[c] \in Window /\ sinceMinute[c] \in Nat
        /\ hour[c] \in Window /\ sinceHour[c] \in Nat
        /\ Accounted(minute[c], sinceMinute[c], MaxPerMinute, Cardinality(Holders(c)))
        /\ Accounted(hour[c], sinceHour[c], MaxPerHour, Cardinality(Holders(c)))
    BY DEF IInv, TypeOK, WindowsAccount
  <2> QED
    BY <2>1, <2>2, CallersFinite, LimitsAssumption DEF Accounted, Window
<1> QED
  BY <1>1 DEF AdmittedWithinLimit, EveryAdmissionCounted

\* For every number of callers, every limit and every period, no window of the limiter
\* admits more connections than its limit plus one per further caller, although the
\* check and the count are two critical sections.
THEOREM LimitHolds == Spec => []AdmittedWithinLimit
<1>1. Init => IInv
  BY InitTypeOK, InitAccount DEF IInv
<1>2. IInv /\ [Next]_vars => IInv'
  BY NextTypeOK, NextAccount DEF IInv
<1>3. IInv => AdmittedWithinLimit
  BY AccountImpliesLimit
<1> QED
  BY <1>1, <1>2, <1>3, PTL DEF Spec

\* The connections recordConnection fails to count in a window are at most the number of
\* further callers; with the daemon's single accept thread the count is exact.
THEOREM CountingIsExact == Spec => []EveryAdmissionCounted
<1>1. Init => IInv
  BY InitTypeOK, InitAccount DEF IInv
<1>2. IInv /\ [Next]_vars => IInv'
  BY NextTypeOK, NextAccount DEF IInv
<1>3. IInv => EveryAdmissionCounted
  BY AccountImpliesLimit
<1> QED
  BY <1>1, <1>2, <1>3, PTL DEF Spec
----------------------------------------------------------------------------
\* Any interval of a window's length.  f says how much was admitted by each time; at is
\* the present one.

\* What was admitted by a time grows with the time, and nothing is admitted after now.
Past(f, at) ==
    /\ f \in [0..MaxTime -> Nat]
    /\ \A s, u \in 0..MaxTime : s <= u => f[s] <= f[u]
    /\ \A u \in 0..MaxTime : at <= u => f[u] = f[at]

\* A window that started at s has admitted n connections: all of those since s, none
\* after its end, and those of less than one period before s fit in one window.
Covers(s, n, f, period, bound, at) ==
    IF s = 0
    THEN n = 0 /\ \A u \in 0..MaxTime : f[u] = 0
    ELSE /\ s <= at
         /\ n = f[at] - f[s - 1]
         /\ \A u \in 0..MaxTime : s + period - 1 <= u => f[u] = f[s + period - 1]
         /\ \A u \in 1..s : s - period < u => f[s - 1] - f[u - 1] <= bound

Spread(w, n, f, period, bound, at) ==
    /\ Past(f, at)
    /\ Covers(w.start, n, f, period, bound, at)
    /\ IntervalsWithin(f, period, 2 * bound)

LEMMA TickSpread ==
    ASSUME NEW w \in Window, NEW n \in Nat, NEW f, NEW period \in Nat \ {0},
           NEW bound \in Nat, NEW at \in 1..MaxTime, at + 1 <= MaxTime,
           Spread(w, n, f, period, bound, at)
    PROVE  Spread(w, n, f, period, bound, at + 1)
<1>1. at + 1 \in 0..MaxTime /\ at \in 0..MaxTime /\ f[at + 1] = f[at]
  BY MaxTimeAssumption DEF Spread, Past
<1>2. Past(f, at + 1)
  BY <1>1, MaxTimeAssumption DEF Spread, Past
<1>3. Covers(w.start, n, f, period, bound, at + 1)
  BY <1>1, MaxTimeAssumption DEF Spread, Covers, Window
<1> QED
  BY <1>2, <1>3 DEF Spread

\* A window that is due starts again now.
LEMMA RestartCovers ==
    ASSUME NEW s \in Nat, NEW n \in Nat, NEW f, NEW period \in Nat \ {0},
           NEW bound \in Nat, n <= bound, NEW at \in 1..MaxTime,
           Past(f, at), Covers(s, n, f, period, bound, at),
           s = 0 \/ at - s >= period
    PROVE  Covers(at, 0, f, period, bound, at)
<1>1. MaxTime \in Nat /\ at \in Nat \ {0} /\ at \in 0..MaxTime /\ at - 1 \in 0..MaxTime
  BY MaxTimeAssumption
<1>2. \A u \in 0..MaxTime : f[u] \in Nat
  BY DEF Past
<1>3. f[at] = f[at - 1]
  <2>1. CASE s = 0
    BY <1>1, <2>1 DEF Covers
  <2>2. CASE s # 0
    <3>1. s + period - 1 <= at - 1 /\ s + period - 1 <= at
      BY <1>1, <2>2
    <3> QED
      BY <1>1, <2>2, <3>1 DEF Covers
  <2> QED
    BY <2>1, <2>2
<1>4. ASSUME NEW u \in 1..at, at - period < u
      PROVE  f[at - 1] - f[u - 1] <= bound
  <2>1. u - 1 \in 0..MaxTime
    BY <1>1
  <2>2. CASE s = 0
    BY <1>1, <2>1, <2>2 DEF Covers
  <2>3. CASE s # 0
    <3>1. s - 1 \in 0..MaxTime /\ s - 1 <= u - 1
      BY <1>1, <1>4, <2>3
    <3>2. f[s - 1] <= f[u - 1]
      BY <2>1, <3>1 DEF Past
    <3>3. n = f[at] - f[s - 1]
      BY <2>3 DEF Covers
    <3> QED
      BY <1>1, <1>2, <1>3, <2>1, <3>1, <3>2, <3>3
  <2> QED
    BY <2>2, <2>3
<1>5. \A u \in 0..MaxTime : at + period - 1 <= u => f[u] = f[at + period - 1]
  <2> SUFFICES ASSUME NEW u \in 0..MaxTime, at + period - 1 <= u
               PROVE  f[u] = f[at + period - 1]
    OBVIOUS
  <2>1. at + period - 1 \in 0..MaxTime /\ at <= at + period - 1 /\ at <= u
    BY <1>1
  <2> QED
    BY <2>1 DEF Past
<1>6. f[at] - f[at - 1] = 0
  BY <1>1, <1>2, <1>3
<1> QED
  BY <1>1, <1>4, <1>5, <1>6 DEF Covers

LEMMA RefreshSpread ==
    ASSUME NEW w \in Window, NEW n \in Nat, NEW f, NEW period \in Nat \ {0},
           NEW bound \in Nat, n <= bound, now \in 1..MaxTime,
           Spread(w, n, f, period, bound, now)
    PROVE  Spread(Refresh(w, period), Restarted(n, w, period), f, period, bound, now)
<1>1. CASE Expired(w, period)
  <2>1. Refresh(w, period) = [start |-> now, count |-> 0] /\ Restarted(n, w, period) = 0
    BY <1>1 DEF Refresh, Restarted
  <2>2. w.start \in Nat /\ (w.start = 0 \/ now - w.start >= period)
    BY <1>1 DEF Window, Expired
  <2>3. Covers(now, 0, f, period, bound, now)
    BY <2>2, RestartCovers DEF Spread
  <2> QED
    BY <2>1, <2>3 DEF Spread
<1>2. CASE ~Expired(w, period)
  BY <1>2 DEF Refresh, Restarted
<1> QED
  BY <1>1, <1>2

\* One more admission, in a window that is not due.
LEMMA AdmitSpread ==
    ASSUME NEW w \in Window, NEW v \in Window, v.start = w.start, NEW n \in Nat, NEW f,
           NEW period \in Nat \ {0}, NEW bound \in Nat, n + 1 <= bound, now \in 1..MaxTime,
           w.start # 0, now - w.start < period,
           Spread(w, n, f, period, bound, now)
    PROVE  Spread(v, n + 1, Admit(f), period, bound, now)
<1> DEFINE g == Admit(f)
           s == w.start
<1>1. MaxTime \in Nat /\ now \in Nat \ {0} /\ now \in 0..MaxTime /\ s \in Nat \ {0}
  BY MaxTimeAssumption DEF Window
<1>2. /\ f \in [0..MaxTime -> Nat]
      /\ \A a, b \in 0..MaxTime : a <= b => f[a] <= f[b]
      /\ \A u \in 0..MaxTime : now <= u => f[u] = f[now]
  BY DEF Spread, Past
<1>3. /\ s <= now
      /\ n = f[now] - f[s - 1]
      /\ \A u \in 1..s : s - period < u => f[s - 1] - f[u - 1] <= bound
  BY DEF Spread, Covers
<1>4. /\ g \in [0..MaxTime -> Nat]
      /\ \A u \in 0..MaxTime : u < now => g[u] = f[u]
      /\ \A u \in 0..MaxTime : now <= u => g[u] = f[now] + 1
  BY <1>1, <1>2 DEF Admit
<1>5. IntervalsWithin(f, period, 2 * bound)
  BY DEF Spread
<1> HIDE DEF g, s
<1>6. Past(g, now)
  <2>1. \A a, b \in 0..MaxTime : a <= b => g[a] <= g[b]
    <3> SUFFICES ASSUME NEW a \in 0..MaxTime, NEW b \in 0..MaxTime, a <= b
                 PROVE  g[a] <= g[b]
      OBVIOUS
    <3>1. f[a] \in Nat /\ f[b] \in Nat /\ f[now] \in Nat /\ f[a] <= f[b]
      BY <1>1, <1>2
    <3>2. a < now => f[a] <= f[now]
      BY <1>1, <1>2
    <3> QED
      BY <1>1, <1>4, <3>1, <3>2
  <2> QED
    BY <1>1, <1>4, <2>1 DEF Past
<1>7. s - 1 \in 0..MaxTime /\ g[s - 1] = f[s - 1] /\ f[s - 1] \in Nat /\ f[now] \in Nat
  BY <1>1, <1>2, <1>3, <1>4
<1>8. Covers(s, n + 1, g, period, bound, now)
  <2>1. n + 1 = g[now] - g[s - 1]
    <3>1. g[now] = f[now] + 1
      BY <1>1, <1>4
    <3> QED
      BY <1>3, <1>7, <3>1
  <2>2. ASSUME NEW u \in 0..MaxTime, s + period - 1 <= u
        PROVE  g[u] = g[s + period - 1]
    <3>1. now <= s + period - 1 /\ s + period - 1 \in 0..MaxTime /\ now <= u
      BY <1>1, <2>2 DEF s
    <3> QED
      BY <1>4, <3>1
  <2>3. ASSUME NEW u \in 1..s, s - period < u
        PROVE  g[s - 1] - g[u - 1] <= bound
    <3>1. u - 1 \in 0..MaxTime /\ u - 1 < now
      BY <1>1, <1>3
    <3> QED
      BY <1>3, <1>4, <1>7, <2>3, <3>1
  <2> QED
    BY <1>1, <1>3, <2>1, <2>2, <2>3 DEF Covers
<1>9. ASSUME NEW u \in 1..MaxTime, u + period - 1 <= MaxTime
      PROVE  g[u + period - 1] - g[u - 1] <= 2 * bound
  <2> DEFINE e == u + period - 1
  <2>1. e \in 0..MaxTime /\ u - 1 \in 0..MaxTime /\ u - 1 < e
    BY <1>1, <1>9
  <2>2. /\ f[e] \in Nat /\ f[u - 1] \in Nat
        /\ f[e] - f[u - 1] <= 2 * bound
    BY <1>2, <1>5, <1>9, <2>1 DEF IntervalsWithin
  <2> SUFFICES g[e] - g[u - 1] <= 2 * bound
    OBVIOUS
  <2> HIDE DEF e
  <2>3. CASE e < now
    <3>1. g[e] = f[e] /\ g[u - 1] = f[u - 1]
      BY <1>1, <1>4, <2>1, <2>3
    <3> QED
      BY <2>2, <3>1
  <2>5. CASE now <= u - 1
    <3>1. g[e] = f[now] + 1 /\ g[u - 1] = f[now] + 1
      BY <1>1, <1>4, <2>1, <2>5
    <3> QED
      BY <1>7, <3>1
  <2>4. CASE now <= e /\ u - 1 < now
    <3>1. g[e] = f[now] + 1 /\ g[u - 1] = f[u - 1]
      BY <1>4, <2>1, <2>4
    <3>2. f[now] + 1 - f[s - 1] <= bound
      BY <1>3, <1>7
    <3>3. f[s - 1] - f[u - 1] <= bound
      <4>1. CASE u <= s
        <5>1. s - period < u
          BY <1>1, <1>3, <2>4 DEF e
        <5> QED
          BY <1>1, <1>3, <4>1, <5>1
      <4>2. CASE s < u
        BY <1>1, <1>2, <1>7, <2>1, <2>2, <4>2
      <4> QED
        BY <1>1, <4>1, <4>2
    <3> QED
      BY <1>7, <2>2, <3>1, <3>2, <3>3
  <2> QED
    BY <1>1, <2>1, <2>3, <2>4, <2>5
<1> QED
  BY <1>6, <1>8, <1>9 DEF Spread, IntervalsWithin, g, s
LEMMA RecordSpread ==
    ASSUME NEW w \in Window, NEW n \in Nat, NEW f, NEW period \in Nat \ {0},
           NEW max \in Nat, NEW bound \in Nat, n <= bound,
           Restarted(n, w, period) + 1 <= bound, now \in 1..MaxTime,
           Spread(w, n, f, period, bound, now)
    PROVE  Spread(Increment(w, max, period), Restarted(n, w, period) + 1, Admit(f),
                  period, bound, now)
<1> DEFINE r == Refresh(w, period)
           m == Restarted(n, w, period)
           v == Increment(w, max, period)
<1>1. now \in Nat \ {0}
  BY MaxTimeAssumption
<1>2. r \in Window /\ m \in Nat /\ v \in Window
  BY <1>1, WindowTypes
<1>3. Spread(r, m, f, period, bound, now)
  BY RefreshSpread
<1>4. r.start # 0 /\ now - r.start < period
  BY <1>1 DEF Refresh, Expired, Window
<1>5. v.start = r.start
  BY <1>2 DEF Increment, Window
<1> HIDE DEF r, m, v
<1>6. m + 1 <= bound
  BY DEF m
<1>7. Spread(v, m + 1, Admit(f), period, bound, now)
  BY <1>2, <1>3, <1>4, <1>5, <1>6, AdmitSpread
<1> QED
  BY <1>7 DEF v, m

\* Both windows of every client are spread.
SpreadOf(c) ==
    /\ MaxPerMinute > 0 =>
         Spread(minute[c], sinceMinute[c], upto[c], Minute, MaxPerMinute + Slack, now)
    /\ MaxPerHour > 0 =>
         Spread(hour[c], sinceHour[c], upto[c], Hour, MaxPerHour + Slack, now)

HInv ==
    /\ now <= MaxTime
    /\ upto \in [Clients -> [0..MaxTime -> Nat]]
    /\ \A c \in Clients : SpreadOf(c)

LEMMA HInitHolds == HInit => HInv
<1> SUFFICES ASSUME HInit PROVE HInv
  OBVIOUS
<1>1. now = 1 /\ 1 \in 0..MaxTime /\ 1 <= MaxTime /\ MaxTime \in Nat
  BY MaxTimeAssumption DEF HInit, Init
<1>2. upto \in [Clients -> [0..MaxTime -> Nat]]
  BY DEF HInit
<1>3. ASSUME NEW c \in Clients, NEW period \in Nat \ {0}, NEW bound \in Nat, NEW w,
             w.start = 0
      PROVE  Spread(w, 0, upto[c], period, bound, now)
  <2>1. upto[c] \in [0..MaxTime -> Nat] /\ \A u \in 0..MaxTime : upto[c][u] = 0
    BY DEF HInit
  <2>2. IntervalsWithin(upto[c], period, 2 * bound)
    <3> SUFFICES ASSUME NEW u \in 1..MaxTime, u + period - 1 <= MaxTime
                 PROVE  upto[c][u + period - 1] - upto[c][u - 1] <= 2 * bound
      BY DEF IntervalsWithin
    <3>1. u + period - 1 \in 0..MaxTime /\ u - 1 \in 0..MaxTime
      BY <1>1
    <3> QED
      BY <2>1, <3>1
  <2>3. Past(upto[c], now)
    BY <1>1, <2>1 DEF Past
  <2>4. Covers(w.start, 0, upto[c], period, bound, now)
    BY <1>3, <2>1 DEF Covers
  <2> QED
    BY <2>2, <2>3, <2>4 DEF Spread
<1>4. ASSUME NEW c \in Clients PROVE SpreadOf(c)
  <2>1. /\ minute[c].start = 0 /\ hour[c].start = 0
        /\ sinceMinute[c] = 0 /\ sinceHour[c] = 0
    BY DEF HInit, Init
  <2>2. MaxPerMinute + Slack \in Nat /\ MaxPerHour + Slack \in Nat
    BY LimitsAssumption, CallersFinite
  <2> QED
    BY <1>3, <2>1, <2>2, PeriodsAssumption DEF SpreadOf
<1> QED
  BY <1>1, <1>2, <1>4 DEF HInv

\* What the steps need to know of one client.
LEMMA ClientFacts ==
    ASSUME IInv, HInv, NEW c \in Clients
    PROVE  /\ minute[c] \in Window /\ hour[c] \in Window
           /\ sinceMinute[c] \in Nat /\ sinceHour[c] \in Nat
           /\ now \in 1..MaxTime
           /\ MaxPerMinute + Slack \in Nat /\ MaxPerHour + Slack \in Nat
           /\ MaxPerMinute > 0 => sinceMinute[c] <= MaxPerMinute + Slack
           /\ MaxPerHour > 0 => sinceHour[c] <= MaxPerHour + Slack
           /\ SpreadOf(c)
<1>1. /\ minute[c] \in Window /\ hour[c] \in Window
      /\ sinceMinute[c] \in Nat /\ sinceHour[c] \in Nat /\ now \in Nat \ {0}
  BY DEF IInv, TypeOK
<1>2. now \in 1..MaxTime
  BY <1>1, MaxTimeAssumption DEF HInv
<1>3. MaxPerMinute + Slack \in Nat /\ MaxPerHour + Slack \in Nat
  BY LimitsAssumption, CallersFinite
<1> QED
  BY <1>1, <1>2, <1>3, AccountImpliesLimit DEF HInv, AdmittedWithinLimit

LEMMA TouchMinuteSpread ==
    ASSUME IInv, HInv, NEW c \in Clients, TouchMinute(c), now' = now, upto' = upto,
           NEW d \in Clients
    PROVE  MaxPerMinute > 0 =>
             Spread(minute'[d], sinceMinute'[d], upto'[d], Minute, MaxPerMinute + Slack, now')
<1> SUFFICES ASSUME MaxPerMinute > 0
             PROVE  Spread(minute'[d], sinceMinute'[d], upto'[d], Minute,
                           MaxPerMinute + Slack, now')
  OBVIOUS
<1>1. Spread(minute[d], sinceMinute[d], upto[d], Minute, MaxPerMinute + Slack, now)
  BY ClientFacts DEF SpreadOf
<1>2. CASE d = c
  <2>1. /\ minute'[d] = Refresh(minute[d], Minute)
        /\ sinceMinute'[d] = Restarted(sinceMinute[d], minute[d], Minute)
    BY <1>2 DEF TouchMinute, IInv, TypeOK
  <2>2. Spread(Refresh(minute[d], Minute), Restarted(sinceMinute[d], minute[d], Minute),
               upto[d], Minute, MaxPerMinute + Slack, now)
    BY <1>1, ClientFacts, RefreshSpread, PeriodsAssumption
  <2> QED
    BY <2>1, <2>2
<1>3. CASE d # c
  <2>1. minute'[d] = minute[d] /\ sinceMinute'[d] = sinceMinute[d]
    BY <1>3 DEF TouchMinute, IInv, TypeOK
  <2> QED
    BY <1>1, <2>1
<1> QED
  BY <1>2, <1>3

LEMMA TouchHourSpread ==
    ASSUME IInv, HInv, NEW c \in Clients, TouchHour(c), now' = now, upto' = upto,
           NEW d \in Clients
    PROVE  MaxPerHour > 0 =>
             Spread(hour'[d], sinceHour'[d], upto'[d], Hour, MaxPerHour + Slack, now')
<1> SUFFICES ASSUME MaxPerHour > 0
             PROVE  Spread(hour'[d], sinceHour'[d], upto'[d], Hour, MaxPerHour + Slack, now')
  OBVIOUS
<1>1. Spread(hour[d], sinceHour[d], upto[d], Hour, MaxPerHour + Slack, now)
  BY ClientFacts DEF SpreadOf
<1>2. CASE d = c
  <2>1. /\ hour'[d] = Refresh(hour[d], Hour)
        /\ sinceHour'[d] = Restarted(sinceHour[d], hour[d], Hour)
    BY <1>2 DEF TouchHour, IInv, TypeOK
  <2>2. Spread(Refresh(hour[d], Hour), Restarted(sinceHour[d], hour[d], Hour),
               upto[d], Hour, MaxPerHour + Slack, now)
    BY <1>1, ClientFacts, RefreshSpread, PeriodsAssumption
  <2> QED
    BY <2>1, <2>2
<1>3. CASE d # c
  <2>1. hour'[d] = hour[d] /\ sinceHour'[d] = sinceHour[d]
    BY <1>3 DEF TouchHour, IInv, TypeOK
  <2> QED
    BY <1>1, <2>1
<1> QED
  BY <1>2, <1>3
LEMMA RecordSpreads ==
    ASSUME IInv, IInv', HInv, NEW t \in Callers, HRecord(t), NEW d \in Clients
    PROVE  SpreadOf(d)'
<1> DEFINE c == pending[t]
<1>1. c \in Clients /\ now' = now
  BY DEF HRecord, Record, IInv, TypeOK
<1>2. SpreadOf(d)
  BY ClientFacts
<1>3. CASE d # c
  <2>1. /\ minute'[d] = minute[d] /\ sinceMinute'[d] = sinceMinute[d]
        /\ hour'[d] = hour[d] /\ sinceHour'[d] = sinceHour[d]
    BY <1>3 DEF HRecord, Record, IInv, TypeOK
  <2>2. upto'[d] = upto[d]
    BY <1>3 DEF HRecord, HInv
  <2> QED
    BY <1>1, <1>2, <2>1, <2>2 DEF SpreadOf
<1>4. CASE d = c
  <2>1. upto'[d] = Admit(upto[d])
    BY <1>1, <1>4 DEF HRecord, HInv
  <2>2. ASSUME MaxPerMinute > 0
        PROVE  Spread(minute'[d], sinceMinute'[d], upto'[d], Minute, MaxPerMinute + Slack, now')
    <3>1. /\ minute'[d] = Increment(minute[d], MaxPerMinute, Minute)
          /\ sinceMinute'[d] = Restarted(sinceMinute[d], minute[d], Minute) + 1
      BY <1>4, <2>2 DEF HRecord, Record, IInv, TypeOK
    <3>2. sinceMinute'[d] <= MaxPerMinute + Slack
      <4>1. AdmittedWithinLimit'
        BY AccountImpliesLimit, PTL
      <4> QED
        BY <2>2, <4>1 DEF AdmittedWithinLimit, Slack
    <3>3. Spread(minute[d], sinceMinute[d], upto[d], Minute, MaxPerMinute + Slack, now)
      BY <1>2, <2>2 DEF SpreadOf
    <3>4. Spread(Increment(minute[d], MaxPerMinute, Minute),
                 Restarted(sinceMinute[d], minute[d], Minute) + 1, Admit(upto[d]),
                 Minute, MaxPerMinute + Slack, now)
      BY <2>2, <3>1, <3>2, <3>3, ClientFacts, RecordSpread, PeriodsAssumption,
         LimitsAssumption
    <3> QED
      BY <1>1, <2>1, <3>1, <3>4
  <2>3. ASSUME MaxPerHour > 0
        PROVE  Spread(hour'[d], sinceHour'[d], upto'[d], Hour, MaxPerHour + Slack, now')
    <3>1. /\ hour'[d] = Increment(hour[d], MaxPerHour, Hour)
          /\ sinceHour'[d] = Restarted(sinceHour[d], hour[d], Hour) + 1
      BY <1>4, <2>3 DEF HRecord, Record, IInv, TypeOK
    <3>2. sinceHour'[d] <= MaxPerHour + Slack
      <4>1. AdmittedWithinLimit'
        BY AccountImpliesLimit, PTL
      <4> QED
        BY <2>3, <4>1 DEF AdmittedWithinLimit, Slack
    <3>3. Spread(hour[d], sinceHour[d], upto[d], Hour, MaxPerHour + Slack, now)
      BY <1>2, <2>3 DEF SpreadOf
    <3>4. Spread(Increment(hour[d], MaxPerHour, Hour),
                 Restarted(sinceHour[d], hour[d], Hour) + 1, Admit(upto[d]),
                 Hour, MaxPerHour + Slack, now)
      BY <2>3, <3>1, <3>2, <3>3, ClientFacts, RecordSpread, PeriodsAssumption,
         LimitsAssumption
    <3> QED
      BY <1>1, <2>1, <3>1, <3>4
  <2>4. Slack' = Slack
    BY DEF Slack
  <2> QED
    BY <2>2, <2>3, <2>4 DEF SpreadOf
<1> QED
  BY <1>3, <1>4

LEMMA HNextHolds == IInv /\ IInv' /\ HInv /\ [HNext]_hvars => HInv'
<1> SUFFICES ASSUME IInv, IInv', HInv, [HNext]_hvars PROVE HInv'
  OBVIOUS
<1>1. now' <= MaxTime
  <2>1. now \in Nat \ {0} /\ now <= MaxTime
    BY DEF IInv, TypeOK, HInv
  <2>2. now' = now \/ (now < MaxTime /\ now' = now + 1)
    BY DEF HNext, hvars, HRecord, Record, Tick, Abandon, RefuseMinute, RefuseHour, Allow
  <2> QED
    BY <2>1, <2>2, MaxTimeAssumption
<1>2. upto' \in [Clients -> [0..MaxTime -> Nat]]
  <2>1. upto \in [Clients -> [0..MaxTime -> Nat]]
    BY DEF HInv
  <2>2. CASE upto' = upto
    BY <2>1, <2>2
  <2>3. ASSUME NEW t \in Callers, HRecord(t)
        PROVE  upto' \in [Clients -> [0..MaxTime -> Nat]]
    <3>1. \A f \in [0..MaxTime -> Nat] : Admit(f) \in [0..MaxTime -> Nat]
      BY DEF Admit
    <3>2. upto' = [upto EXCEPT ![pending[t]] = Admit(upto[pending[t]])]
      BY <2>3 DEF HRecord
    <3> QED
      BY <2>1, <3>1, <3>2
  <2> QED
    BY <2>2, <2>3 DEF HNext, hvars
<1>3. ASSUME NEW d \in Clients PROVE SpreadOf(d)'
  <2>1. SpreadOf(d)
    BY ClientFacts
  <2>2. CASE \E t \in Callers : HRecord(t)
    BY <2>2, RecordSpreads
  <2>3. CASE Tick /\ UNCHANGED upto
    <3>1. /\ now' = now + 1 /\ now + 1 <= MaxTime
          /\ UNCHANGED <<minute, hour, sinceMinute, sinceHour, upto>>
      <4>1. now < MaxTime /\ now \in Nat
        BY <2>3 DEF Tick, IInv, TypeOK
      <4> QED
        BY <2>3, <4>1, MaxTimeAssumption DEF Tick
    <3>2. MaxPerMinute > 0 =>
            Spread(minute[d], sinceMinute[d], upto[d], Minute, MaxPerMinute + Slack, now + 1)
      BY <2>1, <3>1, ClientFacts, TickSpread, PeriodsAssumption DEF SpreadOf
    <3>3. MaxPerHour > 0 =>
            Spread(hour[d], sinceHour[d], upto[d], Hour, MaxPerHour + Slack, now + 1)
      BY <2>1, <3>1, ClientFacts, TickSpread, PeriodsAssumption DEF SpreadOf
    <3> QED
      BY <3>1, <3>2, <3>3 DEF SpreadOf
  <2>4. CASE UNCHANGED <<now, minute, hour, sinceMinute, sinceHour, upto>>
    BY <2>1, <2>4 DEF SpreadOf
  <2>5. ASSUME NEW t \in Callers, NEW c \in Clients, RefuseMinute(t, c), upto' = upto
        PROVE  SpreadOf(d)'
    <3>1. TouchMinute(c) /\ now' = now /\ hour' = hour /\ sinceHour' = sinceHour
      BY <2>5 DEF RefuseMinute
    <3>2. MaxPerMinute > 0 =>
            Spread(minute'[d], sinceMinute'[d], upto'[d], Minute, MaxPerMinute + Slack, now')
      BY <2>5, <3>1, TouchMinuteSpread
    <3> QED
      BY <2>1, <2>5, <3>1, <3>2 DEF SpreadOf
  <2>6. ASSUME NEW t \in Callers, NEW c \in Clients, RefuseHour(t, c) \/ Allow(t, c),
               upto' = upto
        PROVE  SpreadOf(d)'
    <3>1. TouchMinute(c) /\ TouchHour(c) /\ now' = now
      BY <2>6 DEF RefuseHour, Allow
    <3> QED
      BY <2>6, <3>1, TouchMinuteSpread, TouchHourSpread DEF SpreadOf
  <2> QED
    BY <2>2, <2>3, <2>4, <2>5, <2>6 DEF HNext, hvars, Abandon
<1> QED
  BY <1>1, <1>2, <1>3 DEF HInv

\* In any interval of a window's length, wherever it begins, a client is admitted at
\* most twice the window's limit (plus one per further caller each time), for every
\* limit, period, number of clients and number of callers: two windows can meet in the
\* middle of the interval, three cannot.
THEOREM IntervalsAreBounded == HSpec => []AnyIntervalWithinTwoLimits
<1>1. HInit => IInv /\ HInv
  BY InitTypeOK, InitAccount, HInitHolds DEF HInit, IInv
<1>2. [HNext]_hvars => [Next]_vars
  BY DEF HNext, HRecord, hvars, Next, vars
<1>3. IInv /\ HInv /\ [HNext]_hvars => IInv' /\ HInv'
  <2>1. IInv /\ [Next]_vars => IInv'
    BY NextTypeOK, NextAccount DEF IInv
  <2> QED
    BY <1>2, <2>1, HNextHolds
<1>4. HInv => AnyIntervalWithinTwoLimits
  BY DEF HInv, SpreadOf, Spread, AnyIntervalWithinTwoLimits
<1> QED
  BY <1>1, <1>3, <1>4, PTL DEF HSpec
=============================================================================
