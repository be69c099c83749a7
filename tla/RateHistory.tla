---------------------------- MODULE RateHistory -----------------------------
(***************************************************************************)
(* RateLimiter with the times of the admissions recorded, to bound what a  *)
(* client gets in any interval of a window's length, not only in the       *)
(* intervals the windows happen to cover.                                  *)
(***************************************************************************)
EXTENDS RateLimiter

VARIABLE upto       \* history: upto[c][u] connections of c were admitted by time u

hvars == <<now, minute, hour, pending, sinceMinute, sinceHour, upto>>

HInit == Init /\ upto = [c \in Clients |-> [u \in 0..MaxTime |-> 0]]

\* One more admission at the present time.
Admit(f) == [u \in 0..MaxTime |-> IF u >= now THEN f[u] + 1 ELSE f[u]]

HRecord(t) ==
    /\ Record(t)
    /\ upto' = [upto EXCEPT ![pending[t]] = Admit(@)]

HNext ==
    \/ \E t \in Callers : HRecord(t)
    \/ /\ \/ Tick
          \/ \E t \in Callers : Abandon(t)
          \/ \E t \in Callers, c \in Clients :
                RefuseMinute(t, c) \/ RefuseHour(t, c) \/ Allow(t, c)
       /\ UNCHANGED upto

HSpec == HInit /\ [][HNext]_hvars

----------------------------------------------------------------------------
\* What f says was admitted in any interval of one period.
IntervalsWithin(f, period, bound) ==
    \A u \in 1..MaxTime :
        u + period - 1 <= MaxTime => f[u + period - 1] - f[u - 1] <= bound

\* The windows are fixed, not sliding: a client can use up one at its end and the next
\* at its start, and never gets more than that in an interval of the same length.
AnyIntervalWithinTwoLimits ==
    \A c \in Clients :
        /\ MaxPerMinute > 0 => IntervalsWithin(upto[c], Minute, 2 * (MaxPerMinute + Slack))
        /\ MaxPerHour > 0 => IntervalsWithin(upto[c], Hour, 2 * (MaxPerHour + Slack))
=============================================================================
