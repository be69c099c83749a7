---------------------------- MODULE Connections ----------------------------
(***************************************************************************)
(* What the daemon promises about the ownership of its connections: a      *)
(* connection belongs to one thread, or to the shared pool, at a time; it  *)
(* changes hands only through the pool; it is given up by its owner or,    *)
(* at shutdown, from the pool once no thread holds any connection.         *)
(***************************************************************************)
CONSTANTS Conns, Workers

VARIABLE owner

Places == {"client", "accept", "pool", "gone"}

\* Every connection has exactly one owner.
TypeOK == owner \in [Conns -> Places \cup Workers]

Init == owner = [c \in Conns |-> "client"]

Move(S, place) == owner' = [c \in Conns |-> IF c \in S THEN place ELSE owner[c]]

OwnedBy(p) == {c \in Conns : owner[c] = p}

Accept == \E c \in OwnedBy("client") : Move({c}, "accept")

\* The kernel drops a connection nobody accepted.
Drop == \E S \in SUBSET OwnedBy("client") : Move(S, "gone")

Refuse == \E c \in OwnedBy("accept") : Move({c}, "gone")

Admit == \E c \in OwnedBy("accept") : Move({c}, "pool")

\* A worker takes connections only when it has given back the ones it had.
Take(w) ==
    /\ OwnedBy(w) = {}
    /\ \E S \in SUBSET OwnedBy("pool") : Move(S, w)

GiveBack(w) ==
    \E K \in SUBSET OwnedBy(w) :
        owner' = [c \in Conns |->
                    IF owner[c] # w THEN owner[c]
                    ELSE IF c \in K THEN "pool" ELSE "gone"]

Shutdown ==
    /\ \A c \in Conns : owner[c] \in {"client", "pool", "gone"}
    /\ Move(OwnedBy("pool"), "gone")

Next ==
    \/ Accept \/ Drop \/ Refuse \/ Admit \/ Shutdown
    \/ \E w \in Workers : Take(w) \/ GiveBack(w)

Spec == Init /\ [][Next]_owner
=============================================================================
