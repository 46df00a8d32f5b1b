----------------------------- MODULE PoolContract -----------------------------
(***************************************************************************)
(* What a pool of connections promises its users, without channels,        *)
(* tokens, counters or timers: a connection is lent to one client at a     *)
(* time, at most Limit connections are alive, a connection nobody uses     *)
(* may be closed at any moment, and a pool is shut down only when nothing  *)
(* is alive, after which it stays so.                                      *)
(***************************************************************************)
EXTENDS Naturals, FiniteSets

CONSTANTS Clients, Resources, Nil, Limit

VARIABLES
    alive,   \* connections that exist
    lent,    \* the connection each client has, or Nil
    shut     \* the pool has been shut down

pvars == <<alive, lent, shut>>

Idle == alive \ {lent[c] : c \in Clients}

Init ==
    /\ alive = {}
    /\ lent = [c \in Clients |-> Nil]
    /\ shut = FALSE

\* A client is given a connection nobody else has ...
Lend(c) ==
    /\ ~shut /\ lent[c] = Nil
    /\ \E res \in Idle : lent' = [lent EXCEPT ![c] = res]
    /\ UNCHANGED <<alive, shut>>

\* ... or a new one, as long as the limit allows it.
Create(c) ==
    /\ ~shut /\ lent[c] = Nil
    /\ \E res \in Resources \ alive :
          /\ alive' = alive \cup {res}
          /\ lent' = [lent EXCEPT ![c] = res]
    /\ Cardinality(alive') <= Limit
    /\ UNCHANGED shut

GiveBack(c) ==
    /\ lent[c] # Nil
    /\ lent' = [lent EXCEPT ![c] = Nil]
    /\ UNCHANGED <<alive, shut>>

\* A client closes the connection it was lent.
Discard(c) ==
    /\ lent[c] # Nil
    /\ alive' = alive \ {lent[c]}
    /\ lent' = [lent EXCEPT ![c] = Nil]
    /\ UNCHANGED shut

\* The pool closes a connection that is lent to nobody.
Evict ==
    /\ \E res \in Idle : alive' = alive \ {res}
    /\ UNCHANGED <<lent, shut>>

Shut ==
    /\ ~shut /\ alive = {}
    /\ shut' = TRUE
    /\ UNCHANGED <<alive, lent>>

Next ==
    \/ \E c \in Clients : Lend(c) \/ Create(c) \/ GiveBack(c) \/ Discard(c)
    \/ Evict
    \/ Shut

Spec == Init /\ [][Next]_pvars
=============================================================================
