------------------------------- MODULE Slices -------------------------------
(***************************************************************************)
(* A slice of the cluster: the pools of its master and of its slaves, and  *)
(* the weighted round robin over the slaves (backend/slice.go and          *)
(* balancer.go).                                                           *)
(*                                                                         *)
(* The slaves of a role are given by their weights.  The roles are the     *)
(* slaves reads are split to ("slave"), the statistic users' slaves        *)
(* ("statistic") and the slaves of the master's data centre ("masterdc").  *)
(***************************************************************************)
EXTENDS Balancer

CONSTANTS Weights,    \* role -> the configured weights of its slaves
          MaxGets     \* bound: reads that ask for a connection

VARIABLES rrq,      \* RoundRobinQ of each role
          last,     \* the Last...Index of each role
          down,     \* the pools that cannot give a connection
          got,      \* per role, the slaves chosen so far
          served    \* the last connection given: <<role, slave>>, <<"master">> or <<"error">>

slicesVars == <<rrq, last, down, got, served>>

SlicesTypeOK ==
  /\ rrq \in [Roles -> Seq(Nat)]
  /\ last \in [Roles -> Nat]
  /\ down \in SUBSET (Roles \cup {"master"})

\* parseSlice, for lists without a weight that panics.
SlicesInit ==
  /\ rrq \in [Roles -> UNION {Shuffled(ParsedWeights(r, Weights[r])) : r \in Roles}]
  /\ \A r \in Roles : rrq[r] \in Shuffled(ParsedWeights(r, Weights[r]))
  /\ last = [r \in Roles |-> 0]
  /\ down = {}
  /\ got = [r \in Roles |-> <<>>]
  /\ served = <<>>

\* The field that the modulo is stored to: the statistic slaves' is the
\* other slaves' index.
ReducedIndex(r) == IF r = "statistic" THEN "slave" ELSE r

\* Mutant: the step past the slave is stored where the modulo is.
getNextShared(r) ==
  LET n == Len(rrq[r])
      reduced == [last EXCEPT ![ReducedIndex(r)] = last[r] % n]
      index == rrq[r][reduced[r] + 1]
  IN  CASE n = 0 -> <<-1, last>>
        [] n = 1 -> <<rrq[r][1], last>>
        [] n > 1 -> IF Len(Weights[r]) <= index THEN <<-1, reduced>>
                    ELSE <<index, [reduced EXCEPT ![ReducedIndex(r)] = (reduced[r] + 1) % n]>>

\* getNextSlave, getNextStatisticSlave, getNextMasterDCSlave: the slave, and
\* the indexes afterwards; <<-1, last>> when there is none.
getNext(r) ==
  LET n == Len(rrq[r])
      reduced == [last EXCEPT ![ReducedIndex(r)] = last[r] % n]
      index == rrq[r][reduced[r] + 1]
  IN  CASE n = 0 -> <<-1, last>>
        [] n = 1 -> <<rrq[r][1], last>>
        [] n > 1 -> IF Len(Weights[r]) <= index THEN <<-1, reduced>>
                    ELSE <<index, [reduced EXCEPT ![r] = (reduced[r] + 1) % n]>>

Chosen(r, s) == got' = [got EXCEPT ![r] = Append(@, s)]

\* GetConn for a role: the pool of the slave that is next, or no connection.
FromRole(r) ==
  LET g == getNext(r)
  IN  /\ last' = g[2]
      /\ IF g[1] = -1 THEN UNCHANGED got ELSE Chosen(r, g[1])
      /\ served' = IF g[1] = -1 \/ r \in down THEN <<"error">> ELSE <<r, g[1]>>

\* A read of an ordinary user falls back to the master.
GetSlaveConn ==
  LET g == getNext("slave")
  IN  /\ last' = g[2]
      /\ IF g[1] = -1 THEN UNCHANGED got ELSE Chosen("slave", g[1])
      /\ served' = CASE g[1] # -1 /\ "slave" \notin down -> <<"slave", g[1]>>
                     [] (g[1] = -1 \/ "slave" \in down) /\ "master" \notin down -> <<"master">>
                     [] OTHER -> <<"error">>

Gets == FoldLeft(LAMBDA a, r : a + Len(got[r]), 0, SetToSeq(Roles))

\* GetConn: the flags of the statement and the property of the user decide.
GetConn(flag, user) ==
  /\ Gets < MaxGets
  /\ CASE flag = "slave" /\ user = "statistic" -> FromRole("statistic")
       [] flag = "slave" /\ user # "statistic" -> GetSlaveConn
       [] flag = "masterdc" -> FromRole("masterdc")
       [] flag = "master" -> /\ served' = IF "master" \in down THEN <<"error">> ELSE <<"master">>
                             /\ UNCHANGED <<last, got>>
  /\ UNCHANGED <<rrq, down>>

\* The servers of a role fail or come back.
Outage(r) ==
  /\ down' = IF r \in down THEN down \ {r} ELSE down \cup {r}
  /\ UNCHANGED <<rrq, last, got, served>>

SlicesNext ==
  \/ \E flag \in {"slave", "master", "masterdc"}, user \in {"statistic", "plain"} : GetConn(flag, user)
  \/ \E r \in Roles \cup {"master"} : Outage(r)

-----------------------------------------------------------------------------
\* How often slave s was chosen in the picks from..to.
Picked(r, s, from, to) == Cardinality({i \in from..to : got[r][i] = s})

\* Every window as long as the queue serves each slave as often as its
\* weight says.  The statistic users' slaves keep this whatever else runs;
\* the other slaves do until a statistic user's read moves their index.
WeightedRotation ==
  \A r \in {"slave", "statistic"} :
    (r = "statistic" \/ got["statistic"] = <<>>) =>
      \A k \in 0..(Len(got[r]) - Len(rrq[r])) : \A s \in DOMAIN Weights[r] :
        Picked(r, s - 1, k + 1, k + Len(rrq[r])) = Turns(Weights[r])[s]

\* README.md: slaves are load balanced.  After two turns of the configured
\* weights every slave of the master's data centre has been chosen.
MasterDCBalanced ==
  Len(got["masterdc"]) >= 2 * TurnSum(Weights["masterdc"]) =>
    \A s \in DOMAIN Weights["masterdc"] : \E i \in DOMAIN got["masterdc"] : got["masterdc"][i] = s - 1
=============================================================================
