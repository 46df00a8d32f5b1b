------------------------------ MODULE Balancer ------------------------------
(***************************************************************************)
(* The weighted round robin over the slaves of a slice: how the queue of   *)
(* slaves is made from their weights (backend/balancer.go).                *)
(***************************************************************************)
EXTENDS Integers, Sequences, FiniteSets, SequencesExt

Roles == {"slave", "statistic", "masterdc"}

\* Go's quotient is truncated towards zero.
Quot(a, b) ==
  LET abs(x) == IF x < 0 THEN -x ELSE x
      q == abs(a) \div abs(b)
  IN  IF (a < 0) = (b < 0) THEN q ELSE -q

\* From the least weight downwards to a common divisor; 0 divides nothing,
\* and below 1 the search ends with whatever it has come to.
gcd(ary) ==
  LET least == CHOOSE m \in ToSet(ary) : \A x \in ToSet(ary) : m <= x
      divides(d, x) == x - d * Quot(x, d) = 0
      common(d) == \A i \in DOMAIN ary : divides(d, ary[i])
  IN  CASE least = 0 -> 0
        [] least # 0 /\ common(least) -> least
        [] least < 0 /\ ~common(least) -> least - 1
        [] least > 0 /\ ~common(least) -> CHOOSE d \in 1..least : common(d) /\ \A e \in (d + 1)..least : ~common(e)

Turns(ary) == [i \in DOMAIN ary |-> Quot(ary[i], gcd(ary))]

TurnSum(ary) == FoldLeft(LAMBDA a, b : a + b, 0, Turns(ary))

\* The slaves' numbers, each as often as its weight over the divisor.
Queue(ary) == FlattenSeq([i \in DOMAIN ary |-> [j \in 1..Turns(ary)[i] |-> i - 1]])

\* initBalancer: a divisor of 0 and a negative sum panic.
BalancerPanics(ary) == ary # <<>> /\ (gcd(ary) = 0 \/ TurnSum(ary) < 0)

Swap(q, x, sum) ==
  LET other == sum % (x + 1) IN [q EXCEPT ![x + 1] = q[other + 1], ![other + 1] = q[x + 1]]

\* The queues the random swaps can leave.
Shuffled(ary) ==
  LET sum == TurnSum(ary)
      from(Q, i) == {Swap(q, x, sum) : q \in Q, x \in 0..(sum - 1)}
  IN  IF Len(ary) > 1 THEN FoldLeft(from, {Queue(ary)}, [i \in 1..sum |-> i]) ELSE {Queue(ary)}

\* The weights each reading of a list of slaves leaves.  That of the local
\* data centre's slaves appends to the other list, which is still empty.
ParsedWeights(role, weights) ==
  IF role = "masterdc" /\ weights # <<>> THEN <<weights[Len(weights)]>> ELSE weights
=============================================================================
