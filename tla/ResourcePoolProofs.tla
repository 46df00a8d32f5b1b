-------------------------- MODULE ResourcePoolProofs --------------------------
(***************************************************************************)
(* Proofs about ResourcePool, for every number of clients, resources and   *)
(* every capacity, with one goroutine that resizes and closes the pool and *)
(* that closes it with Close when there is an idle timer.                  *)
(***************************************************************************)
EXTENDS ResourcePool, FiniteSetTheorems, TLAPS

ASSUME OneResizer == \E r \in Resizers : Resizers = {r}

ASSUME CloseStopsTimer == HasIdleTimer => 0 \notin Targets

-----------------------------------------------------------------------------
(* The inductive invariant                                                 *)

\* What a client holds follows from where it is.
ClientShape ==
    \A c \in Clients :
        /\ cpc[c] \in {"idle", "waiting", "unwrap", "failed", "counting"}
              => cwrap[c] = Nil
        /\ cpc[c] \in {"got", "using"} => cwrap[c] # Nil

\* A resize in progress has already published its target, and what it has
\* left to do keeps the number of tokens between 0 and MaxCap.
ResizerShape ==
    \A r \in Resizers :
        /\ rpc[r] \in {"shrink", "shrunk"} =>
              left[r] > 0 /\ capacity = target[r] /\ capacity + left[r] <= MaxCap
        /\ rpc[r] \in {"expand", "expanded"} =>
              left[r] > 0 /\ capacity = target[r] /\ left[r] < capacity
        /\ rpc[r] = "close" => capacity = 0 /\ target[r] = 0
        /\ rpc[r] = "stopping" => target[r] = 0
        /\ rpc[r] # "idle" /\ target[r] = 0 => rpc[r] = "stopping" \/ timer # "running"

\* The idle scan runs only while the timer does, and holds a wrapper only
\* between its receive and its send; a pool of capacity 0 has no timer.
TimerShape ==
    /\ capacity = 0 => timer # "running"
    /\ timer # "running" => spc = "sleep"
    /\ timer = "running" => HasIdleTimer
    /\ spc # "send" => swrap = Nil

\* The channel is closed at the very end.
ClosedShape ==
    chanClosed =>
        /\ capacity = 0
        /\ \A r \in Resizers : rpc[r] \in {"idle", "stopping", "swap"}

Control == TypeOK /\ ClientShape /\ ResizerShape /\ TimerShape /\ ClosedShape

IInv == Control /\ NoPanic /\ TokensConserved /\ OneOwner /\ CountersExact

-----------------------------------------------------------------------------
(* Counting clients                                                        *)

\* The clients at a set of places are finitely many.
LEMMA AtFinite ==
    ASSUME NEW P
    PROVE  IsFiniteSet(At(P)) /\ Cardinality(At(P)) \in Nat
<1>1. At(P) \in SUBSET Clients  BY DEF At
<1> QED  BY <1>1, FS_Subset, FS_CardinalityType, IdentityAssumption

\* When one client moves, the number of clients in P changes by the client
\* that leaves P and the one that enters it.
LEMMA AtStep ==
    ASSUME NEW P, NEW c \in Clients, NEW to,
           cpc \in [Clients -> ClientPC],
           cpc' = [cpc EXCEPT ![c] = to]
    PROVE  Cardinality(At(P)') = Cardinality(At(P)) - Bit(cpc[c] \in P) + Bit(to \in P)
<1>1. IsFiniteSet(At(P)) /\ Cardinality(At(P)) \in Nat  BY AtFinite
<1>2. CASE cpc[c] \in P /\ to \in P
  <2>1. At(P)' = At(P)  BY <1>2 DEF At
  <2> QED  BY <1>1, <1>2, <2>1 DEF Bit
<1>3. CASE cpc[c] \notin P /\ to \notin P
  <2>1. At(P)' = At(P)  BY <1>3 DEF At
  <2> QED  BY <1>1, <1>3, <2>1 DEF Bit
<1>4. CASE cpc[c] \in P /\ to \notin P
  <2>1. At(P)' = At(P) \ {c} /\ c \in At(P)  BY <1>4 DEF At
  <2>2. Cardinality(At(P)') = Cardinality(At(P)) - 1
    BY <1>1, <2>1, FS_RemoveElement, Zenon
  <2> QED  BY <1>1, <1>4, <2>2 DEF Bit
<1>5. CASE cpc[c] \notin P /\ to \in P
  <2>1. At(P)' = At(P) \cup {c} /\ c \notin At(P)  BY <1>5 DEF At
  <2>2. Cardinality(At(P)') = Cardinality(At(P)) + 1
    BY <1>1, <2>1, FS_AddElement, Zenon
  <2> QED  BY <1>1, <1>5, <2>2 DEF Bit
<1> QED  BY <1>2, <1>3, <1>4, <1>5

-----------------------------------------------------------------------------
(* Sequences without repetitions                                           *)

Distinct(q) == \A i, j \in DOMAIN q : q[i] = q[j] => i = j \/ q[i] = Nil

\* Receiving takes the head out of the channel, and out of Pooled.
LEMMA ReceiveEffect ==
    ASSUME NEW q \in Seq(Wrappers), q # <<>>
    PROVE  /\ Head(q) \in Wrappers
           /\ Tail(q) \in Seq(Wrappers)
           /\ Len(Tail(q)) = Len(q) - 1
           /\ Range(q) = Range(Tail(q)) \cup {Head(q)}
           /\ Distinct(q) => /\ Distinct(Tail(q))
                             /\ Head(q) # Nil => Head(q) \notin Range(Tail(q))
<1>1. /\ Head(q) \in Wrappers /\ Tail(q) \in Seq(Wrappers)
      /\ Len(Tail(q)) = Len(q) - 1
      /\ \A i \in 1..Len(Tail(q)) : Tail(q)[i] = q[i + 1]
  OBVIOUS
<1>2. Len(q) \in Nat \ {0} /\ Head(q) = q[1]
  OBVIOUS
<1>3. DOMAIN q = 1..Len(q) /\ DOMAIN Tail(q) = 1..(Len(q) - 1)
  BY <1>1, <1>2
<1>4. Range(q) = Range(Tail(q)) \cup {Head(q)}
  <2>1. ASSUME NEW x \in Range(q) PROVE x \in Range(Tail(q)) \cup {Head(q)}
    <3>1. PICK i \in 1..Len(q) : x = q[i]  BY <1>3 DEF Range
    <3>2. CASE i = 1  BY <3>1, <3>2, <1>2
    <3>3. CASE i # 1
      <4>1. i - 1 \in 1..(Len(q) - 1) /\ Tail(q)[i - 1] = q[(i - 1) + 1] /\ (i - 1) + 1 = i
        BY <3>3, <1>1, <1>2
      <4> QED  BY <4>1, <3>1, <1>3, Zenon DEF Range
    <3> QED  BY <3>2, <3>3
  <2>2. ASSUME NEW x \in Range(Tail(q)) PROVE x \in Range(q)
    <3>1. PICK i \in 1..(Len(q) - 1) : x = Tail(q)[i]  BY <1>3 DEF Range
    <3>2. x = q[i + 1] /\ i + 1 \in 1..Len(q)  BY <3>1, <1>1, <1>2
    <3> QED  BY <3>2, <1>3 DEF Range
  <2>3. Head(q) \in Range(q)  BY <1>2, <1>3 DEF Range
  <2> QED  BY <2>1, <2>2, <2>3
<1>5. ASSUME Distinct(q) PROVE Distinct(Tail(q))
  BY <1>1, <1>2, <1>3, <1>5 DEF Distinct
<1>6. ASSUME Distinct(q), Head(q) # Nil PROVE Head(q) \notin Range(Tail(q))
  BY <1>1, <1>2, <1>3, <1>6 DEF Distinct, Range
<1> QED  BY <1>1, <1>4, <1>5, <1>6

\* Sending puts the wrapper at the end of the channel, and into Pooled.
LEMMA SendEffect ==
    ASSUME NEW q \in Seq(Wrappers), NEW w \in Wrappers
    PROVE  /\ Append(q, w) \in Seq(Wrappers)
           /\ Len(Append(q, w)) = Len(q) + 1
           /\ Range(Append(q, w)) = Range(q) \cup {w}
           /\ Distinct(q) /\ (w = Nil \/ w \notin Range(q)) => Distinct(Append(q, w))
<1>1. /\ Append(q, w) \in Seq(Wrappers)
      /\ Len(q) \in Nat
      /\ Len(Append(q, w)) = Len(q) + 1
      /\ \A i \in 1..Len(q) : Append(q, w)[i] = q[i]
      /\ Append(q, w)[Len(q) + 1] = w
  OBVIOUS
<1>2. DOMAIN q = 1..Len(q) /\ DOMAIN Append(q, w) = 1..(Len(q) + 1)
  BY <1>1
<1>3. Range(Append(q, w)) = Range(q) \cup {w}
  BY <1>1, <1>2 DEF Range
<1>4. ASSUME Distinct(q), w = Nil \/ w \notin Range(q) PROVE Distinct(Append(q, w))
  BY <1>1, <1>2, <1>4 DEF Distinct, Range
<1> QED  BY <1>1, <1>3, <1>4
-----------------------------------------------------------------------------
(* Consequences of the invariant in one state                              *)

\* The quantities of TokensConserved are natural numbers.
LEMMA TokenTypes ==
    ASSUME Control
    PROVE  Len(resources) \in Nat /\ Cardinality(Holders) \in Nat
<1>1. Len(resources) \in Nat  BY DEF Control, TypeOK
<1>2. Cardinality(Holders) \in Nat  BY AtFinite DEF Holders
<1> QED  BY <1>1, <1>2

\* There are never more than MaxCap tokens, and none once the channel is closed.
LEMMA TokenBound ==
    ASSUME IInv
    PROVE  /\ Len(resources) + Cardinality(Holders) + Bit(spc = "send") <= MaxCap
           /\ chanClosed => Len(resources) + Cardinality(Holders) + Bit(spc = "send") = 0
<1>1. PICK r \in Resizers : Resizers = {r}  BY OneResizer
<1>2. Len(resources) + Cardinality(Holders) + Bit(spc = "send")
        = capacity + ToTake(r) - ToAdd(r)
  BY <1>1 DEF IInv, TokensConserved
<1>3. /\ capacity \in 0..MaxCap /\ left[r] \in 0..MaxCap
      /\ rpc[r] \in {"shrink", "shrunk"} => capacity + left[r] <= MaxCap
      /\ rpc[r] \in {"expand", "expanded"} => left[r] > 0
      /\ chanClosed => capacity = 0 /\ rpc[r] \in {"idle", "stopping", "swap"}
  BY <1>1 DEF IInv, Control, TypeOK, ResizerShape, ClosedShape
<1>4. MaxCap \in Nat  BY CapAssumption
<1>5. /\ capacity + ToTake(r) - ToAdd(r) <= MaxCap
      /\ chanClosed => capacity + ToTake(r) - ToAdd(r) = 0
  BY <1>3, <1>4 DEF ToTake, ToAdd
<1> QED  BY <1>2, <1>5

\* A goroutine that holds a token can send it: the channel is open, not full.
LEMMA RoomForHolder ==
    ASSUME IInv
    PROVE  HolderHasRoom
<1>1. SUFFICES ASSUME Holders # {} \/ spc = "send" PROVE CanSend
  BY DEF HolderHasRoom
<1>2. Len(resources) \in Nat /\ Cardinality(Holders) \in Nat
  BY TokenTypes DEF IInv
<1>3. Cardinality(Holders) + Bit(spc = "send") > 0
  <2>1. CASE Holders # {}
    <3>1. Cardinality(Holders) # 0  BY <2>1, AtFinite, FS_EmptySet DEF Holders
    <3> QED  BY <3>1, <1>2 DEF Bit
  <2>2. CASE spc = "send"  BY <2>2, <1>2 DEF Bit
  <2> QED  BY <1>1, <2>1, <2>2
<1>4. Len(resources) < MaxCap /\ ~chanClosed
  BY <1>2, <1>3, TokenBound, CapAssumption DEF Bit
<1> QED  BY <1>4 DEF CanSend

\* A closed pool is empty and its timer is silent.
LEMMA ClosedEmpty ==
    ASSUME IInv
    PROVE  ClosedIsEmpty
<1>1. SUFFICES ASSUME chanClosed
      PROVE /\ open = {} /\ resources = <<>> /\ Holders = {}
            /\ timer # "running" /\ spc = "sleep"
  BY DEF ClosedIsEmpty
<1>2. Len(resources) \in Nat /\ Cardinality(Holders) \in Nat
  BY TokenTypes DEF IInv
<1>3. Len(resources) = 0 /\ Cardinality(Holders) = 0
  BY <1>1, <1>2, TokenBound DEF Bit
<1>4. resources = <<>>
  BY <1>3 DEF IInv, Control, TypeOK
<1>5. Holders = {}
  BY <1>3, AtFinite, FS_EmptySet DEF Holders
<1>6. timer # "running" /\ spc = "sleep" /\ swrap = Nil
  BY <1>1 DEF IInv, Control, ClosedShape, TimerShape
<1>7. Pooled = {}
  BY <1>4 DEF Pooled, Range
<1>8. LentOut = {}
  BY <1>5 DEF LentOut, Owners, Holders, At
<1>9. open = {}
  BY <1>6, <1>7, <1>8 DEF IInv, OneOwner, Scanned
<1> QED  BY <1>4, <1>5, <1>6, <1>9

-----------------------------------------------------------------------------
(* Every step preserves the control part                                   *)

\* Every step keeps who may be where, and none panics.
LEMMA ControlStep ==
    ASSUME IInv, Next
    PROVE  Control' /\ NoPanic'
<1> USE DEF IInv, Control, NoPanic
<1>0. PICK r0 \in Resizers : Resizers = {r0}  BY OneResizer
<1>1. MaxCap \in Nat /\ Targets \subseteq 0..MaxCap /\ Nil \in Wrappers
  BY CapAssumption, IdentityAssumption DEF Wrappers
<1>2. ASSUME NEW c \in Clients, Fetch(c) PROVE Control' /\ NoPanic'
  <2>1. CASE Receive
    <3>1. Head(resources) \in Wrappers /\ Tail(resources) \in Seq(Wrappers)
      BY <2>1, ReceiveEffect DEF Receive, TypeOK
    <3>2. Head(resources) # Nil => Head(resources) \in Resources  BY <3>1 DEF Wrappers
    <3>3. /\ cpc' = [cpc EXCEPT ![c] = IF Head(resources) = Nil THEN "unwrap" ELSE "got"]
          /\ cwrap' = [cwrap EXCEPT ![c] = Head(resources)] /\ resources' = Tail(resources)
      BY <1>2, <2>1, Zenon DEF Fetch, Receive, ReceiveClosed, Client
    <3>4. UNCHANGED <<chanClosed, capacity, counters, open, resizerVars, scanVars>>
      BY <1>2, Zenon DEF Fetch
    <3>5. TypeOK'  BY <3>1, <3>3, <3>4 DEF TypeOK, ClientPC, counters, resizerVars, scanVars
    <3>6. ClientShape'
      <4> SUFFICES ASSUME NEW d \in Clients
                   PROVE  /\ cpc'[d] \in {"idle", "waiting", "unwrap", "failed", "counting"} => cwrap'[d] = Nil
                          /\ cpc'[d] \in {"got", "using"} => cwrap'[d] # Nil
        BY Zenon DEF ClientShape
      <4>1. CASE d = c  BY <4>1, <3>3 DEF TypeOK
      <4>2. CASE d # c
        <5>1. cpc'[d] = cpc[d] /\ cwrap'[d] = cwrap[d]  BY <4>2, <3>3 DEF TypeOK
        <5> QED  BY <5>1, Zenon DEF ClientShape
      <4> QED  BY <4>1, <4>2
    <3>7. ResizerShape' /\ TimerShape' /\ ClosedShape'
      BY <3>4 DEF counters, resizerVars, scanVars, ResizerShape, TimerShape, ClosedShape
    <3>8. NoPanic'  BY <3>3, <3>4 DEF TypeOK, resizerVars, scanVars
    <3> QED  BY <3>5, <3>6, <3>7, <3>8
  <2>2. CASE ReceiveClosed
    <3>3. /\ cpc' = [cpc EXCEPT ![c] = "idle"]
          /\ cwrap' = [cwrap EXCEPT ![c] = Nil] /\ resources' = resources
      BY <1>2, <2>2, Zenon DEF Fetch, Receive, ReceiveClosed, Client
    <3>4. UNCHANGED <<chanClosed, capacity, counters, open, resizerVars, scanVars>>
      BY <1>2, Zenon DEF Fetch
    <3>5. TypeOK'  BY <1>1, <3>3, <3>4 DEF TypeOK, ClientPC, counters, resizerVars, scanVars
    <3>6. ClientShape'  BY <3>3 DEF TypeOK, ClientShape
    <3>7. ResizerShape' /\ TimerShape' /\ ClosedShape'
      BY <3>4 DEF counters, resizerVars, scanVars, ResizerShape, TimerShape, ClosedShape
    <3>8. NoPanic'  BY <3>3, <3>4 DEF TypeOK, resizerVars, scanVars
    <3> QED  BY <3>5, <3>6, <3>7, <3>8
  <2> QED  BY <1>2, <2>1, <2>2 DEF Fetch
<1>3. ASSUME NEW c \in Clients, Wait(c) PROVE Control' /\ NoPanic'
  <2>1. TypeOK' /\ NoPanic' /\ ClientShape'
    BY <1>1, <1>3 DEF TypeOK, Wait, Client, counters,
       resizerVars, scanVars, ClientPC, ClientShape
  <2>2. ResizerShape' /\ TimerShape' /\ ClosedShape'
    BY <1>3 DEF Wait, counters, resizerVars, scanVars, ResizerShape, TimerShape, ClosedShape
  <2> QED  BY <2>1, <2>2
<1>4. ASSUME NEW c \in Clients, GetTimeout(c) PROVE Control' /\ NoPanic'
  <2>1. TypeOK' /\ NoPanic' /\ ClientShape'
    BY <1>1, <1>4 DEF TypeOK, GetTimeout, Client, counters,
       resizerVars, scanVars, ClientPC, ClientShape
  <2>2. ResizerShape' /\ TimerShape' /\ ClosedShape'
    BY <1>4 DEF GetTimeout, counters, resizerVars, scanVars, ResizerShape, TimerShape, ClosedShape
  <2> QED  BY <2>1, <2>2
<1>5. ASSUME NEW c \in Clients, FactoryOK(c) PROVE Control' /\ NoPanic'
  <2>1. TypeOK' /\ NoPanic' /\ ClientShape'
    BY <1>1, <1>5, IdentityAssumption DEF TypeOK, FactoryOK, Client, counters,
       resizerVars, scanVars, ClientPC, ClientShape, Wrappers
  <2>2. ResizerShape' /\ TimerShape' /\ ClosedShape'
    BY <1>5 DEF FactoryOK, counters, resizerVars, scanVars, ResizerShape, TimerShape, ClosedShape
  <2> QED  BY <2>1, <2>2
<1>6. ASSUME NEW c \in Clients, FactoryError(c) PROVE Control' /\ NoPanic'
  <2>1. TypeOK' /\ NoPanic' /\ ClientShape'
    BY <1>1, <1>6 DEF TypeOK, FactoryError, Client, counters,
       resizerVars, scanVars, ClientPC, ClientShape
  <2>2. ResizerShape' /\ TimerShape' /\ ClosedShape'
    BY <1>6 DEF FactoryError, counters, resizerVars, scanVars, ResizerShape, TimerShape, ClosedShape
  <2> QED  BY <2>1, <2>2
<1>7. ASSUME NEW c \in Clients, ReturnToken(c) PROVE Control' /\ NoPanic'
  <2>1. cpc[c] = "failed" /\ c \in Holders
    BY <1>7 DEF ReturnToken, Client, Holders, At
  <2>2. CanSend  BY <2>1, RoomForHolder DEF HolderHasRoom
  <2>3. Nil \in Wrappers  BY <1>1 DEF TypeOK
  <2>4. Append(resources, Nil) \in Seq(Wrappers)
    BY <2>3, SendEffect DEF TypeOK
  <2>5. TypeOK' /\ NoPanic' /\ ClientShape'
    BY <1>1, <1>7, <2>1, <2>2, <2>4, Zenon DEF TypeOK, ReturnToken, Client, Send, CanSend, counters,
       resizerVars, scanVars, ClientPC, ClientShape
  <2>6. ResizerShape' /\ TimerShape' /\ ClosedShape'
    BY <1>7 DEF ReturnToken, counters, resizerVars, scanVars, ResizerShape, TimerShape, ClosedShape
  <2> QED  BY <2>5, <2>6
<1>8. ASSUME NEW c \in Clients, GetDone(c) PROVE Control' /\ NoPanic'
  <2>1. TypeOK' /\ NoPanic' /\ ClientShape'
    BY <1>1, <1>8 DEF TypeOK, GetDone, Client, counters,
       resizerVars, scanVars, ClientPC, ClientShape
  <2>2. ResizerShape' /\ TimerShape' /\ ClosedShape'
    BY <1>8 DEF GetDone, counters, resizerVars, scanVars, ResizerShape, TimerShape, ClosedShape
  <2> QED  BY <2>1, <2>2
<1>9. ASSUME NEW c \in Clients, PutResource(c) PROVE Control' /\ NoPanic'
  <2>1. TypeOK' /\ NoPanic' /\ ClientShape'
    BY <1>1, <1>9 DEF TypeOK, PutResource, Client, counters,
       resizerVars, scanVars, ClientPC, ClientShape
  <2>2. ResizerShape' /\ TimerShape' /\ ClosedShape'
    BY <1>9 DEF PutResource, counters, resizerVars, scanVars, ResizerShape, TimerShape, ClosedShape
  <2> QED  BY <2>1, <2>2
<1>10. ASSUME NEW c \in Clients, PutNil(c) PROVE Control' /\ NoPanic'
  <2>1. TypeOK' /\ NoPanic' /\ ClientShape'
    BY <1>1, <1>10 DEF TypeOK, PutNil, Client, counters,
       resizerVars, scanVars, ClientPC, ClientShape
  <2>2. ResizerShape' /\ TimerShape' /\ ClosedShape'
    BY <1>10 DEF PutNil, counters, resizerVars, scanVars, ResizerShape, TimerShape, ClosedShape
  <2> QED  BY <2>1, <2>2
<1>11. ASSUME NEW c \in Clients, PutSend(c) PROVE Control' /\ NoPanic'
  <2>1. cpc[c] = "putting" /\ c \in Holders
    BY <1>11 DEF PutSend, Client, Holders, At
  <2>2. CanSend  BY <2>1, RoomForHolder DEF HolderHasRoom
  <2>3. cwrap[c] \in Wrappers  BY <1>1 DEF TypeOK
  <2>4. Append(resources, cwrap[c]) \in Seq(Wrappers)
    BY <2>3, SendEffect DEF TypeOK
  <2>5. TypeOK' /\ NoPanic' /\ ClientShape'
    BY <1>1, <1>11, <2>1, <2>2, <2>4, ZenonT(40) DEF TypeOK, PutSend, Client, Send, CanSend, counters,
       resizerVars, scanVars, ClientPC, ClientShape
  <2>6. ResizerShape' /\ TimerShape' /\ ClosedShape'
    BY <1>11 DEF PutSend, counters, resizerVars, scanVars, ResizerShape, TimerShape, ClosedShape
  <2> QED  BY <2>5, <2>6
<1>12. ASSUME NEW c \in Clients, PutDone(c) PROVE Control' /\ NoPanic'
  <2>1. TypeOK' /\ NoPanic' /\ ClientShape'
    BY <1>1, <1>12 DEF TypeOK, PutDone, Client, counters,
       resizerVars, scanVars, ClientPC, ClientShape
  <2>2. ResizerShape' /\ TimerShape' /\ ClosedShape'
    BY <1>12 DEF PutDone, counters, resizerVars, scanVars, ResizerShape, TimerShape, ClosedShape
  <2> QED  BY <2>1, <2>2
<1>13. ASSUME NEW r \in Resizers, SetCapacity(r) PROVE Control' /\ NoPanic'
  <2>1. TypeOK' /\ NoPanic' /\ ClientShape'
    BY <1>0, <1>1, <1>13 DEF TypeOK, SetCapacity, Resizer, counters, clientVars, scanVars,
       ResizerPC, ClientShape, ResizerShape
  <2>2. ResizerShape'
    BY <1>0, <1>1, <1>13, CloseStopsTimer DEF TypeOK, SetCapacity, Resizer, counters, clientVars, scanVars,
       ResizerShape, TimerShape, ClosedShape
  <2>3. TimerShape' /\ ClosedShape'
    BY <1>0, <1>1, <1>13 DEF TypeOK, SetCapacity, Resizer, counters, clientVars, scanVars,
       ResizerShape, TimerShape, ClosedShape
  <2> QED  BY <2>1, <2>2, <2>3
<1>14. ASSUME NEW r \in Resizers, Close(r) PROVE Control' /\ NoPanic'
  <2>1. TypeOK' /\ NoPanic' /\ ClientShape'
    BY <1>0, <1>1, <1>14 DEF TypeOK, Close, Resizer, counters, clientVars, scanVars,
       ResizerPC, ClientShape, ResizerShape
  <2>2. ResizerShape'
    BY <1>0, <1>1, <1>14, CloseStopsTimer DEF TypeOK, Close, Resizer, counters, clientVars, scanVars,
       ResizerShape, TimerShape, ClosedShape
  <2>3. TimerShape' /\ ClosedShape'
    BY <1>0, <1>1, <1>14 DEF TypeOK, Close, Resizer, counters, clientVars, scanVars,
       ResizerShape, TimerShape, ClosedShape
  <2> QED  BY <2>1, <2>2, <2>3
<1>15. ASSUME NEW r \in Resizers, StopTimer(r) PROVE Control' /\ NoPanic'
  <2>1. TypeOK' /\ NoPanic' /\ ClientShape'
    BY <1>0, <1>1, <1>15 DEF TypeOK, StopTimer, Resizer, counters, clientVars, scanVars,
       ResizerPC, ClientShape, ResizerShape
  <2>2. ResizerShape'
    BY <1>0, <1>1, <1>15, CloseStopsTimer DEF TypeOK, StopTimer, Resizer, counters, clientVars, scanVars,
       ResizerShape, TimerShape, ClosedShape
  <2>3. TimerShape' /\ ClosedShape'
    BY <1>0, <1>1, <1>15 DEF TypeOK, StopTimer, Resizer, counters, clientVars, scanVars,
       ResizerShape, TimerShape, ClosedShape
  <2> QED  BY <2>1, <2>2, <2>3
<1>16. ASSUME NEW r \in Resizers, SwapCapacity(r) PROVE Control' /\ NoPanic'
  <2>1. TypeOK' /\ NoPanic' /\ ClientShape'
    BY <1>0, <1>1, <1>16 DEF TypeOK, SwapCapacity, Resizer, counters, clientVars, scanVars,
       ResizerPC, ClientShape, ResizerShape
  <2>2. ResizerShape'
    BY <1>0, <1>1, <1>16, CloseStopsTimer DEF TypeOK, SwapCapacity, Resizer, counters, clientVars, scanVars,
       ResizerShape, TimerShape, ClosedShape
  <2>3. TimerShape' /\ ClosedShape'
    BY <1>0, <1>1, <1>16 DEF TypeOK, SwapCapacity, Resizer, counters, clientVars, scanVars,
       ResizerShape, TimerShape, ClosedShape
  <2> QED  BY <2>1, <2>2, <2>3
<1>17. ASSUME NEW r \in Resizers, ShrinkReceive(r) PROVE Control' /\ NoPanic'
  <2>1. resources' \in Seq(Wrappers) /\ open' \in SUBSET Resources /\ active' \in Int
    <3>1. CASE resources = <<>>
      BY <1>17, <3>1 DEF ShrinkReceive, Receive, ReceiveClosed, TypeOK
    <3>2. CASE resources # <<>>
      <4>1. Tail(resources) \in Seq(Wrappers)  BY <3>2, ReceiveEffect DEF TypeOK
      <4>2. resources' = Tail(resources)  BY <1>17, <3>2 DEF ShrinkReceive, Receive, ReceiveClosed
      <4>3. open' \in SUBSET Resources /\ active' \in Int
        BY <1>17, <3>2 DEF ShrinkReceive, Receive, ReceiveClosed, TypeOK
      <4> QED  BY <4>1, <4>2, <4>3
    <3> QED  BY <3>1, <3>2
  <2>2. TypeOK' /\ NoPanic' /\ ClientShape'
    BY <1>0, <1>1, <1>17, <2>1 DEF TypeOK, ShrinkReceive, Resizer, counters, clientVars,
       scanVars, ResizerPC, ClientShape
  <2>3. ResizerShape' /\ TimerShape' /\ ClosedShape'
    BY <1>0, <1>1, <1>17 DEF TypeOK, ShrinkReceive, Resizer, counters, clientVars, scanVars,
       ResizerShape, TimerShape, ClosedShape
  <2> QED  BY <2>2, <2>3
<1>18. ASSUME NEW r \in Resizers, ShrinkCount(r) PROVE Control' /\ NoPanic'
  <2>1. TypeOK' /\ NoPanic' /\ ClientShape'
    BY <1>0, <1>1, <1>18, SMTT(30) DEF TypeOK, ShrinkCount, Resizer, counters, clientVars, scanVars,
       ResizerPC, ClientShape, ResizerShape, AfterLoop
  <2>2. ResizerShape'
    BY <1>0, <1>1, <1>18, CloseStopsTimer, SMTT(30) DEF TypeOK, ShrinkCount, Resizer, counters, clientVars, scanVars,
       ResizerShape, TimerShape, ClosedShape, AfterLoop
  <2>3. TimerShape' /\ ClosedShape'
    BY <1>0, <1>1, <1>18 DEF TypeOK, ShrinkCount, Resizer, counters, clientVars, scanVars,
       ResizerShape, TimerShape, ClosedShape, AfterLoop
  <2> QED  BY <2>1, <2>2, <2>3
<1>19. ASSUME NEW r \in Resizers, ExpandSend(r) PROVE Control' /\ NoPanic'
  <2>1. ~chanClosed /\ Append(resources, Nil) \in Seq(Wrappers)
    BY <1>1, <1>19, SendEffect, Zenon DEF ExpandSend, Resizer, ClosedShape, TypeOK
  <2>2. TypeOK' /\ NoPanic' /\ ClientShape'
    BY <1>0, <1>1, <1>19, <2>1, Zenon DEF TypeOK, ExpandSend, Send, Resizer, counters, clientVars,
       scanVars, ResizerPC, ClientShape
  <2>3. ResizerShape' /\ TimerShape' /\ ClosedShape'
    BY <1>0, <1>1, <1>19, <2>1 DEF TypeOK, ExpandSend, Resizer, counters, clientVars, scanVars,
       ResizerShape, TimerShape, ClosedShape
  <2> QED  BY <2>2, <2>3
<1>20. ASSUME NEW r \in Resizers, ExpandCount(r) PROVE Control' /\ NoPanic'
  <2>1. TypeOK' /\ NoPanic' /\ ClientShape'
    BY <1>0, <1>1, <1>20, SMTT(30) DEF TypeOK, ExpandCount, Resizer, counters, clientVars, scanVars,
       ResizerPC, ClientShape, ResizerShape, AfterLoop
  <2>2. ResizerShape'
    BY <1>0, <1>1, <1>20, CloseStopsTimer DEF TypeOK, ExpandCount, Resizer, counters, clientVars, scanVars,
       ResizerShape, TimerShape, ClosedShape, AfterLoop
  <2>3. TimerShape' /\ ClosedShape'
    BY <1>0, <1>1, <1>20 DEF TypeOK, ExpandCount, Resizer, counters, clientVars, scanVars,
       ResizerShape, TimerShape, ClosedShape, AfterLoop
  <2> QED  BY <2>1, <2>2, <2>3
<1>21. ASSUME NEW r \in Resizers, CloseChannel(r) PROVE Control' /\ NoPanic'
  <2>1. TypeOK' /\ NoPanic' /\ ClientShape'
    BY <1>0, <1>1, <1>21 DEF TypeOK, CloseChannel, Resizer, counters, clientVars, scanVars,
       ResizerPC, ClientShape, ResizerShape
  <2>2. ResizerShape'
    BY <1>0, <1>1, <1>21, CloseStopsTimer DEF TypeOK, CloseChannel, Resizer, counters, clientVars, scanVars,
       ResizerShape, TimerShape, ClosedShape
  <2>3. TimerShape' /\ ClosedShape'
    BY <1>0, <1>1, <1>21 DEF TypeOK, CloseChannel, Resizer, counters, clientVars, scanVars,
       ResizerShape, TimerShape, ClosedShape
  <2> QED  BY <2>1, <2>2, <2>3
<1>22. ASSUME ScanStart PROVE Control' /\ NoPanic'
  BY <1>22 DEF ScanStart, TypeOK, ScanPC, counters, clientVars, resizerVars, ClientShape,
     ResizerShape, TimerShape, ClosedShape
<1>23. ASSUME ScanReceive PROVE Control' /\ NoPanic'
  <2>1. resources # <<>> => Head(resources) \in Wrappers /\ Tail(resources) \in Seq(Wrappers)
    BY ReceiveEffect DEF TypeOK
  <2>2. TypeOK' /\ NoPanic'
    <3>1. resources' \in Seq(Wrappers)
      BY <1>23, <2>1, Zenon DEF ScanReceive, Receive, ReceiveClosed, TypeOK
    <3>2. swrap' \in Wrappers /\ open' \in SUBSET Resources /\ active' \in Int
      BY <1>1, <1>23, <2>1 DEF ScanReceive, Receive, ReceiveClosed, TypeOK
    <3>3. sleft' \in Int /\ spc' \in {"send", "sleep"}
      BY <1>23 DEF ScanReceive, TypeOK
    <3> QED
      BY <1>23, <3>1, <3>2, <3>3 DEF ScanReceive, TypeOK, ScanPC, counters, clientVars, resizerVars
  <2>3. ClientShape' /\ ResizerShape' /\ TimerShape' /\ ClosedShape'
    BY <1>23 DEF ScanReceive, counters, clientVars, resizerVars, ClientShape, ResizerShape,
       TimerShape, ClosedShape
  <2> QED  BY <2>2, <2>3
<1>24. ASSUME ScanSend PROVE Control' /\ NoPanic'
  <2>1. CanSend  BY <1>24, RoomForHolder DEF ScanSend, HolderHasRoom
  <2>2. Append(resources, swrap) \in Seq(Wrappers)  BY SendEffect DEF TypeOK
  <2>3. TypeOK' /\ NoPanic'
    <3>1. resources' \in Seq(Wrappers)
      BY <1>24, <2>1, <2>2 DEF ScanSend, CanSend, Send
    <3>2. sleft' \in Int /\ spc' \in {"scan", "sleep"} /\ swrap' \in Wrappers
      BY <1>1, <1>24, <2>1 DEF ScanSend, CanSend, TypeOK
    <3> QED
      BY <1>24, <3>1, <3>2 DEF ScanSend, TypeOK, ScanPC, counters, clientVars, resizerVars
  <2>4. ClientShape' /\ ResizerShape' /\ TimerShape' /\ ClosedShape'
    BY <1>24, <2>1 DEF ScanSend, CanSend, counters, clientVars, resizerVars, ClientShape,
       ResizerShape, TimerShape, ClosedShape
  <2> QED  BY <2>3, <2>4
<1> QED
  BY <1>2, <1>3, <1>4, <1>5, <1>6, <1>7, <1>8, <1>9, <1>10, <1>11, <1>12, <1>13, <1>14,
     <1>15, <1>16, <1>17, <1>18, <1>19, <1>20, <1>21, <1>22, <1>23, <1>24, Zenon
     DEF Next, Get, Put, Resize, closeIdleResources
-----------------------------------------------------------------------------
(* Every step preserves TokensConserved                                    *)

\* How a client's move changes the number of token holders.
LEMMA HoldersStep ==
    ASSUME Control, NEW c \in Clients, NEW to, NEW from, NEW w, Client(c, from, to, w)
    PROVE  /\ Cardinality(Holders) \in Nat
           /\ Cardinality(Holders') = Cardinality(Holders)
                - Bit(from \in {"unwrap", "failed", "got", "using", "putting"})
                + Bit(to \in {"unwrap", "failed", "got", "using", "putting"})
<1>1. cpc \in [Clients -> ClientPC]  BY DEF Control, TypeOK
<1>2. cpc[c] = from /\ cpc' = [cpc EXCEPT ![c] = to]  BY DEF Client
<1> QED  BY <1>1, <1>2, AtStep, AtFinite, Zenon DEF Holders

\* Every step keeps the sum of the tokens.
LEMMA TokenStep ==
    ASSUME IInv, Next
    PROVE  TokensConserved'
<1> USE DEF IInv
<1>0. PICK r0 \in Resizers : Resizers = {r0}  BY OneResizer
<1>1. /\ Len(resources) \in Nat
      /\ resources # <<>> => Len(Tail(resources)) = Len(resources) - 1
      /\ \A w \in Wrappers : Len(Append(resources, w)) = Len(resources) + 1
  BY ReceiveEffect, SendEffect, TokenTypes DEF Control, TypeOK
<1>2. /\ Cardinality(Holders) \in Nat /\ capacity \in Int /\ left[r0] \in Int
      /\ Nil \in Wrappers /\ swrap \in Wrappers
      /\ \A c \in Clients : cwrap[c] \in Wrappers
  BY <1>0, TokenTypes DEF Control, TypeOK, Wrappers
<1>3. Len(resources) + Cardinality(Holders) + Bit(spc = "send")
        = capacity + ToTake(r0) - ToAdd(r0)
  BY <1>0 DEF TokensConserved
<1>4. SUFFICES Len(resources') + Cardinality(Holders') + Bit(spc' = "send")
                 = capacity' + ToTake(r0)' - ToAdd(r0)'
  BY <1>0 DEF TokensConserved
<1>5. ASSUME NEW c \in Clients, Fetch(c), Receive
      PROVE  Len(resources') + Cardinality(Holders') + Bit(spc' = "send")
               = capacity' + ToTake(r0)' - ToAdd(r0)'
  <2>1. PICK from \in {"idle", "waiting"}, to \in {"unwrap", "got"} :
            Client(c, from, to, Head(resources))
    BY <1>5 DEF Fetch, Receive, ReceiveClosed
  <2>2. Cardinality(Holders') = Cardinality(Holders) + 1
    BY <2>1, HoldersStep DEF Bit
  <2> QED
    BY <1>1, <1>2, <1>3, <1>5, <2>2, SMTT(20)
    DEF Fetch, Receive, ToTake, ToAdd, resizerVars, scanVars, Bit
<1>6. ASSUME NEW c \in Clients, Fetch(c), ReceiveClosed
      PROVE  Len(resources') + Cardinality(Holders') + Bit(spc' = "send")
               = capacity' + ToTake(r0)' - ToAdd(r0)'
  <2>1. PICK from \in {"idle", "waiting"} : Client(c, from, "idle", Nil)
    BY <1>6 DEF Fetch, Receive, ReceiveClosed
  <2>2. Cardinality(Holders') = Cardinality(Holders)
    BY <2>1, HoldersStep DEF Bit
  <2> QED
    BY <1>2, <1>3, <1>6, <2>2 DEF Fetch, ReceiveClosed, ToTake, ToAdd, resizerVars, scanVars, Bit
<1>7. ASSUME NEW c \in Clients, Wait(c)
      PROVE  Len(resources') + Cardinality(Holders') + Bit(spc' = "send")
               = capacity' + ToTake(r0)' - ToAdd(r0)'
  <2>1. Client(c, "idle", "waiting", Nil)  BY <1>7 DEF Wait
  <2>2. Cardinality(Holders') = Cardinality(Holders)
    BY <2>1, HoldersStep DEF Bit
  <2> QED
    BY <1>2, <1>3, <1>7, <2>2 DEF Wait, ToTake, ToAdd, resizerVars, scanVars, Bit
<1>8. ASSUME NEW c \in Clients, GetTimeout(c)
      PROVE  Len(resources') + Cardinality(Holders') + Bit(spc' = "send")
               = capacity' + ToTake(r0)' - ToAdd(r0)'
  <2>1. Client(c, "waiting", "idle", Nil)  BY <1>8 DEF GetTimeout
  <2>2. Cardinality(Holders') = Cardinality(Holders)
    BY <2>1, HoldersStep DEF Bit
  <2> QED
    BY <1>2, <1>3, <1>8, <2>2 DEF GetTimeout, ToTake, ToAdd, resizerVars, scanVars, Bit
<1>9. ASSUME NEW c \in Clients, FactoryError(c)
      PROVE  Len(resources') + Cardinality(Holders') + Bit(spc' = "send")
               = capacity' + ToTake(r0)' - ToAdd(r0)'
  <2>1. Client(c, "unwrap", "failed", Nil)  BY <1>9 DEF FactoryError
  <2>2. Cardinality(Holders') = Cardinality(Holders)
    BY <2>1, HoldersStep DEF Bit
  <2> QED
    BY <1>2, <1>3, <1>9, <2>2 DEF FactoryError, ToTake, ToAdd, resizerVars, scanVars, Bit
<1>10. ASSUME NEW c \in Clients, GetDone(c)
      PROVE  Len(resources') + Cardinality(Holders') + Bit(spc' = "send")
               = capacity' + ToTake(r0)' - ToAdd(r0)'
  <2>1. Client(c, "got", "using", cwrap[c])  BY <1>10 DEF GetDone
  <2>2. Cardinality(Holders') = Cardinality(Holders)
    BY <2>1, HoldersStep DEF Bit
  <2> QED
    BY <1>2, <1>3, <1>10, <2>2 DEF GetDone, ToTake, ToAdd, resizerVars, scanVars, Bit
<1>11. ASSUME NEW c \in Clients, PutResource(c)
      PROVE  Len(resources') + Cardinality(Holders') + Bit(spc' = "send")
               = capacity' + ToTake(r0)' - ToAdd(r0)'
  <2>1. Client(c, "using", "putting", cwrap[c])  BY <1>11 DEF PutResource
  <2>2. Cardinality(Holders') = Cardinality(Holders)
    BY <2>1, HoldersStep DEF Bit
  <2> QED
    BY <1>2, <1>3, <1>11, <2>2 DEF PutResource, ToTake, ToAdd, resizerVars, scanVars, Bit
<1>12. ASSUME NEW c \in Clients, PutNil(c)
      PROVE  Len(resources') + Cardinality(Holders') + Bit(spc' = "send")
               = capacity' + ToTake(r0)' - ToAdd(r0)'
  <2>1. Client(c, "using", "putting", Nil)  BY <1>12 DEF PutNil
  <2>2. Cardinality(Holders') = Cardinality(Holders)
    BY <2>1, HoldersStep DEF Bit
  <2> QED
    BY <1>2, <1>3, <1>12, <2>2 DEF PutNil, ToTake, ToAdd, resizerVars, scanVars, Bit
<1>13. ASSUME NEW c \in Clients, PutDone(c)
      PROVE  Len(resources') + Cardinality(Holders') + Bit(spc' = "send")
               = capacity' + ToTake(r0)' - ToAdd(r0)'
  <2>1. Client(c, "counting", "idle", Nil)  BY <1>13 DEF PutDone
  <2>2. Cardinality(Holders') = Cardinality(Holders)
    BY <2>1, HoldersStep DEF Bit
  <2> QED
    BY <1>2, <1>3, <1>13, <2>2 DEF PutDone, ToTake, ToAdd, resizerVars, scanVars, Bit
<1>14. ASSUME NEW c \in Clients, FactoryOK(c)
      PROVE  Len(resources') + Cardinality(Holders') + Bit(spc' = "send")
               = capacity' + ToTake(r0)' - ToAdd(r0)'
  <2>1. PICK res \in Resources : Client(c, "unwrap", "got", res)  BY <1>14 DEF FactoryOK
  <2>2. Cardinality(Holders') = Cardinality(Holders)
    BY <2>1, HoldersStep DEF Bit
  <2> QED
    BY <1>2, <1>3, <1>14, <2>2 DEF FactoryOK, ToTake, ToAdd, resizerVars, scanVars, Bit
<1>15. ASSUME NEW c \in Clients, ReturnToken(c)
      PROVE  Len(resources') + Cardinality(Holders') + Bit(spc' = "send")
               = capacity' + ToTake(r0)' - ToAdd(r0)'
  <2>1. CanSend
    BY <1>15, RoomForHolder DEF ReturnToken, Client, HolderHasRoom, Holders, At
  <2>2. Client(c, "failed", "idle", Nil) /\ Send(Nil)
    BY <1>15, <2>1 DEF ReturnToken, CanSend
  <2>3. Cardinality(Holders') = Cardinality(Holders) - 1
    BY <2>2, HoldersStep DEF Bit
  <2>4. Len(resources') = Len(resources) + 1  BY <1>1, <1>2, <2>2 DEF Send
  <2> QED
    BY <1>1, <1>2, <1>3, <1>15, <2>3, <2>4 DEF ReturnToken, ToTake, ToAdd, resizerVars, scanVars, Bit
<1>16. ASSUME NEW c \in Clients, PutSend(c)
      PROVE  Len(resources') + Cardinality(Holders') + Bit(spc' = "send")
               = capacity' + ToTake(r0)' - ToAdd(r0)'
  <2>1. CanSend
    BY <1>16, RoomForHolder DEF PutSend, Client, HolderHasRoom, Holders, At
  <2>2. Client(c, "putting", "counting", Nil) /\ Send(cwrap[c])
    BY <1>16, <2>1 DEF PutSend, CanSend
  <2>3. Cardinality(Holders') = Cardinality(Holders) - 1
    BY <2>2, HoldersStep DEF Bit
  <2>4. Len(resources') = Len(resources) + 1  BY <1>1, <1>2, <2>2 DEF Send
  <2> QED
    BY <1>1, <1>2, <1>3, <1>16, <2>3, <2>4 DEF PutSend, ToTake, ToAdd, resizerVars, scanVars, Bit
<1>17. ASSUME NEW r \in Resizers, SetCapacity(r) \/ Close(r) \/ StopTimer(r) \/ SwapCapacity(r)
      PROVE  Len(resources') + Cardinality(Holders') + Bit(spc' = "send")
               = capacity' + ToTake(r0)' - ToAdd(r0)'
  <2>1. Holders' = Holders
    BY <1>17 DEF SetCapacity, Close, StopTimer, SwapCapacity, clientVars, Holders, At
  <2>2. resources' = resources /\ spc' = spc
    BY <1>17 DEF SetCapacity, Close, StopTimer, SwapCapacity, scanVars
  <2>3. capacity' + ToTake(r0)' - ToAdd(r0)' = capacity + ToTake(r0) - ToAdd(r0)
    <3>1. /\ rpc \in [Resizers -> ResizerPC] /\ left \in [Resizers -> 0..MaxCap]
          /\ target[r0] \in Int /\ r = r0
      BY <1>0, CapAssumption DEF Control, TypeOK
    <3>2. CASE SetCapacity(r)
      BY <1>2, <3>1, <3>2 DEF SetCapacity, Resizer, ToTake, ToAdd
    <3>3. CASE Close(r)
      BY <1>2, <3>1, <3>3 DEF Close, Resizer, ToTake, ToAdd
    <3>4. CASE StopTimer(r)
      BY <1>2, <3>1, <3>4 DEF StopTimer, Resizer, ToTake, ToAdd
    <3>5. CASE SwapCapacity(r)
      BY <1>2, <3>1, <3>5 DEF SwapCapacity, Resizer, ToTake, ToAdd
    <3> QED  BY <1>17, <3>2, <3>3, <3>4, <3>5
  <2> QED  BY <1>3, <2>1, <2>2, <2>3
<1>18. ASSUME NEW r \in Resizers,
             ShrinkReceive(r) \/ ShrinkCount(r) \/ ExpandSend(r) \/ ExpandCount(r) \/ CloseChannel(r)
      PROVE  Len(resources') + Cardinality(Holders') + Bit(spc' = "send")
               = capacity' + ToTake(r0)' - ToAdd(r0)'
  <2>1. Holders' = Holders /\ r = r0
    BY <1>0, <1>18 DEF ShrinkReceive, ShrinkCount, ExpandSend, ExpandCount, CloseChannel,
       clientVars, Holders, At
  <2>2. rpc \in [Resizers -> ResizerPC] /\ left \in [Resizers -> 0..MaxCap] /\ MaxCap \in Nat
    BY CapAssumption DEF Control, TypeOK
  <2>3. /\ rpc[r0] \in {"shrink", "shrunk", "expand", "expanded", "close"} => ~chanClosed
        /\ rpc[r0] \in {"shrunk", "expanded"} => left[r0] > 0
    BY <1>0 DEF Control, ClosedShape, ResizerShape
  <2>s. spc' = spc /\ capacity' = capacity
    BY <1>18 DEF ShrinkReceive, ShrinkCount, ExpandSend, ExpandCount, CloseChannel, scanVars
  <2>m. left[r0] \in Nat /\ Cardinality(Holders) \in Nat /\ Len(resources) \in Nat
        /\ capacity \in Nat /\ Bit(spc = "send") \in Nat
    BY <1>0, <1>1, <1>2, <2>2, CapAssumption DEF Control, TypeOK, Bit
  <2>b. Bit(spc' = "send") = Bit(spc = "send") /\ Cardinality(Holders') = Cardinality(Holders)
    BY <2>1, <2>s
  <2>4. CASE ShrinkReceive(r)
    <3>1. rpc[r0] = "shrink" /\ rpc'[r0] = "shrunk" /\ left' = left
      BY <2>1, <2>2, <2>4 DEF ShrinkReceive, Resizer
    <3>2. Len(resources') = Len(resources) - 1
      BY <1>1, <2>3, <2>4, <3>1 DEF ShrinkReceive, Receive, ReceiveClosed
    <3>3. ToTake(r0) = left[r0] /\ ToTake(r0)' = left[r0] - 1 /\ ToAdd(r0) = 0 /\ ToAdd(r0)' = 0
      BY <3>1 DEF ToTake, ToAdd
    <3> QED  BY <1>3, <2>b, <2>s, <2>m, <3>2, <3>3, SMTT(30)
  <2>5. CASE ShrinkCount(r)
    <3>1. /\ rpc[r0] = "shrunk" /\ left'[r0] = left[r0] - 1 /\ resources' = resources
          /\ rpc'[r0] = "shrink" \/ (rpc'[r0] \in {"idle", "close"} /\ left[r0] - 1 = 0)
      BY <2>1, <2>2, <2>3, <2>5 DEF ShrinkCount, AfterLoop, Resizer
    <3>2. ToTake(r0) = left[r0] - 1 /\ ToTake(r0)' = left[r0] - 1 /\ ToAdd(r0) = 0 /\ ToAdd(r0)' = 0
      BY <3>1 DEF ToTake, ToAdd
    <3> QED  BY <1>3, <2>b, <2>s, <3>1, <3>2
  <2>6. CASE ExpandSend(r)
    <3>1. rpc[r0] = "expand" /\ rpc'[r0] = "expanded" /\ left' = left
      BY <2>1, <2>2, <2>3, <2>6 DEF ExpandSend, Resizer
    <3>2. Len(resources') = Len(resources) + 1
      BY <1>1, <1>2, <2>3, <2>6, <3>1 DEF ExpandSend, Send
    <3>3. ToAdd(r0) = left[r0] /\ ToAdd(r0)' = left[r0] - 1 /\ ToTake(r0) = 0 /\ ToTake(r0)' = 0
      BY <3>1 DEF ToTake, ToAdd
    <3>4. Len(resources) + Cardinality(Holders) + Bit(spc = "send") = capacity + 0 - left[r0]
      BY <1>3, <3>3
    <3>5. capacity' + ToTake(r0)' - ToAdd(r0)' = capacity + 0 - (left[r0] - 1)
      BY <2>s, <3>3
    <3>6. Len(resources') + Cardinality(Holders') + Bit(spc' = "send")
            = (Len(resources) + Cardinality(Holders) + Bit(spc = "send")) + 1
      BY <2>b, <2>m, <3>2
    <3> QED  BY <2>m, <3>4, <3>5, <3>6, SMTT(30)
  <2>7. CASE ExpandCount(r)
    <3>1. /\ rpc[r0] = "expanded" /\ left'[r0] = left[r0] - 1 /\ resources' = resources
          /\ rpc'[r0] = "expand" \/ (rpc'[r0] \in {"idle", "close"} /\ left[r0] - 1 = 0)
      BY <2>1, <2>2, <2>3, <2>7 DEF ExpandCount, AfterLoop, Resizer
    <3>2. ToAdd(r0) = left[r0] - 1 /\ ToAdd(r0)' = left[r0] - 1 /\ ToTake(r0) = 0 /\ ToTake(r0)' = 0
      BY <3>1 DEF ToTake, ToAdd
    <3> QED  BY <1>3, <2>b, <2>s, <3>1, <3>2
  <2>8. CASE CloseChannel(r)
    <3>1. rpc[r0] = "close" /\ rpc'[r0] = "idle" /\ resources' = resources
      BY <2>1, <2>2, <2>8 DEF CloseChannel, Resizer
    <3>2. ToTake(r0) = 0 /\ ToTake(r0)' = 0 /\ ToAdd(r0) = 0 /\ ToAdd(r0)' = 0
      BY <3>1 DEF ToTake, ToAdd
    <3> QED  BY <1>3, <2>b, <2>s, <3>1, <3>2
  <2> QED  BY <1>18, <2>4, <2>5, <2>6, <2>7, <2>8
<1>19. ASSUME closeIdleResources
      PROVE  Len(resources') + Cardinality(Holders') + Bit(spc' = "send")
               = capacity' + ToTake(r0)' - ToAdd(r0)'
  <2>1. Holders' = Holders /\ capacity' = capacity /\ ToTake(r0)' = ToTake(r0) /\ ToAdd(r0)' = ToAdd(r0)
    BY <1>19 DEF closeIdleResources, ScanStart, ScanReceive, ScanSend, clientVars, resizerVars,
       Holders, At, ToTake, ToAdd
  <2>2. spc # "sleep" => ~chanClosed
    BY DEF Control, ClosedShape, TimerShape
  <2>3. CASE ScanStart
    BY <1>1, <1>2, <1>3, <2>1, <2>3 DEF ScanStart, Bit
  <2>4. CASE ScanReceive
    <3>1. \/ Len(resources') = Len(resources) - 1 /\ spc = "scan" /\ spc' = "send"
          \/ resources' = resources /\ spc = "scan" /\ spc' = "sleep"
      BY <1>1, <2>2, <2>4 DEF ScanReceive, Receive, ReceiveClosed
    <3> QED  BY <1>1, <1>2, <1>3, <2>1, <3>1 DEF Bit
  <2>5. CASE ScanSend
    <3>1. Len(resources') = Len(resources) + 1 /\ spc = "send" /\ spc' \in {"sleep", "scan"}
      BY <1>1, <1>2, <2>2, <2>5 DEF ScanSend, Send
    <3> QED  BY <1>1, <1>2, <1>3, <2>1, <3>1 DEF Bit
  <2> QED  BY <1>19, <2>3, <2>4, <2>5 DEF closeIdleResources
<1> QED
  BY <1>5, <1>6, <1>7, <1>8, <1>9, <1>10, <1>11, <1>12, <1>13, <1>14, <1>15, <1>16, <1>17, <1>18, <1>19, Zenon
     DEF Next, Get, Put, Resize, Fetch
-----------------------------------------------------------------------------
(* Every step preserves OneOwner                                           *)

\* What client c owns, and what a client at place p with wrapper w owns.
Had(c) == IF c \in Owners THEN {cwrap[c]} ELSE {}
Has(p, w) == IF p \in {"got", "using", "putting"} THEN {w} \ {Nil} ELSE {}

\* How a client's move changes what is lent out: what it had is replaced by
\* what it has, and nobody else is concerned.
LEMMA LentStep ==
    ASSUME Control, OneOwner,
           NEW c \in Clients, NEW from, NEW to, NEW w \in Wrappers, Client(c, from, to, w),
           Has(to, w) \cap LentOut \subseteq Had(c)
    PROVE  /\ LentOut' = (LentOut \ Had(c)) \cup Has(to, w)
           /\ (\A d, e \in Owners : cwrap[d] = cwrap[e] => d = e)'
<1>1. /\ cpc \in [Clients -> ClientPC] /\ cwrap \in [Clients -> Wrappers]
      /\ cpc' = [cpc EXCEPT ![c] = to] /\ cwrap' = [cwrap EXCEPT ![c] = w]
      /\ \A d, e \in Owners : cwrap[d] = cwrap[e] => d = e
  BY DEF Control, TypeOK, Client, OneOwner
<1>2. \A d \in Clients \ {c} : (d \in Owners' <=> d \in Owners) /\ cwrap'[d] = cwrap[d]
  BY <1>1 DEF Owners, At
<1>3. /\ cwrap'[c] = w
      /\ c \in Owners' <=> to \in {"got", "using", "putting"} /\ w # Nil
  BY <1>1 DEF Owners, At
<1>4. Owners \subseteq Clients /\ Owners' \subseteq Clients  BY DEF Owners, At
<1>5. LentOut \ Had(c) = {cwrap[d] : d \in Owners \ {c}}
  BY <1>1, <1>4 DEF LentOut, Had
<1>6. LentOut' = {cwrap[d] : d \in Owners \ {c}} \cup Has(to, w)
  <2>1. LentOut' = {cwrap'[d] : d \in Owners'}  BY DEF LentOut
  <2>2. CASE c \in Owners'  BY <1>2, <1>3, <1>4, <2>1, <2>2 DEF Has
  <2>3. CASE c \notin Owners'  BY <1>2, <1>3, <1>4, <2>1, <2>3 DEF Has
  <2> QED  BY <2>2, <2>3
<1>7. ASSUME NEW d \in Owners', NEW e \in Owners', cwrap'[d] = cwrap'[e] PROVE d = e
  <2>1. CASE d # c /\ e # c  BY <1>1, <1>2, <1>4, <1>7, <2>1
  <2>2. CASE d = c /\ e # c  BY <1>2, <1>3, <1>4, <1>5, <1>7, <2>2 DEF Has
  <2>3. CASE d # c /\ e = c  BY <1>2, <1>3, <1>4, <1>5, <1>7, <2>3 DEF Has
  <2> QED  BY <2>1, <2>2, <2>3
<1> QED  BY <1>5, <1>6, <1>7

\* A client that owns the same resource, or none, before and after its move
\* changes nothing.
LEMMA LentSame ==
    ASSUME Control, OneOwner,
           NEW c \in Clients, NEW from, NEW to, NEW w \in Wrappers, Client(c, from, to, w),
           Has(to, w) = Had(c)
    PROVE  /\ LentOut' = LentOut
           /\ (\A d, e \in Owners : cwrap[d] = cwrap[e] => d = e)'
<1>1. Had(c) \subseteq LentOut  BY DEF Had, LentOut
<1>2. /\ LentOut' = (LentOut \ Had(c)) \cup Has(to, w)
      /\ (\A d, e \in Owners : cwrap[d] = cwrap[e] => d = e)'
  BY LentStep
<1> QED  BY <1>1, <1>2

\* Every step leaves each resource in one place.
LEMMA OwnerStep ==
    ASSUME IInv, Next
    PROVE  OneOwner'
<1> USE DEF IInv
<1>1. /\ resources \in Seq(Wrappers) /\ swrap \in Wrappers /\ Nil \in Wrappers
      /\ \A c \in Clients : cwrap[c] \in Wrappers
  BY DEF Control, TypeOK, Wrappers
<1>2. /\ Distinct(resources)
      /\ \A c, d \in Owners : cwrap[c] = cwrap[d] => c = d
      /\ Pooled \cap LentOut = {}
      /\ Scanned \cap (Pooled \cup LentOut) = {}
      /\ open = Pooled \cup LentOut \cup Scanned
  BY DEF OneOwner, Distinct
<1>3. SUFFICES /\ Distinct(resources')
               /\ (\A c, d \in Owners : cwrap[c] = cwrap[d] => c = d)'
               /\ Pooled' \cap LentOut' = {}
               /\ Scanned' \cap (Pooled' \cup LentOut') = {}
               /\ open' = Pooled' \cup LentOut' \cup Scanned'
  BY DEF OneOwner, Distinct
<1> DEFINE Goal == /\ Distinct(resources')
                   /\ (\A c, d \in Owners : cwrap[c] = cwrap[d] => c = d)'
                   /\ Pooled' \cap LentOut' = {}
                   /\ Scanned' \cap (Pooled' \cup LentOut') = {}
                   /\ open' = Pooled' \cup LentOut' \cup Scanned'
\* A receive moves the head out of Pooled; a send moves a wrapper into it.
<1>4. ASSUME Receive
      PROVE  /\ Distinct(resources') /\ Head(resources) \in Wrappers
             /\ Pooled' = Pooled \ {Head(resources)}
             /\ Head(resources) # Nil => Head(resources) \in Pooled
  BY <1>1, <1>2, <1>4, ReceiveEffect DEF Receive, Pooled
<1>5. ASSUME NEW w \in Wrappers, Send(w), w \notin Pooled
      PROVE  Distinct(resources') /\ Pooled' = Pooled \cup ({w} \ {Nil})
  BY <1>1, <1>2, <1>5, SendEffect DEF Send, Pooled
<1>6. ASSUME UNCHANGED resources PROVE Distinct(resources') /\ Pooled' = Pooled
  BY <1>2, <1>6 DEF Pooled
<1>7. ASSUME UNCHANGED clientVars
      PROVE  LentOut' = LentOut /\ (\A c, d \in Owners : cwrap[c] = cwrap[d] => c = d)'
  BY <1>2, <1>7 DEF clientVars, LentOut, Owners, At
<1>8. ASSUME UNCHANGED scanVars PROVE Scanned' = Scanned
  BY <1>8 DEF scanVars, Scanned
<1>9. ASSUME NEW c \in Clients
      PROVE  /\ cpc[c] \in {"got", "using", "putting"} /\ cwrap[c] # Nil
                  <=> c \in Owners
             /\ c \in Owners => cwrap[c] \in LentOut
  BY DEF Owners, At, LentOut
<1>10. ASSUME NEW c \in Clients, Fetch(c) PROVE Goal
  <2>1. c \notin Owners  BY <1>10, <1>9 DEF Fetch
  <2>2. CASE Receive
    <3>1. PICK from \in {"idle", "waiting"}, to \in {"unwrap", "got"} :
            /\ Client(c, from, to, Head(resources))
            /\ to = "unwrap" <=> Head(resources) = Nil
      BY <1>10, <2>2 DEF Fetch, Receive, ReceiveClosed
    <3>2. CASE Head(resources) = Nil
      <4>1. LentOut' = LentOut /\ (\A d, e \in Owners : cwrap[d] = cwrap[e] => d = e)'
        <5>1. Has(to, Head(resources)) = Had(c)  BY <1>4, <2>1, <2>2, <3>1, <3>2 DEF Has, Had
        <5> QED  BY <1>4, <2>1, <2>2, <3>1, <3>2, <5>1, LentSame
      <4> QED  BY <1>2, <1>4, <1>8, <1>10, <2>2, <3>2, <4>1 DEF Fetch, Pooled
    <3>3. CASE Head(resources) # Nil
      <4>1. /\ LentOut' = LentOut \cup {Head(resources)}
            /\ (\A d, e \in Owners : cwrap[d] = cwrap[e] => d = e)'
        <5>1. Had(c) = {} /\ Has(to, Head(resources)) = {Head(resources)}
          BY <2>1, <3>1, <3>3 DEF Had, Has
        <5>2. Has(to, Head(resources)) \cap LentOut \subseteq Had(c) /\ Head(resources) \in Wrappers
          BY <1>2, <1>4, <2>2, <3>3, <5>1
        <5>3. /\ LentOut' = (LentOut \ Had(c)) \cup Has(to, Head(resources))
              /\ (\A d, e \in Owners : cwrap[d] = cwrap[e] => d = e)'
          BY <3>1, <5>2, LentStep
        <5> QED  BY <5>1, <5>3
      <4> QED  BY <1>2, <1>4, <1>8, <1>10, <2>2, <3>3, <4>1 DEF Fetch
    <3> QED  BY <3>2, <3>3
  <2>3. CASE ReceiveClosed
    <3>1. PICK from : Client(c, from, "idle", Nil)
      BY <1>10, <2>3 DEF Fetch, Receive, ReceiveClosed
    <3>2. LentOut' = LentOut /\ (\A d, e \in Owners : cwrap[d] = cwrap[e] => d = e)'
      <4>1. Has("idle", Nil) = Had(c)  BY <1>1, <2>1, <3>1 DEF Has, Had
      <4> QED  BY <1>1, <2>1, <3>1, <4>1, LentSame
    <3> QED  BY <1>2, <1>6, <1>8, <1>10, <2>3, <3>2 DEF Fetch, ReceiveClosed
  <2> QED  BY <1>10, <2>2, <2>3 DEF Fetch
<1>11. ASSUME NEW c \in Clients, Wait(c) PROVE Goal
  <2>1. Client(c, "idle", "waiting", Nil) /\ c \notin Owners  BY <1>11, <1>9 DEF Wait, Client
  <2>2. LentOut' = LentOut /\ (\A d, e \in Owners : cwrap[d] = cwrap[e] => d = e)'
    <3>1. Has("waiting", Nil) = Had(c)  BY <1>1, <2>1 DEF Has, Had
    <3> QED  BY <1>1, <2>1, <3>1, LentSame
  <2> QED  BY <1>2, <1>6, <1>8, <1>11, <2>2 DEF Wait
<1>12. ASSUME NEW c \in Clients, GetTimeout(c) PROVE Goal
  <2>1. Client(c, "waiting", "idle", Nil) /\ c \notin Owners  BY <1>12, <1>9 DEF GetTimeout, Client
  <2>2. LentOut' = LentOut /\ (\A d, e \in Owners : cwrap[d] = cwrap[e] => d = e)'
    <3>1. Has("idle", Nil) = Had(c)  BY <1>1, <2>1 DEF Has, Had
    <3> QED  BY <1>1, <2>1, <3>1, LentSame
  <2> QED  BY <1>2, <1>6, <1>8, <1>12, <2>2 DEF GetTimeout
<1>13. ASSUME NEW c \in Clients, FactoryError(c) PROVE Goal
  <2>1. Client(c, "unwrap", "failed", Nil) /\ c \notin Owners  BY <1>13, <1>9 DEF FactoryError, Client
  <2>2. LentOut' = LentOut /\ (\A d, e \in Owners : cwrap[d] = cwrap[e] => d = e)'
    <3>1. Has("failed", Nil) = Had(c)  BY <1>1, <2>1 DEF Has, Had
    <3> QED  BY <1>1, <2>1, <3>1, LentSame
  <2> QED  BY <1>2, <1>6, <1>8, <1>13, <2>2 DEF FactoryError
<1>14. ASSUME NEW c \in Clients, PutDone(c) PROVE Goal
  <2>1. Client(c, "counting", "idle", Nil) /\ c \notin Owners  BY <1>14, <1>9 DEF PutDone, Client
  <2>2. LentOut' = LentOut /\ (\A d, e \in Owners : cwrap[d] = cwrap[e] => d = e)'
    <3>1. Has("idle", Nil) = Had(c)  BY <1>1, <2>1 DEF Has, Had
    <3> QED  BY <1>1, <2>1, <3>1, LentSame
  <2> QED  BY <1>2, <1>6, <1>8, <1>14, <2>2 DEF PutDone
<1>15. ASSUME NEW c \in Clients, GetDone(c) PROVE Goal
  <2>1. Client(c, "got", "using", cwrap[c]) /\ c \in Owners /\ cwrap[c] # Nil
    BY <1>15, <1>9 DEF GetDone, Client, Control, ClientShape
  <2>2. LentOut' = LentOut /\ (\A d, e \in Owners : cwrap[d] = cwrap[e] => d = e)'
    <3>1. Has("using", cwrap[c]) = Had(c)  BY <1>1, <1>9, <2>1 DEF Has, Had
    <3> QED  BY <1>1, <1>9, <2>1, <3>1, LentSame
  <2> QED  BY <1>2, <1>6, <1>8, <1>15, <2>2 DEF GetDone
<1>16. ASSUME NEW c \in Clients, PutResource(c) PROVE Goal
  <2>1. Client(c, "using", "putting", cwrap[c]) /\ c \in Owners /\ cwrap[c] # Nil
    BY <1>16, <1>9 DEF PutResource, Client, Control, ClientShape
  <2>2. LentOut' = LentOut /\ (\A d, e \in Owners : cwrap[d] = cwrap[e] => d = e)'
    <3>1. Has("putting", cwrap[c]) = Had(c)  BY <1>1, <1>9, <2>1 DEF Has, Had
    <3> QED  BY <1>1, <1>9, <2>1, <3>1, LentSame
  <2> QED  BY <1>2, <1>6, <1>8, <1>16, <2>2 DEF PutResource
<1>17. ASSUME NEW c \in Clients, FactoryOK(c) PROVE Goal
  <2>1. PICK res \in Resources \ open :
          Client(c, "unwrap", "got", res) /\ open' = open \cup {res}
    BY <1>17 DEF FactoryOK
  <2>2. c \notin Owners /\ res \in Wrappers /\ res # Nil
    BY <1>9, <2>1, IdentityAssumption DEF Client, Wrappers
  <2>3. LentOut' = LentOut \cup {res} /\ (\A d, e \in Owners : cwrap[d] = cwrap[e] => d = e)'
    <3>1. Had(c) = {} /\ Has("got", res) = {res}  BY <2>2 DEF Had, Has
    <3>2. Has("got", res) \cap LentOut \subseteq Had(c)  BY <1>2, <2>1, <3>1
    <3>3. /\ LentOut' = (LentOut \ Had(c)) \cup Has("got", res)
          /\ (\A d, e \in Owners : cwrap[d] = cwrap[e] => d = e)'
      BY <2>1, <2>2, <3>2, LentStep
    <3> QED  BY <3>1, <3>3
  <2> QED  BY <1>2, <1>6, <1>8, <1>17, <2>1, <2>3 DEF FactoryOK
<1>18. ASSUME NEW c \in Clients, PutNil(c) PROVE Goal
  <2>1. Client(c, "using", "putting", Nil) /\ c \in Owners /\ open' = open \ {cwrap[c]}
    BY <1>18, <1>9 DEF PutNil, Client, Control, ClientShape
  <2>2. LentOut' = LentOut \ {cwrap[c]} /\ (\A d, e \in Owners : cwrap[d] = cwrap[e] => d = e)'
    <3>1. Had(c) = {cwrap[c]} /\ Has("putting", Nil) = {}  BY <2>1 DEF Had, Has
    <3>2. Has("putting", Nil) \cap LentOut \subseteq Had(c)  BY <3>1
    <3>3. /\ LentOut' = (LentOut \ Had(c)) \cup Has("putting", Nil)
          /\ (\A d, e \in Owners : cwrap[d] = cwrap[e] => d = e)'
      BY <1>1, <2>1, <3>2, LentStep
    <3> QED  BY <3>1, <3>3
  <2> QED  BY <1>2, <1>6, <1>8, <1>9, <1>18, <2>1, <2>2, SMTT(20) DEF PutNil
<1>19. ASSUME NEW c \in Clients, ReturnToken(c) PROVE Goal
  <2>1. CanSend
    BY <1>19, RoomForHolder DEF ReturnToken, Client, HolderHasRoom, Holders, At
  <2>2. Client(c, "failed", "idle", Nil) /\ Send(Nil) /\ c \notin Owners
    BY <1>19, <1>9, <2>1 DEF ReturnToken, CanSend, Client
  <2>3. LentOut' = LentOut /\ (\A d, e \in Owners : cwrap[d] = cwrap[e] => d = e)'
    <3>1. Has("idle", Nil) = Had(c)  BY <1>1, <2>2 DEF Has, Had
    <3> QED  BY <1>1, <2>2, <3>1, LentSame
  <2>4. Nil \notin Pooled  BY DEF Pooled
  <2> QED  BY <1>1, <1>2, <1>5, <1>8, <1>19, <2>2, <2>3, <2>4 DEF ReturnToken
<1>20. ASSUME NEW c \in Clients, PutSend(c) PROVE Goal
  <2>1. CanSend
    BY <1>20, RoomForHolder DEF PutSend, Client, HolderHasRoom, Holders, At
  <2>2. Client(c, "putting", "counting", Nil) /\ Send(cwrap[c]) /\ cpc[c] = "putting"
    BY <1>20, <2>1 DEF PutSend, CanSend, Client
  <2>3. cwrap[c] \notin Pooled
    BY <1>2, <1>9, <2>2 DEF Pooled
  <2>4. Distinct(resources') /\ Pooled' = Pooled \cup ({cwrap[c]} \ {Nil})
    BY <1>1, <1>5, <2>2, <2>3
  <2>5. /\ LentOut' = LentOut \ ({cwrap[c]} \ {Nil})
        /\ (\A d, e \in Owners : cwrap[d] = cwrap[e] => d = e)'
    <3>1. Had(c) = {cwrap[c]} \ {Nil} /\ Has("counting", Nil) = {}
      BY <1>9, <2>2 DEF Had, Has
    <3>2. Has("counting", Nil) \cap LentOut \subseteq Had(c)  BY <3>1
    <3>3. /\ LentOut' = (LentOut \ Had(c)) \cup Has("counting", Nil)
          /\ (\A d, e \in Owners : cwrap[d] = cwrap[e] => d = e)'
      BY <1>1, <2>2, <3>2, LentStep
    <3> QED  BY <3>1, <3>3
  <2>6. {cwrap[c]} \ {Nil} \subseteq LentOut  BY <1>9, <2>2
  <2> QED  BY <1>2, <1>8, <1>20, <2>4, <2>5, <2>6, Zenon DEF PutSend
<1>21. ASSUME NEW r \in Resizers,
             SetCapacity(r) \/ Close(r) \/ StopTimer(r) \/ SwapCapacity(r) \/ ShrinkCount(r)
             \/ ExpandCount(r) \/ CloseChannel(r)
       PROVE Goal
  <2>1. UNCHANGED <<resources, open, swrap>> /\ UNCHANGED clientVars
    BY <1>21 DEF SetCapacity, Close, StopTimer, SwapCapacity, ShrinkCount, ExpandCount,
       CloseChannel, scanVars
  <2> QED  BY <1>2, <1>6, <1>7, <2>1 DEF Scanned
<1>22. ASSUME NEW r \in Resizers, ShrinkReceive(r) PROVE Goal
  <2>1. CASE Receive
    <3>1. open' = open \ {Head(resources)} /\ UNCHANGED clientVars /\ UNCHANGED scanVars
      BY <1>22, <2>1 DEF ShrinkReceive, Receive, ReceiveClosed
    <3>2. Head(resources) \notin LentOut \cup Scanned
      <4>1. Nil \notin LentOut \cup Scanned  BY DEF LentOut, Owners, Scanned
      <4> QED  BY <1>2, <1>4, <2>1, <4>1
    <3> QED  BY <1>2, <1>4, <1>7, <1>8, <2>1, <3>1, <3>2
  <2>2. CASE ReceiveClosed
    <3>1. UNCHANGED <<resources, open>> /\ UNCHANGED clientVars /\ UNCHANGED scanVars
      BY <1>22, <2>2 DEF ShrinkReceive, Receive, ReceiveClosed
    <3> QED  BY <1>2, <1>6, <1>7, <1>8, <3>1
  <2> QED  BY <1>22, <2>1, <2>2 DEF ShrinkReceive
<1>23. ASSUME NEW r \in Resizers, ExpandSend(r) PROVE Goal
  <2>1. UNCHANGED open /\ UNCHANGED clientVars /\ UNCHANGED scanVars
    BY <1>23 DEF ExpandSend
  <2>2. Send(Nil) \/ UNCHANGED resources  BY <1>23 DEF ExpandSend
  <2>3. Nil \notin Pooled  BY DEF Pooled
  <2>4. Distinct(resources') /\ Pooled' = Pooled
    <3>1. CASE Send(Nil)
      <4>1. Distinct(resources') /\ Pooled' = Pooled \cup ({Nil} \ {Nil})
        BY <1>1, <1>5, <2>3, <3>1
      <4> QED  BY <4>1
    <3>2. CASE UNCHANGED resources  BY <1>6, <3>2
    <3> QED  BY <2>2, <3>1, <3>2
  <2> QED  BY <1>2, <1>7, <1>8, <2>1, <2>4
<1>24. ASSUME ScanStart PROVE Goal
  <2>1. UNCHANGED <<resources, open, swrap>> /\ UNCHANGED clientVars
    BY <1>24 DEF ScanStart
  <2> QED  BY <1>2, <1>6, <1>7, <2>1 DEF Scanned
<1>25. ASSUME ScanReceive PROVE Goal
  <2>1. UNCHANGED clientVars /\ Scanned = {}
    BY <1>25 DEF ScanReceive, Scanned, Control, TimerShape
  <2>2. CASE Receive
    <3>1. Head(resources) \notin LentOut
      <4>1. Nil \notin LentOut  BY DEF LentOut, Owners
      <4> QED  BY <1>2, <1>4, <2>2, <4>1
    <3>2. \/ swrap' = Head(resources) /\ open' = open
          \/ swrap' = Nil /\ open' = open \ {Head(resources)}
      BY <1>25, <2>2 DEF ScanReceive, Receive, ReceiveClosed
    <3>3. Scanned' = {swrap'} \ {Nil}  BY DEF Scanned
    <3>4. CASE swrap' = Head(resources) /\ open' = open
      <4>1. Pooled' = Pooled \ {Head(resources)} /\ Nil \notin Pooled
        BY <1>4, <2>2 DEF Pooled
      <4>2. Pooled' \cup Scanned' = Pooled /\ Pooled' \cap Scanned' = {}
        BY <1>4, <2>2, <3>3, <3>4, <4>1
      <4>3. LentOut' = LentOut  BY <1>7, <2>1
      <4> QED  BY <1>2, <1>4, <1>7, <2>1, <2>2, <3>4, <4>2, <4>3
    <3>5. CASE swrap' = Nil /\ open' = open \ {Head(resources)}
      BY <1>2, <1>4, <1>7, <2>1, <2>2, <3>1, <3>3, <3>5
    <3> QED  BY <3>2, <3>4, <3>5
  <2>3. CASE ~Receive
    <3>1. UNCHANGED <<resources, open, swrap>>
      BY <1>25, <2>3 DEF ScanReceive, ReceiveClosed
    <3> QED  BY <1>2, <1>6, <1>7, <2>1, <3>1 DEF Scanned
  <2> QED  BY <2>2, <2>3
<1>26. ASSUME ScanSend PROVE Goal
  <2>1. CanSend  BY <1>26, RoomForHolder DEF ScanSend, HolderHasRoom
  <2>2. Send(swrap) /\ swrap' = Nil /\ open' = open /\ UNCHANGED clientVars
    BY <1>26, <2>1 DEF ScanSend, CanSend
  <2>3. swrap \notin Pooled  BY <1>2 DEF Pooled, Scanned
  <2>4. Distinct(resources') /\ Pooled' = Pooled \cup Scanned /\ Scanned' = {}
    BY <1>1, <1>5, <2>2, <2>3 DEF Scanned
  <2> QED  BY <1>2, <1>7, <2>2, <2>4
<1> QED
  BY <1>10, <1>11, <1>12, <1>13, <1>14, <1>15, <1>16, <1>17, <1>18, <1>19, <1>20, <1>21, <1>22,
     <1>23, <1>24, <1>25, <1>26, Zenon
     DEF Next, Get, Put, Resize, closeIdleResources
-----------------------------------------------------------------------------
(* Every step preserves CountersExact                                      *)

\* How a client's move changes the two sums the counters are compared with.
LEMMA CountStep ==
    ASSUME Control, NEW c \in Clients, NEW from, NEW to, NEW w, Client(c, from, to, w)
    PROVE  /\ Cardinality(At({"using", "putting", "counting"})') =
                Cardinality(At({"using", "putting", "counting"}))
                - Bit(from \in {"using", "putting", "counting"})
                + Bit(to \in {"using", "putting", "counting"})
           /\ Cardinality(At({"unwrap", "failed", "got"})') =
                Cardinality(At({"unwrap", "failed", "got"}))
                - Bit(from \in {"unwrap", "failed", "got"})
                + Bit(to \in {"unwrap", "failed", "got"})
           /\ Cardinality(At({"counting"})') = Cardinality(At({"counting"}))
                - Bit(from \in {"counting"}) + Bit(to \in {"counting"})
<1>1. cpc \in [Clients -> ClientPC]  BY DEF Control, TypeOK
<1>2. cpc[c] = from /\ cpc' = [cpc EXCEPT ![c] = to]  BY DEF Client
<1>3. Cardinality(At({"using", "putting", "counting"})') = Cardinality(At({"using", "putting", "counting"}))
        - Bit(from \in {"using", "putting", "counting"}) + Bit(to \in {"using", "putting", "counting"})
  BY <1>1, <1>2, AtStep, Zenon
<1>4. Cardinality(At({"unwrap", "failed", "got"})') = Cardinality(At({"unwrap", "failed", "got"}))
        - Bit(from \in {"unwrap", "failed", "got"}) + Bit(to \in {"unwrap", "failed", "got"})
  BY <1>1, <1>2, AtStep, Zenon
<1>5. Cardinality(At({"counting"})') = Cardinality(At({"counting"}))
        - Bit(from \in {"counting"}) + Bit(to \in {"counting"})
  BY <1>1, <1>2, AtStep, Zenon
<1> QED  BY <1>3, <1>4, <1>5

\* Opening a new resource and closing an open one move active with open.
LEMMA ActiveStep ==
    ASSUME Control, active = Cardinality(open), NEW res
    PROVE  /\ res \notin open => active + 1 = Cardinality(open \cup {res})
           /\ res \in open => active - 1 = Cardinality(open \ {res})
           /\ res \notin open => open \ {res} = open
<1>1. IsFiniteSet(open) /\ Cardinality(open) \in Nat
  BY FS_Subset, FS_CardinalityType, IdentityAssumption DEF Control, TypeOK
<1>2. ASSUME res \notin open PROVE active + 1 = Cardinality(open \cup {res})
  BY <1>1, <1>2, FS_AddElement
<1>3. ASSUME res \in open PROVE active - 1 = Cardinality(open \ {res})
  BY <1>1, <1>3, FS_RemoveElement
<1> QED  BY <1>2, <1>3

\* Every step keeps the counters exact, up to the updates still due.
LEMMA CounterStep ==
    ASSUME IInv, Next
    PROVE  CountersExact'
<1> USE DEF IInv
<1>0. PICK r0 \in Resizers : Resizers = {r0}  BY OneResizer
<1> DEFINE U == Cardinality(At({"using", "putting", "counting"}))
           G == Cardinality(At({"unwrap", "failed", "got"}))
           K == Cardinality(At({"counting"}))
           L == Len(resources)
           S == Bit(spc = "send")
           A == Bit(rpc[r0] = "shrunk")
           E == Bit(rpc[r0] = "expanded")
           Sum == L + S + G - K + A - E
           Goal == active' = Cardinality(open') /\ inUse' = U' /\ available' = Sum'
<1>1. active = Cardinality(open) /\ inUse = U /\ available = Sum
  BY <1>0 DEF CountersExact
<1>2. SUFFICES Goal
  BY <1>0 DEF CountersExact
<1>3. /\ U \in Nat /\ G \in Nat /\ K \in Nat
      /\ resources # <<>> => Len(Tail(resources)) = Len(resources) - 1
      /\ \A w \in Wrappers : Len(Append(resources, w)) = Len(resources) + 1
      /\ Nil \in Wrappers /\ swrap \in Wrappers
      /\ \A c \in Clients : cwrap[c] \in Wrappers
  BY ReceiveEffect, SendEffect, TokenTypes, AtFinite DEF Control, TypeOK, Wrappers
<1>4. /\ rpc \in [Resizers -> ResizerPC] /\ active \in Int /\ inUse \in Int /\ available \in Int
  BY DEF Control, TypeOK
<1>5. ASSUME UNCHANGED clientVars PROVE U' = U /\ G' = G /\ K' = K
  BY <1>5 DEF clientVars, At
<1>a. L \in Int /\ S \in Int /\ A \in Int /\ E \in Int
  BY ReceiveEffect, SendEffect, TokenTypes, AtFinite DEF Bit
<1>d. U \in Int /\ G \in Int /\ K \in Int  BY <1>3
<1>b. ASSUME UNCHANGED <<spc, rpc>> PROVE S' = S /\ A' = A /\ E' = E
  BY <1>b
<1>c. ASSUME UNCHANGED <<resources, spc, rpc, available, active, inUse, open>>,
             U' = U /\ G' = G /\ K' = K
      PROVE  Goal
  <2>1. L' = L /\ S' = S /\ A' = A /\ E' = E  BY <1>b, <1>c
  <2> HIDE DEF U, G, K, L, S, A, E
  <2>y. available' = Sum'  BY <1>1, <1>c, <2>1
  <2>z. active' = Cardinality(open') /\ inUse' = U'  BY <1>1, <1>c, <2>1
  <2> QED  BY <2>y, <2>z
<1>6. ASSUME NEW c \in Clients, Fetch(c) PROVE Goal
  <2>1. UNCHANGED <<spc, rpc, available, active, inUse, open>>
    BY <1>6 DEF Fetch, counters, resizerVars, scanVars
  <2>2. CASE Receive
    <3>1. PICK from \in {"idle", "waiting"}, to \in {"unwrap", "got"} :
            Client(c, from, to, Head(resources))
      BY <1>6, <2>2 DEF Fetch, Receive, ReceiveClosed
    <3>2. U' = U /\ G' = G + 1 /\ K' = K  BY <1>d, <3>1, CountStep, SMTT(20) DEF Bit
    <3>3. L' = L - 1  BY <1>3, <2>2 DEF Receive
    <3>4. S' = S /\ A' = A /\ E' = E  BY <1>b, <2>1
    <3> HIDE DEF U, G, K, L, S, A, E
    <3>y. available' = Sum'  BY <1>1, <1>d, <1>a, <2>1, <3>2, <3>3, <3>4
    <3>z. active' = Cardinality(open') /\ inUse' = U'  BY <1>1, <1>d, <1>a, <2>1, <3>2, <3>3, <3>4
    <3> QED  BY <3>y, <3>z
  <2>3. CASE ReceiveClosed
    <3>1. PICK from \in {"idle", "waiting"} : Client(c, from, "idle", Nil)
      BY <1>6, <2>3 DEF Fetch, Receive, ReceiveClosed
    <3>2. U' = U /\ G' = G /\ K' = K  BY <1>d, <3>1, CountStep, SMTT(20) DEF Bit
    <3>3. resources' = resources  BY <2>3 DEF ReceiveClosed
    <3> QED  BY <1>c, <2>1, <3>2, <3>3
  <2> QED  BY <1>6, <2>2, <2>3 DEF Fetch
<1>7. ASSUME NEW c \in Clients, Wait(c) PROVE Goal
  <2>1. Client(c, "idle", "waiting", Nil)  BY <1>7 DEF Wait
  <2>2. U' = U /\ G' = G /\ K' = K  BY <1>d, <2>1, CountStep, SMTT(20) DEF Bit
  <2>3. UNCHANGED <<resources, spc, rpc, available, active, inUse, open>>
    BY <1>7 DEF Wait, counters, resizerVars, scanVars
  <2> QED  BY <1>c, <2>2, <2>3
<1>8. ASSUME NEW c \in Clients, GetTimeout(c) PROVE Goal
  <2>1. Client(c, "waiting", "idle", Nil)  BY <1>8 DEF GetTimeout
  <2>2. U' = U /\ G' = G /\ K' = K  BY <1>d, <2>1, CountStep, SMTT(20) DEF Bit
  <2>3. UNCHANGED <<resources, spc, rpc, available, active, inUse, open>>
    BY <1>8 DEF GetTimeout, counters, resizerVars, scanVars
  <2> QED  BY <1>c, <2>2, <2>3
<1>9. ASSUME NEW c \in Clients, FactoryError(c) PROVE Goal
  <2>1. Client(c, "unwrap", "failed", Nil)  BY <1>9 DEF FactoryError
  <2>2. U' = U /\ G' = G /\ K' = K  BY <1>d, <2>1, CountStep, SMTT(20) DEF Bit
  <2>3. UNCHANGED <<resources, spc, rpc, available, active, inUse, open>>
    BY <1>9 DEF FactoryError, counters, resizerVars, scanVars
  <2> QED  BY <1>c, <2>2, <2>3
<1>10. ASSUME NEW c \in Clients, PutResource(c) PROVE Goal
  <2>1. Client(c, "using", "putting", cwrap[c])  BY <1>10 DEF PutResource
  <2>2. U' = U /\ G' = G /\ K' = K  BY <1>d, <2>1, CountStep, SMTT(20) DEF Bit
  <2>3. UNCHANGED <<resources, spc, rpc, available, active, inUse, open>>
    BY <1>10 DEF PutResource, counters, resizerVars, scanVars
  <2> QED  BY <1>c, <2>2, <2>3
<1>11. ASSUME NEW c \in Clients, GetDone(c) PROVE Goal
  <2>1. Client(c, "got", "using", cwrap[c])  BY <1>11 DEF GetDone
  <2>2. U' = U + 1 /\ G' = G - 1 /\ K' = K  BY <1>d, <2>1, CountStep, SMTT(20) DEF Bit
  <2>3. /\ UNCHANGED <<resources, active, open, rpc, spc>>
        /\ available' = available - 1 /\ inUse' = inUse + 1
    BY <1>11 DEF GetDone, resizerVars, scanVars
  <2>4. L' = L /\ S' = S /\ A' = A /\ E' = E  BY <1>b, <2>3
  <2> HIDE DEF U, G, K, L, S, A, E
  <2>y. available' = Sum'  BY <1>1, <1>d, <1>4, <1>a, <2>2, <2>3, <2>4
  <2>z. active' = Cardinality(open') /\ inUse' = U'  BY <1>1, <1>d, <1>4, <1>a, <2>2, <2>3, <2>4
  <2> QED  BY <2>y, <2>z
<1>12. ASSUME NEW c \in Clients, PutDone(c) PROVE Goal
  <2>1. Client(c, "counting", "idle", Nil)  BY <1>12 DEF PutDone
  <2>2. U' = U - 1 /\ G' = G /\ K' = K - 1  BY <1>d, <2>1, CountStep, SMTT(20) DEF Bit
  <2>3. /\ UNCHANGED <<resources, active, open, rpc, spc>>
        /\ available' = available + 1 /\ inUse' = inUse - 1
    BY <1>12 DEF PutDone, resizerVars, scanVars
  <2>4. L' = L /\ S' = S /\ A' = A /\ E' = E  BY <1>b, <2>3
  <2> HIDE DEF U, G, K, L, S, A, E
  <2>y. available' = Sum'  BY <1>1, <1>d, <1>4, <1>a, <2>2, <2>3, <2>4
  <2>z. active' = Cardinality(open') /\ inUse' = U'  BY <1>1, <1>d, <1>4, <1>a, <2>2, <2>3, <2>4
  <2> QED  BY <2>y, <2>z
<1>13. ASSUME NEW c \in Clients, FactoryOK(c) PROVE Goal
  <2>1. PICK res \in Resources \ open :
          /\ Client(c, "unwrap", "got", res)
          /\ open' = open \cup {res} /\ active' = active + 1
    BY <1>13 DEF FactoryOK
  <2>2. U' = U /\ G' = G /\ K' = K  BY <1>d, <2>1, CountStep, SMTT(20) DEF Bit
  <2>3. active' = Cardinality(open')  BY <1>1, <2>1, ActiveStep
  <2>4. UNCHANGED <<resources, spc, rpc, available, inUse>>
    BY <1>13 DEF FactoryOK, resizerVars, scanVars
  <2>5. L' = L /\ S' = S /\ A' = A /\ E' = E  BY <1>b, <2>4
  <2> HIDE DEF U, G, K, L, S, A, E
  <2>y. available' = Sum'  BY <1>1, <2>2, <2>3, <2>4, <2>5
  <2>z. active' = Cardinality(open') /\ inUse' = U'  BY <1>1, <2>2, <2>3, <2>4, <2>5
  <2> QED  BY <2>y, <2>z
<1>14. ASSUME NEW c \in Clients, PutNil(c) PROVE Goal
  <2>1. Client(c, "using", "putting", Nil) /\ open' = open \ {cwrap[c]} /\ active' = active - 1
    BY <1>14 DEF PutNil
  <2>2. U' = U /\ G' = G /\ K' = K  BY <1>d, <2>1, CountStep, SMTT(20) DEF Bit
  <2>3. cwrap[c] \in open
    BY <2>1 DEF OneOwner, LentOut, Owners, At, Client, Control, ClientShape
  <2>4. active' = Cardinality(open')  BY <1>1, <2>1, <2>3, ActiveStep
  <2>5. UNCHANGED <<resources, spc, rpc, available, inUse>>
    BY <1>14 DEF PutNil, resizerVars, scanVars
  <2>6. L' = L /\ S' = S /\ A' = A /\ E' = E  BY <1>b, <2>5
  <2> HIDE DEF U, G, K, L, S, A, E
  <2>y. available' = Sum'  BY <1>1, <2>2, <2>4, <2>5, <2>6
  <2>z. active' = Cardinality(open') /\ inUse' = U'  BY <1>1, <2>2, <2>4, <2>5, <2>6
  <2> QED  BY <2>y, <2>z
<1>15. ASSUME NEW c \in Clients, ReturnToken(c) PROVE Goal
  <2>1. CanSend
    BY <1>15, RoomForHolder DEF ReturnToken, Client, HolderHasRoom, Holders, At
  <2>2. Client(c, "failed", "idle", Nil) /\ Send(Nil)
    BY <1>15, <2>1 DEF ReturnToken, CanSend
  <2>3. U' = U /\ G' = G - 1 /\ K' = K  BY <1>d, <2>2, CountStep, SMTT(20) DEF Bit
  <2>4. L' = L + 1  BY <1>3, <2>2 DEF Send
  <2>5. UNCHANGED <<available, active, inUse, open, rpc, spc>>
    BY <1>15 DEF ReturnToken, counters, resizerVars, scanVars
  <2>6. S' = S /\ A' = A /\ E' = E  BY <1>b, <2>5
  <2> HIDE DEF U, G, K, L, S, A, E
  <2>y. available' = Sum'  BY <1>1, <1>d, <1>4, <1>a, <2>3, <2>4, <2>5, <2>6
  <2>z. active' = Cardinality(open') /\ inUse' = U'  BY <1>1, <1>d, <1>4, <1>a, <2>3, <2>4, <2>5, <2>6
  <2> QED  BY <2>y, <2>z
<1>16. ASSUME NEW c \in Clients, PutSend(c) PROVE Goal
  <2>1. CanSend
    BY <1>16, RoomForHolder DEF PutSend, Client, HolderHasRoom, Holders, At
  <2>2. Client(c, "putting", "counting", Nil) /\ Send(cwrap[c])
    BY <1>16, <2>1 DEF PutSend, CanSend
  <2>3. U' = U /\ G' = G /\ K' = K + 1  BY <1>d, <2>2, CountStep, SMTT(20) DEF Bit
  <2>4. L' = L + 1  BY <1>3, <2>2 DEF Send
  <2>5. UNCHANGED <<available, active, inUse, open, rpc, spc>>
    BY <1>16 DEF PutSend, counters, resizerVars, scanVars
  <2>6. S' = S /\ A' = A /\ E' = E  BY <1>b, <2>5
  <2> HIDE DEF U, G, K, L, S, A, E
  <2>y. available' = Sum'  BY <1>1, <1>d, <1>4, <1>a, <2>3, <2>4, <2>5, <2>6
  <2>z. active' = Cardinality(open') /\ inUse' = U'  BY <1>1, <1>d, <1>4, <1>a, <2>3, <2>4, <2>5, <2>6
  <2> QED  BY <2>y, <2>z
<1>17. ASSUME NEW r \in Resizers, Resize(r) PROVE Goal
  <2>1. UNCHANGED clientVars /\ spc' = spc /\ r = r0 /\ inUse' = inUse
    BY <1>0, <1>17, Zenon DEF Resize, SetCapacity, Close, StopTimer, SwapCapacity, ShrinkReceive,
       ShrinkCount, ExpandSend, ExpandCount, CloseChannel, scanVars, counters
  <2>2. U' = U /\ G' = G /\ K' = K  BY <1>5, <2>1
  <2>s. S' = S  BY <2>1
  <2>3. CASE SetCapacity(r) \/ Close(r) \/ StopTimer(r) \/ SwapCapacity(r) \/ CloseChannel(r)
    <3>1. UNCHANGED <<resources, available, active, open>>
      BY <2>3 DEF SetCapacity, Close, StopTimer, SwapCapacity, CloseChannel, counters
    <3>2. A' = A /\ E' = E
      <4>1. PICK from \in {"idle", "stopping", "swap", "close"},
                 to \in {"idle", "stopping", "swap", "shrink", "expand"} :
              rpc[r] = from /\ rpc' = [rpc EXCEPT ![r] = to]
        BY <1>4, <2>1, <2>3 DEF SetCapacity, Close, StopTimer, SwapCapacity, CloseChannel, Resizer
      <4> QED  BY <1>4, <2>1, <4>1 DEF Bit
    <3>3. L' = L  BY <3>1
    <3> HIDE DEF U, G, K, L, S, A, E
    <3>y. available' = Sum'  BY <1>1, <2>1, <2>2, <2>s, <3>1, <3>2, <3>3
    <3>z. active' = Cardinality(open') /\ inUse' = U'  BY <1>1, <2>1, <2>2, <2>s, <3>1, <3>2, <3>3
    <3> QED  BY <3>y, <3>z
  <2>4. CASE ShrinkReceive(r)
    <3>1. Receive
      BY <2>1, <2>4 DEF ShrinkReceive, Resizer, ReceiveClosed, Control, ClosedShape
    <3>2. L' = L - 1  BY <1>3, <3>1 DEF Receive
    <3>3. open' = open \ {Head(resources)}
          /\ active' = active - (IF Head(resources) = Nil THEN 0 ELSE 1)
      BY <2>4, <3>1 DEF ShrinkReceive, Receive, ReceiveClosed
    <3>4. /\ Head(resources) = Nil => Head(resources) \notin open
          /\ Head(resources) # Nil => Head(resources) \in open
      <4>1. resources \in Seq(Wrappers) /\ resources # <<>>
        BY <3>1 DEF Receive, Control, TypeOK
      <4>2. Head(resources) \in Range(resources)  BY <4>1, ReceiveEffect
      <4>3. Nil \notin open  BY IdentityAssumption DEF Control, TypeOK
      <4> QED  BY <4>2, <4>3 DEF OneOwner, Pooled
    <3>5. active' = Cardinality(open')
      <4>1. CASE Head(resources) = Nil
        <5>1. open' = open  BY <3>3, <3>4, <4>1
        <5>2. active' = active  BY <1>4, <3>3, <4>1
        <5> QED  BY <1>1, <5>1, <5>2
      <4>2. CASE Head(resources) # Nil  BY <1>1, <1>4, <3>3, <3>4, <4>2, ActiveStep
      <4> QED  BY <4>1, <4>2
    <3>6. rpc[r0] = "shrink" /\ rpc'[r0] = "shrunk" /\ available' = available
      BY <1>4, <2>1, <2>4 DEF ShrinkReceive, Resizer
    <3>7. A = 0 /\ A' = 1 /\ E = 0 /\ E' = 0  BY <3>6 DEF Bit
    <3> HIDE DEF U, G, K, L, S, A, E
    <3>y. available' = Sum'  BY <1>1, <1>d, <1>a, <2>1, <2>2, <2>s, <3>2, <3>5, <3>6, <3>7
    <3>z. active' = Cardinality(open') /\ inUse' = U'  BY <1>1, <1>d, <1>a, <2>1, <2>2, <2>s, <3>2, <3>5, <3>6, <3>7
    <3> QED  BY <3>y, <3>z
  <2>5. CASE ShrinkCount(r)
    <3>1. /\ rpc[r0] = "shrunk" /\ rpc'[r0] \in {"shrink", "idle", "close"}
          /\ available' = available - 1 /\ UNCHANGED <<resources, active, open>>
      BY <1>4, <2>1, <2>5 DEF ShrinkCount, AfterLoop, Resizer
    <3>2. A = 1 /\ A' = 0 /\ E = 0 /\ E' = 0 /\ L' = L  BY <3>1 DEF Bit
    <3> HIDE DEF U, G, K, L, S, A, E
    <3>y. available' = Sum'  BY <1>1, <1>d, <1>a, <2>1, <2>2, <2>s, <3>1, <3>2
    <3>z. active' = Cardinality(open') /\ inUse' = U'  BY <1>1, <1>d, <1>a, <2>1, <2>2, <2>s, <3>1, <3>2
    <3> QED  BY <3>y, <3>z
  <2>6. CASE ExpandSend(r)
    <3>1. Send(Nil)
      BY <2>1, <2>6 DEF ExpandSend, Resizer, Control, ClosedShape
    <3>2. L' = L + 1  BY <1>3, <3>1 DEF Send
    <3>3. rpc[r0] = "expand" /\ rpc'[r0] = "expanded" /\ UNCHANGED <<available, active, open>>
      BY <1>4, <2>1, <2>6 DEF ExpandSend, Resizer, counters, Control, ClosedShape
    <3>4. A = 0 /\ A' = 0 /\ E = 0 /\ E' = 1  BY <3>3 DEF Bit
    <3> HIDE DEF U, G, K, L, S, A, E
    <3>y. available' = Sum'  BY <1>1, <1>d, <1>a, <2>1, <2>2, <2>s, <3>2, <3>3, <3>4
    <3>z. active' = Cardinality(open') /\ inUse' = U'  BY <1>1, <1>d, <1>a, <2>1, <2>2, <2>s, <3>2, <3>3, <3>4
    <3> QED  BY <3>y, <3>z
  <2>7. CASE ExpandCount(r)
    <3>1. /\ rpc[r0] = "expanded" /\ rpc'[r0] \in {"expand", "idle", "close"}
          /\ available' = available + 1 /\ UNCHANGED <<resources, active, open>>
      BY <1>4, <2>1, <2>7 DEF ExpandCount, AfterLoop, Resizer
    <3>2. A = 0 /\ A' = 0 /\ E = 1 /\ E' = 0 /\ L' = L  BY <3>1 DEF Bit
    <3> HIDE DEF U, G, K, L, S, A, E
    <3>y. available' = Sum'  BY <1>1, <1>d, <1>a, <2>1, <2>2, <2>s, <3>1, <3>2
    <3>z. active' = Cardinality(open') /\ inUse' = U'  BY <1>1, <1>d, <1>a, <2>1, <2>2, <2>s, <3>1, <3>2
    <3> QED  BY <3>y, <3>z
  <2> HIDE DEF Goal
  <2> QED  BY <1>17, <2>3, <2>4, <2>5, <2>6, <2>7 DEF Resize
<1>18. ASSUME closeIdleResources PROVE Goal
  <2>1. UNCHANGED clientVars /\ UNCHANGED <<rpc, available, inUse>>
    BY <1>18 DEF closeIdleResources, ScanStart, ScanReceive, ScanSend, counters, resizerVars
  <2>2. U' = U /\ G' = G /\ K' = K  BY <1>5, <2>1
  <2>a. A' = A /\ E' = E  BY <2>1
  <2>3. spc # "sleep" => ~chanClosed
    BY DEF Control, ClosedShape, TimerShape
  <2>4. CASE ScanStart
    <3>1. UNCHANGED <<resources, open, active>> /\ spc # "send" /\ spc' # "send"
      BY <2>4 DEF ScanStart, counters
    <3>2. L' = L /\ S' = S  BY <3>1 DEF Bit
    <3> HIDE DEF U, G, K, L, S, A, E
    <3>y. available' = Sum'  BY <1>1, <2>1, <2>2, <2>a, <3>1, <3>2
    <3>z. active' = Cardinality(open') /\ inUse' = U'  BY <1>1, <2>1, <2>2, <2>a, <3>1, <3>2
    <3> QED  BY <3>y, <3>z
  <2>5. CASE ScanReceive /\ Receive
    <3>1. L' = L - 1 /\ spc = "scan" /\ spc' = "send"
      BY <1>3, <2>5 DEF ScanReceive, Receive, ReceiveClosed
    <3>2. \/ UNCHANGED <<open, active>>
          \/ Head(resources) # Nil /\ open' = open \ {Head(resources)} /\ active' = active - 1
      BY <2>5 DEF ScanReceive, Receive, ReceiveClosed
    <3>3. Head(resources) # Nil => Head(resources) \in open
      <4>1. resources \in Seq(Wrappers) /\ resources # <<>>
        BY <2>5 DEF Receive, Control, TypeOK
      <4>2. Head(resources) \in Range(resources)  BY <4>1, ReceiveEffect
      <4> QED  BY <4>2 DEF OneOwner, Pooled
    <3>4. active' = Cardinality(open')  BY <1>1, <3>2, <3>3, ActiveStep
    <3>5. S = 0 /\ S' = 1  BY <3>1 DEF Bit
    <3> HIDE DEF U, G, K, L, S, A, E
    <3>y. available' = Sum'  BY <1>1, <1>d, <1>a, <2>1, <2>2, <2>a, <3>1, <3>4, <3>5
    <3>z. active' = Cardinality(open') /\ inUse' = U'  BY <1>1, <1>d, <1>a, <2>1, <2>2, <2>a, <3>1, <3>4, <3>5
    <3> QED  BY <3>y, <3>z
  <2>6. CASE ScanReceive /\ ~Receive
    <3>1. UNCHANGED <<resources, open, active>> /\ spc = "scan" /\ spc' = "sleep"
      BY <2>3, <2>6 DEF ScanReceive, ReceiveClosed
    <3>2. L' = L /\ S' = S  BY <3>1 DEF Bit
    <3> HIDE DEF U, G, K, L, S, A, E
    <3>y. available' = Sum'  BY <1>1, <2>1, <2>2, <2>a, <3>1, <3>2
    <3>z. active' = Cardinality(open') /\ inUse' = U'  BY <1>1, <2>1, <2>2, <2>a, <3>1, <3>2
    <3> QED  BY <3>y, <3>z
  <2>7. CASE ScanSend
    <3>1. /\ L' = L + 1 /\ UNCHANGED <<open, active>>
          /\ spc = "send" /\ spc' \in {"sleep", "scan"}
      BY <1>3, <2>3, <2>7 DEF ScanSend, Send, counters
    <3>2. S = 1 /\ S' = 0  BY <3>1 DEF Bit
    <3> HIDE DEF U, G, K, L, S, A, E
    <3>y. available' = Sum'  BY <1>1, <1>d, <1>a, <2>1, <2>2, <2>a, <3>1, <3>2
    <3>z. active' = Cardinality(open') /\ inUse' = U'  BY <1>1, <1>d, <1>a, <2>1, <2>2, <2>a, <3>1, <3>2
    <3> QED  BY <3>y, <3>z
  <2> HIDE DEF Goal
  <2> QED  BY <1>18, <2>4, <2>5, <2>6, <2>7 DEF closeIdleResources
<1> HIDE DEF Goal
<1> QED
  BY <1>6, <1>7, <1>8, <1>9, <1>10, <1>11, <1>12, <1>13, <1>14, <1>15, <1>16, <1>17, <1>18
     DEF Next, Get, Put
-----------------------------------------------------------------------------
(* The theorems                                                            *)

\* The invariant holds at first.
LEMMA InitInv == Init => IInv
<1> SUFFICES ASSUME Init PROVE IInv  OBVIOUS
<1>1. /\ MaxCap \in Nat /\ InitCap \in 1..MaxCap /\ Nil \notin Resources
      /\ Nil \in Wrappers /\ HasIdleTimer \in BOOLEAN
  BY CapAssumption, IdentityAssumption DEF Wrappers
<1>2. /\ resources \in Seq(Wrappers) /\ Len(resources) = InitCap
      /\ DOMAIN resources = 1..InitCap /\ \A i \in 1..InitCap : resources[i] = Nil
  <2>1. resources = [i \in 1..InitCap |-> Nil]  BY DEF Init
  <2>2. resources \in [1..InitCap -> Wrappers] /\ InitCap \in Nat  BY <1>1, <2>1
  <2>3. resources \in Seq(Wrappers)  BY <2>2
  <2>4. DOMAIN resources = 1..InitCap /\ \A i \in 1..InitCap : resources[i] = Nil  BY <2>1
  <2>5. Len(resources) \in Nat /\ DOMAIN resources = 1..Len(resources)  BY <2>3
  <2>6. Len(resources) = InitCap  BY <2>2, <2>4, <2>5
  <2> QED  BY <2>3, <2>4, <2>6
<1>3. TypeOK
  <2>1. timer \in {"none", "running", "stopped"}  BY DEF Init
  <2>2. cwrap \in [Clients -> Wrappers] /\ swrap \in Wrappers  BY <1>1 DEF Init
  <2>3. capacity \in 0..MaxCap /\ available \in Int /\ target \in [Resizers -> 0..MaxCap]
        /\ left \in [Resizers -> 0..MaxCap]
    BY <1>1 DEF Init
  <2>4. chanClosed = FALSE  BY Zenon DEF Init
  <2>5. chanClosed \in BOOLEAN  BY <2>4, Zenon
  <2>6. /\ active \in Int /\ inUse \in Int /\ sleft \in Int
        /\ open \in SUBSET Resources /\ spc \in ScanPC
        /\ cpc \in [Clients -> ClientPC] /\ rpc \in [Resizers -> ResizerPC]
    BY DEF Init, ClientPC, ResizerPC, ScanPC
  <2> QED  BY <1>2, <2>1, <2>2, <2>3, <2>5, <2>6 DEF TypeOK
<1>4. NoPanic /\ ClientShape /\ ResizerShape /\ TimerShape /\ ClosedShape
  <2>1. NoPanic  BY DEF Init, NoPanic
  <2>2. ClientShape  BY DEF Init, ClientShape
  <2>3. ResizerShape  BY <1>1 DEF Init, ResizerShape
  <2>4. TimerShape  BY <1>1 DEF Init, TimerShape
  <2>5. ClosedShape  BY <1>1 DEF Init, ClosedShape
  <2> QED  BY <2>1, <2>2, <2>3, <2>4, <2>5
<1>5. \A P : "idle" \notin P => At(P) = {}  BY DEF Init, At
<1>6. Holders = {} /\ Cardinality({}) = 0  BY <1>5, FS_EmptySet DEF Holders
<1>7. TokensConserved
  BY <1>1, <1>2, <1>6 DEF Init, TokensConserved, ToTake, ToAdd, Bit
<1>8. Owners = {} /\ LentOut = {} /\ Pooled = {} /\ Scanned = {}
  <2>1. Owners = {} /\ LentOut = {}  BY <1>5 DEF Owners, LentOut
  <2>2. Range(resources) \subseteq {Nil}  BY <1>2 DEF Range
  <2>3. swrap = Nil  BY DEF Init
  <2>4. Pooled = {} /\ Scanned = {}  BY <2>2, <2>3 DEF Pooled, Scanned
  <2> QED  BY <2>1, <2>4
<1>9. OneOwner
  BY <1>2, <1>8 DEF Init, OneOwner
<1>10. CountersExact
  <2>1. /\ Cardinality(At({"using", "putting", "counting"})) = 0
        /\ Cardinality(At({"unwrap", "failed", "got"})) = 0
        /\ Cardinality(At({"counting"})) = 0
    BY <1>5, FS_EmptySet
  <2>2. Cardinality(open) = 0  BY FS_EmptySet DEF Init
  <2> QED  BY <1>1, <1>2, <2>1, <2>2, SMTT(20) DEF Init, CountersExact, Bit
<1> QED  BY <1>3, <1>4, <1>7, <1>9, <1>10 DEF IInv, Control

\* Every step keeps the invariant.
LEMMA NextInv == IInv /\ [Next]_vars => IInv'
<1>1. ASSUME IInv, Next PROVE IInv'
  BY <1>1, ControlStep, TokenStep, OwnerStep, CounterStep DEF IInv
<1>2. ASSUME IInv, UNCHANGED vars PROVE IInv'
  <2>1. Control' /\ NoPanic'
    BY <1>2, Zenon DEF IInv, Control, NoPanic, TypeOK, ClientShape, ResizerShape, TimerShape,
       ClosedShape, vars, clientVars, resizerVars, scanVars, counters
  <2>2. TokensConserved' /\ CountersExact'
    <3>1. /\ resources' = resources /\ capacity' = capacity /\ open' = open
          /\ available' = available /\ active' = active /\ inUse' = inUse
          /\ cpc' = cpc /\ rpc' = rpc /\ target' = target /\ left' = left /\ spc' = spc
      BY <1>2 DEF vars, clientVars, resizerVars, scanVars, counters
    <3>2. \A P : At(P)' = At(P)  BY <3>1 DEF At
    <3>3. Holders' = Holders  BY <3>2 DEF Holders
    <3>4. \A r \in Resizers : ToTake(r)' = ToTake(r) /\ ToAdd(r)' = ToAdd(r)
      BY <3>1 DEF ToTake, ToAdd
    <3>5. TokensConserved'  BY <1>2, <3>1, <3>3, <3>4 DEF IInv, TokensConserved
    <3>6. CountersExact'  BY <1>2, <3>1, <3>2 DEF IInv, CountersExact
    <3> QED  BY <3>5, <3>6
  <2>3. OneOwner'
    <3>1. resources' = resources /\ open' = open /\ cpc' = cpc /\ cwrap' = cwrap /\ swrap' = swrap
      BY <1>2 DEF vars, clientVars, resizerVars, scanVars, counters
    <3>2. \A P : At(P)' = At(P)  BY <3>1 DEF At
    <3>3. Owners' = Owners /\ LentOut' = LentOut /\ Pooled' = Pooled /\ Scanned' = Scanned
      BY <3>1, <3>2 DEF Owners, LentOut, Pooled, Scanned
    <3> QED  BY <1>2, <3>1, <3>3 DEF IInv, OneOwner
  <2> QED  BY <2>1, <2>2, <2>3 DEF IInv
<1> QED  BY <1>1, <1>2

\* The inductive invariant holds in every reachable state of the pool.
THEOREM PoolInvariant == Spec => []IInv
BY InitInv, NextInv, PTL DEF Spec

\* The variables keep their types.
THEOREM PoolTypeCorrect == Spec => []TypeOK
<1>1. IInv => TypeOK  BY DEF IInv, Control
<1> QED  BY <1>1, PoolInvariant, PTL

\* Neither the panic of Put nor a send on the closed channel is reachable,
\* and the blocking sends of get and of the idle scan never block.
THEOREM PoolNeverPanics == Spec => [](NoPanic /\ HolderHasRoom)
<1>1. IInv => NoPanic /\ HolderHasRoom  BY RoomForHolder DEF IInv
<1> QED  BY <1>1, PoolInvariant, PTL

\* Tokens are conserved by Get, Put, the idle scan and a resize.
THEOREM PoolConservesTokens == Spec => []TokensConserved
<1>1. IInv => TokensConserved  BY DEF IInv
<1> QED  BY <1>1, PoolInvariant, PTL

\* Every open connection has exactly one owner; none leaks.
THEOREM PoolOneOwner == Spec => []OneOwner
<1>1. IInv => OneOwner  BY DEF IInv
<1> QED  BY <1>1, PoolInvariant, PTL

\* The statistics counters never drift.
THEOREM PoolCountersExact == Spec => []CountersExact
<1>1. IInv => CountersExact  BY DEF IInv
<1> QED  BY <1>1, PoolInvariant, PTL

\* Close leaves nothing behind: no connection, no lent token, no scan.
THEOREM PoolClosedIsEmpty == Spec => []ClosedIsEmpty
<1>1. IInv => ClosedIsEmpty  BY ClosedEmpty
<1> QED  BY <1>1, PoolInvariant, PTL

\* A closed pool stays closed and creates no connection.
THEOREM PoolClosedForever == Spec => ClosedForever
<1>1. ASSUME IInv, IInv', ClosedIsEmpty', [Next]_vars
      PROVE  [chanClosed => chanClosed' /\ open' = {} /\ capacity' = 0]_vars
  <2> DEFINE Stays == chanClosed' = chanClosed \/ chanClosed' = TRUE
  <2>1. ASSUME Next PROVE Stays
    <3>1. ASSUME NEW c \in Clients, Get(c) PROVE Stays
      BY <3>1, Zenon DEF Get, Fetch, Wait, GetTimeout, FactoryOK, FactoryError, ReturnToken, GetDone
    <3>2. ASSUME NEW c \in Clients, Put(c) PROVE Stays
      BY <3>2 DEF Put, PutResource, PutNil, PutSend, PutDone
    <3>3. ASSUME NEW r \in Resizers, Resize(r) PROVE Stays
      BY <3>3, Zenon DEF Resize, SetCapacity, Close, StopTimer, SwapCapacity, ShrinkReceive,
         ShrinkCount, ExpandSend, ExpandCount, CloseChannel
    <3>4. ASSUME closeIdleResources PROVE Stays
      BY <3>4 DEF closeIdleResources, ScanStart, ScanReceive, ScanSend
    <3> HIDE DEF Stays
    <3> QED  BY <2>1, <3>1, <3>2, <3>3, <3>4 DEF Next
  <2>2. chanClosed' => open' = {} /\ capacity' = 0
    BY <1>1, Zenon DEF IInv, Control, ClosedShape, ClosedIsEmpty
  <2>3. CASE Next  BY <2>1, <2>2, <2>3, Zenon
  <2> QED  BY <1>1, <2>3
<1> QED  BY <1>1, PoolInvariant, PoolClosedIsEmpty, PTL DEF Spec, ClosedForever

-----------------------------------------------------------------------------
(* ResourcePool implements PoolContract.                                   *)

\* A function has at most as many values as its domain has elements.
LEMMA ImageBound ==
    ASSUME NEW S, IsFiniteSet(S), NEW T, NEW f \in [S -> T]
    PROVE  IsFiniteSet(Range(f)) /\ Cardinality(Range(f)) <= Cardinality(S)
<1>1. f \in Surjection(S, Range(f))  BY DEF Surjection, Range
<1> QED  BY <1>1, FS_Surjection

\* The numbers from 1 to n are n.
LEMMA CountUpTo ==
    ASSUME NEW n \in Nat
    PROVE  IsFiniteSet(1..n) /\ Cardinality(1..n) = n
<1>1. 1 \in Int /\ n \in Int  OBVIOUS
<1>2. IsFiniteSet(1..n) /\ Cardinality(1..n) = IF 1 > n THEN 0 ELSE n - 1 + 1
  BY <1>1, FS_Interval
<1> QED  BY <1>2

\* At most MaxCap connections are open: each one needs a token of its own.
LEMMA OpenBound ==
    ASSUME IInv
    PROVE  WithinMaxCap
<1>1. /\ resources \in Seq(Wrappers) /\ Len(resources) \in Nat
      /\ cwrap \in [Clients -> Wrappers] /\ MaxCap \in Nat
  BY TokenTypes, CapAssumption DEF IInv, Control, TypeOK
<1>2. IsFiniteSet(Pooled) /\ Cardinality(Pooled) <= Len(resources)
  <2>1. resources \in [1..Len(resources) -> Wrappers]  BY <1>1
  <2>2. IsFiniteSet(1..Len(resources)) /\ Cardinality(1..Len(resources)) = Len(resources)
    BY <1>1, CountUpTo
  <2>3. IsFiniteSet(Range(resources)) /\ Cardinality(Range(resources)) <= Len(resources)
    BY <2>1, <2>2, ImageBound, Zenon
  <2>4. /\ Pooled \in SUBSET Range(resources)
        /\ Cardinality(Range(resources)) \in Nat
    BY <2>3, FS_CardinalityType DEF Pooled
  <2>5. IsFiniteSet(Pooled) /\ Cardinality(Pooled) <= Cardinality(Range(resources))
    BY <2>3, <2>4, FS_Subset
  <2>6. Cardinality(Pooled) \in Nat  BY <2>5, FS_CardinalityType
  <2> QED  BY <1>1, <2>3, <2>4, <2>5, <2>6
<1>3. IsFiniteSet(LentOut) /\ Cardinality(LentOut) <= Cardinality(Holders)
  <2> DEFINE f == [c \in Owners |-> cwrap[c]]
  <2>1. IsFiniteSet(Holders) /\ Cardinality(Holders) \in Nat  BY AtFinite DEF Holders
  <2>2. Owners \in SUBSET Holders  BY DEF Owners, Holders, At
  <2>3. IsFiniteSet(Owners) /\ Cardinality(Owners) <= Cardinality(Holders)
    BY <2>1, <2>2, FS_Subset
  <2>4. f \in [Owners -> Wrappers]  BY <1>1 DEF Owners, At
  <2>5. Range(f) = LentOut  BY DEF Range, LentOut
  <2> HIDE DEF f
  <2>6. IsFiniteSet(LentOut) /\ Cardinality(LentOut) <= Cardinality(Owners)
    BY <2>3, <2>4, <2>5, ImageBound
  <2>7. Cardinality(LentOut) \in Nat /\ Cardinality(Owners) \in Nat
    BY <2>3, <2>6, FS_CardinalityType
  <2> QED  BY <2>1, <2>3, <2>6, <2>7
<1>4. IsFiniteSet(Scanned) /\ Cardinality(Scanned) <= Bit(spc = "send")
  <2>1. CASE swrap = Nil
    <3>1. Scanned = {}  BY <2>1 DEF Scanned
    <3> QED  BY <3>1, FS_EmptySet DEF Bit
  <2>2. CASE swrap # Nil
    <3>1. Scanned = {swrap} /\ spc = "send"
      BY <2>2 DEF Scanned, IInv, Control, TimerShape
    <3>2. IsFiniteSet({swrap}) /\ Cardinality({swrap}) = 1  BY FS_Singleton, Zenon
    <3> QED  BY <3>1, <3>2 DEF Bit
  <2> QED  BY <2>1, <2>2
<1>5. /\ Cardinality(Pooled) \in Nat /\ Cardinality(LentOut) \in Nat
      /\ Cardinality(Scanned) \in Nat /\ Cardinality(Holders) \in Nat
  <2>1. Cardinality(Pooled) \in Nat  BY <1>2, FS_CardinalityType
  <2>2. Cardinality(LentOut) \in Nat  BY <1>3, FS_CardinalityType
  <2>3. Cardinality(Scanned) \in Nat  BY <1>4, FS_CardinalityType
  <2>4. Cardinality(Holders) \in Nat  BY AtFinite DEF Holders
  <2> QED  BY <2>1, <2>2, <2>3, <2>4
<1>6. /\ Pooled \cap LentOut = {} /\ (Pooled \cup LentOut) \cap Scanned = {}
      /\ open = (Pooled \cup LentOut) \cup Scanned
  BY DEF IInv, OneOwner
<1>7. /\ IsFiniteSet(Pooled \cup LentOut)
      /\ Cardinality(Pooled \cup LentOut) = Cardinality(Pooled) + Cardinality(LentOut)
  <2>1. /\ IsFiniteSet(Pooled \cup LentOut)
        /\ Cardinality(Pooled \cup LentOut)
             = Cardinality(Pooled) + Cardinality(LentOut) - Cardinality(Pooled \cap LentOut)
    BY <1>2, <1>3, FS_Union
  <2>2. Cardinality(Pooled \cap LentOut) = 0  BY <1>6, FS_EmptySet
  <2> QED  BY <1>5, <2>1, <2>2
<1>8. Cardinality(open) = Cardinality(Pooled \cup LentOut) + Cardinality(Scanned)
  <2>1. Cardinality((Pooled \cup LentOut) \cup Scanned)
          = Cardinality(Pooled \cup LentOut) + Cardinality(Scanned)
              - Cardinality((Pooled \cup LentOut) \cap Scanned)
    BY <1>4, <1>7, FS_Union
  <2>2. Cardinality((Pooled \cup LentOut) \cap Scanned) = 0  BY <1>6, FS_EmptySet
  <2>3. Cardinality(Pooled \cup LentOut) \in Nat  BY <1>5, <1>7
  <2> QED  BY <1>5, <1>6, <2>1, <2>2, <2>3
<1> QED  BY <1>1, <1>2, <1>3, <1>4, <1>5, <1>7, <1>8, TokenBound, SMTT(30) DEF Bit, WithinMaxCap

\* The refinement mapping follows a client's move.
LEMMA LentMoves ==
    ASSUME Control, NEW c \in Clients, NEW from, NEW to, NEW w, Client(c, from, to, w)
    PROVE  /\ to \in {"got", "using", "putting"} => Lent' = [Lent EXCEPT ![c] = w]
           /\ to \notin {"got", "using", "putting"} => Lent' = [Lent EXCEPT ![c] = Nil]
           /\ from \in {"got", "using", "putting"} => Lent[c] = cwrap[c]
           /\ from \notin {"got", "using", "putting"} => Lent[c] = Nil
<1>1. /\ cpc \in [Clients -> ClientPC] /\ cwrap \in [Clients -> Wrappers]
      /\ cpc[c] = from
      /\ cpc' = [cpc EXCEPT ![c] = to] /\ cwrap' = [cwrap EXCEPT ![c] = w]
  BY DEF Control, TypeOK, Client
<1> QED  BY <1>1, Zenon DEF Lent

\* What is lent under the mapping is what the owners hold.
LEMMA IdleIsPooled ==
    ASSUME IInv
    PROVE  /\ Contract!Idle = open \ LentOut
           /\ Pooled \subseteq Contract!Idle
<1>1. {Lent[c] : c \in Clients} \ {Nil} = LentOut
  BY DEF Lent, LentOut, Owners, At
<1>2. Nil \notin open  BY IdentityAssumption DEF IInv, Control, TypeOK
<1>3. Contract!Idle = open \ {Lent[c] : c \in Clients}  BY DEF Contract!Idle
<1> QED  BY <1>1, <1>2, <1>3 DEF IInv, OneOwner

\* Every step of the pool is a step of the contract, or none.
LEMMA StepSimulation ==
    ASSUME IInv, WithinMaxCap', ClosedIsEmpty', Next
    PROVE  Contract!Next \/ UNCHANGED Contract!pvars
<1> DEFINE Goal == Contract!Next \/ UNCHANGED Contract!pvars
           Quiet == open' = open /\ Lent' = Lent /\ chanClosed' = chanClosed
<1>1. Quiet => Goal  BY DEF Contract!pvars
<1>2. Control  BY DEF IInv
<1>3. Lent \in [Clients -> Wrappers]  BY <1>2 DEF Control, TypeOK, Lent, Wrappers
<1>4. \A c \in Clients : Contract!Lend(c) \/ Contract!Create(c) \/ Contract!GiveBack(c)
                          \/ Contract!Discard(c) => Goal
  BY DEF Contract!Next
<1>5. Contract!Evict \/ Contract!Shut => Goal
  BY DEF Contract!Next
\* Taking the head of the channel: a resource there is lent to nobody.
<1>6. ASSUME Receive
      PROVE  /\ ~chanClosed
             /\ Head(resources) # Nil => Head(resources) \in Contract!Idle
             /\ Head(resources) = Nil => open \ {Head(resources)} = open
  <2>1. resources # <<>> /\ resources \in Seq(Wrappers)
    BY <1>2, <1>6 DEF Receive, Control, TypeOK
  <2>2. Head(resources) \in Range(resources)  BY <2>1, ReceiveEffect
  <2>3. ~chanClosed  BY <2>1, ClosedEmpty DEF ClosedIsEmpty
  <2>4. Nil \notin open  BY <1>2, IdentityAssumption DEF Control, TypeOK
  <2> QED  BY <2>2, <2>3, <2>4, IdleIsPooled DEF Pooled
<1>7. ASSUME NEW c \in Clients, Fetch(c) PROVE Goal
  <2>1. open' = open /\ chanClosed' = chanClosed  BY <1>7 DEF Fetch
  <2>2. CASE Receive
    <3>1. PICK from \in {"idle", "waiting"}, to \in {"unwrap", "got"} :
            /\ Client(c, from, to, Head(resources))
            /\ to = "unwrap" <=> Head(resources) = Nil
      BY <1>7, <2>2 DEF Fetch, Receive, ReceiveClosed
    <3>2. Lent[c] = Nil /\ Lent' = [Lent EXCEPT ![c] = Head(resources)]
      BY <1>2, <3>1, LentMoves
    <3>3. CASE Head(resources) = Nil
      <4>1. Lent' = Lent  BY <1>3, <3>2, <3>3
      <4> QED  BY <1>1, <2>1, <4>1
    <3>4. CASE Head(resources) # Nil
      <4>1. Contract!Lend(c)
        BY <1>6, <2>1, <2>2, <3>2, <3>4, Zenon DEF Contract!Lend
      <4> QED  BY <1>4, <4>1
    <3> QED  BY <3>3, <3>4
  <2>3. CASE ReceiveClosed
    <3>1. PICK from \in {"idle", "waiting"} : Client(c, from, "idle", Nil)
      BY <1>7, <2>3 DEF Fetch, Receive, ReceiveClosed
    <3>2. Lent' = Lent  BY <1>2, <1>3, <3>1, LentMoves
    <3> QED  BY <1>1, <2>1, <3>2
  <2> QED  BY <1>7, <2>2, <2>3 DEF Fetch
<1>8. ASSUME NEW c \in Clients, FactoryOK(c) PROVE Goal
  <2>1. PICK res \in Resources \ open :
          /\ Client(c, "unwrap", "got", res)
          /\ open' = open \cup {res} /\ chanClosed' = chanClosed
    BY <1>8 DEF FactoryOK
  <2>2. Lent[c] = Nil /\ Lent' = [Lent EXCEPT ![c] = res]
    <3>1. Client(c, "unwrap", "got", res)  BY <2>1
    <3> QED  BY <1>2, <3>1, LentMoves
  <2>3. ~chanClosed
    BY <2>1, RoomForHolder DEF HolderHasRoom, CanSend, Holders, At, Client
  <2>4. Cardinality(open') <= MaxCap  BY DEF WithinMaxCap
  <2>5. Contract!Create(c)
    <3>1. \E x \in Resources \ open :
            open' = open \cup {x} /\ Lent' = [Lent EXCEPT ![c] = x]
      BY <2>1, <2>2, Zenon
    <3>2. Lent[c] = Nil /\ chanClosed' = chanClosed  BY <2>1, <2>2
    <3>3. Contract!Cardinality(open') <= MaxCap
      BY <2>4 DEF Cardinality, Contract!Cardinality
    <3> QED  BY <2>3, <3>1, <3>2, <3>3, Zenon DEF Contract!Create
  <2> QED  BY <1>4, <2>5
<1>9. ASSUME NEW c \in Clients, Wait(c) PROVE Goal
  <2>1. Client(c, "idle", "waiting", Nil) /\ open' = open /\ chanClosed' = chanClosed
    BY <1>9 DEF Wait
  <2>2. Lent' = Lent  BY <1>2, <1>3, <2>1, LentMoves
  <2> QED  BY <1>1, <2>1, <2>2
<1>10. ASSUME NEW c \in Clients, GetTimeout(c) PROVE Goal
  <2>1. Client(c, "waiting", "idle", Nil) /\ open' = open /\ chanClosed' = chanClosed
    BY <1>10 DEF GetTimeout
  <2>2. Lent' = Lent  BY <1>2, <1>3, <2>1, LentMoves
  <2> QED  BY <1>1, <2>1, <2>2
<1>11. ASSUME NEW c \in Clients, FactoryError(c) PROVE Goal
  <2>1. Client(c, "unwrap", "failed", Nil) /\ open' = open /\ chanClosed' = chanClosed
    BY <1>11 DEF FactoryError
  <2>2. Lent' = Lent  BY <1>2, <1>3, <2>1, LentMoves
  <2> QED  BY <1>1, <2>1, <2>2
<1>12. ASSUME NEW c \in Clients, PutDone(c) PROVE Goal
  <2>1. Client(c, "counting", "idle", Nil) /\ open' = open /\ chanClosed' = chanClosed
    BY <1>12 DEF PutDone
  <2>2. Lent' = Lent  BY <1>2, <1>3, <2>1, LentMoves
  <2> QED  BY <1>1, <2>1, <2>2
<1>13. ASSUME NEW c \in Clients, GetDone(c) PROVE Goal
  <2>1. Client(c, "got", "using", cwrap[c]) /\ open' = open /\ chanClosed' = chanClosed
    BY <1>13 DEF GetDone
  <2>2. Lent' = Lent  BY <1>2, <1>3, <2>1, LentMoves
  <2> QED  BY <1>1, <2>1, <2>2
<1>14. ASSUME NEW c \in Clients, PutResource(c) PROVE Goal
  <2>1. Client(c, "using", "putting", cwrap[c]) /\ open' = open /\ chanClosed' = chanClosed
    BY <1>14 DEF PutResource
  <2>2. Lent' = Lent  BY <1>2, <1>3, <2>1, LentMoves
  <2> QED  BY <1>1, <2>1, <2>2
<1>15. ASSUME NEW c \in Clients, ReturnToken(c) PROVE Goal
  <2>1. PICK to \in {"idle", "panic"} : Client(c, "failed", to, Nil)
    BY <1>15 DEF ReturnToken
  <2>2. open' = open /\ chanClosed' = chanClosed  BY <1>15 DEF ReturnToken
  <2>3. Lent' = Lent  BY <1>2, <1>3, <2>1, LentMoves
  <2> QED  BY <1>1, <2>2, <2>3
<1>16. ASSUME NEW c \in Clients, PutNil(c) PROVE Goal
  <2>1. /\ Client(c, "using", "putting", Nil)
        /\ open' = open \ {cwrap[c]} /\ chanClosed' = chanClosed
    BY <1>16 DEF PutNil
  <2>2. cwrap[c] # Nil  BY <1>2, <2>1 DEF Control, ClientShape, Client
  <2>3. Lent[c] = cwrap[c] /\ Lent' = [Lent EXCEPT ![c] = Nil]
    BY <1>2, <2>1, LentMoves
  <2>4. Contract!Discard(c)  BY <2>1, <2>2, <2>3 DEF Contract!Discard
  <2> QED  BY <1>4, <2>4
<1>17. ASSUME NEW c \in Clients, PutSend(c) PROVE Goal
  <2>1. CanSend
    BY <1>17, RoomForHolder DEF PutSend, Client, HolderHasRoom, Holders, At
  <2>2. Client(c, "putting", "counting", Nil) /\ open' = open /\ chanClosed' = chanClosed
    BY <1>17, <2>1 DEF PutSend, CanSend
  <2>3. Lent[c] = cwrap[c] /\ Lent' = [Lent EXCEPT ![c] = Nil]
    BY <1>2, <2>2, LentMoves
  <2>4. CASE cwrap[c] = Nil
    <3>1. Lent' = Lent  BY <1>3, <2>3, <2>4
    <3> QED  BY <1>1, <2>2, <3>1
  <2>5. CASE cwrap[c] # Nil
    <3>1. Contract!GiveBack(c)  BY <2>2, <2>3, <2>5 DEF Contract!GiveBack
    <3> QED  BY <1>4, <3>1
  <2> QED  BY <2>4, <2>5
<1>18. ASSUME NEW r \in Resizers,
             SetCapacity(r) \/ Close(r) \/ StopTimer(r) \/ SwapCapacity(r) \/ ShrinkCount(r)
             \/ ExpandSend(r) \/ ExpandCount(r)
       PROVE Goal
  <2>1. UNCHANGED <<open, chanClosed, cpc, cwrap>>
    BY <1>18 DEF SetCapacity, Close, StopTimer, SwapCapacity, ShrinkCount, ExpandSend,
       ExpandCount, clientVars
  <2> QED  BY <1>1, <2>1 DEF Lent
<1>19. ASSUME UNCHANGED <<chanClosed, cpc, cwrap>>, Receive, open' = open \ {Head(resources)}
       PROVE Goal
  <2>1. Lent' = Lent  BY <1>19 DEF Lent
  <2>2. CASE Head(resources) = Nil
    <3>1. open' = open  BY <1>6, <1>19, <2>2
    <3> QED  BY <1>1, <1>19, <2>1, <3>1
  <2>3. CASE Head(resources) # Nil
    <3>1. Contract!Evict  BY <1>6, <1>19, <2>1, <2>3 DEF Contract!Evict
    <3> QED  BY <1>5, <3>1
  <2> QED  BY <2>2, <2>3
<1>20. ASSUME NEW r \in Resizers, ShrinkReceive(r) PROVE Goal
  <2>1. UNCHANGED <<chanClosed, cpc, cwrap>>  BY <1>20 DEF ShrinkReceive, clientVars
  <2>2. CASE Receive
    <3>1. open' = open \ {Head(resources)}
      BY <1>20, <2>2 DEF ShrinkReceive, Receive, ReceiveClosed
    <3> QED  BY <1>19, <2>1, <2>2, <3>1
  <2>3. CASE ReceiveClosed
    <3>1. open' = open  BY <1>20, <2>3 DEF ShrinkReceive, Receive, ReceiveClosed
    <3> QED  BY <1>1, <2>1, <3>1 DEF Lent
  <2> QED  BY <1>20, <2>2, <2>3 DEF ShrinkReceive
<1>21. ASSUME NEW r \in Resizers, CloseChannel(r) PROVE Goal
  <2>1. chanClosed' = TRUE /\ UNCHANGED <<open, cpc, cwrap>> /\ rpc[r] = "close"
    BY <1>21 DEF CloseChannel, clientVars, Resizer
  <2>2. ~chanClosed  BY <1>2, <2>1 DEF Control, ClosedShape
  <2>3. open = {}  BY <2>1 DEF ClosedIsEmpty
  <2>4. Lent' = Lent  BY <2>1 DEF Lent
  <2>5. Contract!Shut  BY <2>1, <2>2, <2>3, <2>4 DEF Contract!Shut
  <2> QED  BY <1>5, <2>5
<1>22. ASSUME ScanStart \/ ScanSend PROVE Goal
  <2>1. UNCHANGED <<open, chanClosed, cpc, cwrap>>
    BY <1>22 DEF ScanStart, ScanSend, clientVars
  <2> QED  BY <1>1, <2>1 DEF Lent
<1>23. ASSUME ScanReceive PROVE Goal
  <2>1. UNCHANGED <<chanClosed, cpc, cwrap>>  BY <1>23 DEF ScanReceive, clientVars
  <2>2. open' = open \/ (Receive /\ open' = open \ {Head(resources)})
    BY <1>23 DEF ScanReceive, Receive, ReceiveClosed
  <2>3. CASE open' = open  BY <1>1, <2>1, <2>3 DEF Lent
  <2>4. CASE Receive /\ open' = open \ {Head(resources)}  BY <1>19, <2>1, <2>4
  <2> QED  BY <2>2, <2>3, <2>4
<1> HIDE DEF Goal
<1>24. Goal
  BY <1>7, <1>8, <1>9, <1>10, <1>11, <1>12, <1>13, <1>14, <1>15, <1>16, <1>17, <1>18, <1>20, <1>21, <1>22, <1>23
     DEF Next, Get, Put, Resize, closeIdleResources
<1> QED  BY <1>24 DEF Goal

\* The pool of util.ResourcePool implements the contract of a connection pool.
THEOREM PoolImplementsContract == Spec => ImplementsContract
<1>1. Init => Contract!Init
  BY DEF Init, Contract!Init, Lent
<1>2. IInv => WithinMaxCap /\ ClosedIsEmpty  BY OpenBound, ClosedEmpty
<1>3. ASSUME IInv, WithinMaxCap', ClosedIsEmpty', [Next]_vars
      PROVE  [Contract!Next]_(Contract!pvars)
  <2>1. CASE Next  BY <1>3, <2>1, StepSimulation
  <2>2. CASE UNCHANGED vars
    BY <2>2 DEF vars, clientVars, Contract!pvars, Lent
  <2> QED  BY <1>3, <2>1, <2>2
<1> QED  BY <1>1, <1>2, <1>3, PoolInvariant, PTL DEF Spec, ImplementsContract, Contract!Spec
=============================================================================
