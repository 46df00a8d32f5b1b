--------------------------- MODULE CountersProofs ---------------------------
(***************************************************************************)
(* Theorems about what is counted, the sessions of a namespace             *)
(* (SessionLoop) and the connections of the pool of one server             *)
(* (ConnectionPool), and about the operations of the control centre        *)
(* (ControlCentre).                                                        *)
(***************************************************************************)
EXTENDS SessionLoop, ConnectionPool, ControlCentre, FiniteSetTheorems, TLAPS

-----------------------------------------------------------------------------
(* The loop of a session, for any number of sessions, commands, changes of *)
(* the namespace and clearings of the counters: the session gauge counts   *)
(* the sessions in the loop and those whose deferred Close panicked.  The  *)
(* invariant it follows from: the cell of the gauge is never replaced, so  *)
(* that the cell an Add has found is still the one in the map.             *)

LoopPlaces == {"none", "hello", "user", "password", "named", "incr", "incrAdd",
           "loop", "exec", "write", "leave", "descAdd", "lost", "end"}

\* The sessions that IncrSessionCount has counted and DescSessionCount has not.
Counted == {s \in LoopSessions : slAt[s] \in {"loop", "exec", "write", "leave", "descAdd", "lost"}}

LoopTypes ==
  /\ slAt \in [LoopSessions -> LoopPlaces]
  /\ slCounters \in [{"sessions", "errors"} -> [cell : Nat, n : Int]]
  /\ slCell \in [LoopSessions -> Nat]

\* The cell that a session adds to is that of the gauge.
CellCurrent ==
  \A s \in LoopSessions : slAt[s] \in {"incrAdd", "descAdd"} => slCell[s] = slCounters["sessions"].cell

LoopInv == LoopTypes /\ CellCurrent /\ SessionsCounted

\* The gauge stays exact in a step that leaves it and the counted sessions
\* alone.
LEMMA GaugeSame ==
  ASSUME SessionsCounted, Counted' = Counted,
         slCounters'["sessions"].n = slCounters["sessions"].n
  PROVE  SessionsCounted'
BY Zenon DEF SessionsCounted, Counted

\* A session moves between places outside the loop or between places of the
\* loop, and adds to no counter of sessions (Accept, the handshake, LeaveLoop,
\* ReadEphemeralPacket, ExecuteCommand, writeResponse).
LEMMA MoveKeeps ==
  ASSUME LoopInv, NEW s \in LoopSessions, NEW there \in LoopPlaces,
         slAt' = [slAt EXCEPT ![s] = there],
         there \notin {"incrAdd", "descAdd"},
         s \in Counted <=> there \in {"loop", "exec", "write", "leave", "lost"},
         slCounters'["sessions"] = slCounters["sessions"],
         slCounters' \in [{"sessions", "errors"} -> [cell : Nat, n : Int]],
         UNCHANGED slCell
  PROVE  LoopInv'
<1>1. LoopTypes'  BY DEF LoopInv, LoopTypes
<1>2. CellCurrent'  BY DEF LoopInv, LoopTypes, CellCurrent
<1>3. SessionsCounted'
  <2>1. Counted' = Counted  BY DEF LoopInv, LoopTypes, Counted
  <2> QED  BY <2>1, GaugeSame DEF LoopInv
<1> QED  BY <1>1, <1>2, <1>3 DEF LoopInv

\* The same for a step that leaves the counters alone.
LEMMA PlainMoveKeeps ==
  ASSUME LoopInv, NEW s \in LoopSessions, NEW there \in LoopPlaces,
         slAt' = [slAt EXCEPT ![s] = there],
         there \notin {"incrAdd", "descAdd"},
         s \in Counted <=> there \in {"loop", "exec", "write", "leave", "lost"},
         UNCHANGED <<slCounters, slCell>>
  PROVE  LoopInv'
<1>1. slCounters' \in [{"sessions", "errors"} -> [cell : Nat, n : Int]]
      /\ slCounters'["sessions"] = slCounters["sessions"]
  BY Zenon DEF LoopInv, LoopTypes
<1> QED  BY <1>1, MoveKeeps, Zenon

\* The invariant of the loop is about these variables only.
LEMMA StillKeeps ==
  ASSUME LoopInv, UNCHANGED <<slAt, slCounters, slCell>>
  PROVE  LoopInv'
BY DEF LoopInv, LoopTypes, CellCurrent, SessionsCounted

\* The look that finds the cell of the gauge, before the addition or after the
\* session is closed (CountLookup, DeferredClose).
LEMMA LookupKeeps ==
  ASSUME LoopInv, NEW s \in LoopSessions, getValueAddr(s, "sessions"), UNCHANGED slCounters,
         \/ slAt[s] = "incr" /\ slAt' = [slAt EXCEPT ![s] = "incrAdd"]
         \/ slAt[s] = "leave" /\ slAt' = [slAt EXCEPT ![s] = "descAdd"]
  PROVE  LoopInv'
<1> USE DEF getValueAddr
<1>1. LoopTypes'  BY DEF LoopInv, LoopTypes, LoopPlaces
<1>2. CellCurrent'  BY DEF LoopInv, LoopTypes, CellCurrent
<1>3. SessionsCounted'
  <2>1. Counted' = Counted  BY DEF LoopInv, LoopTypes, Counted
  <2> QED  BY <2>1, GaugeSame DEF LoopInv
<1> QED  BY <1>1, <1>2, <1>3 DEF LoopInv

\* The deferred Close: the session goes on to DescSessionCount, or its rollback
\* panics and it stays counted (DeferredClose).
LEMMA DeferredCloseKeeps ==
  ASSUME LoopInv, NEW s \in LoopSessions, DeferredClose(s)
  PROVE  LoopInv'
<1>1. slAt[s] = "leave" /\ UNCHANGED slCounters  BY Zenon DEF DeferredClose
<1>2. CASE slAt' = [slAt EXCEPT ![s] = "lost"] /\ UNCHANGED slCell
  BY <1>1, <1>2, PlainMoveKeeps, Zenon DEF LoopPlaces, Counted
<1>3. CASE slAt' = [slAt EXCEPT ![s] = "descAdd"] /\ getValueAddr(s, "sessions")
  BY <1>1, <1>3, LookupKeeps, Zenon
<1> QED  BY <1>2, <1>3, Zenon DEF DeferredClose, Go

\* The addition to the cell found before (IncrSessionCount): it is the current
\* one, and the session enters the loop.
LEMMA IncrKeeps ==
  ASSUME IsFiniteSet(LoopSessions), LoopInv, NEW s \in LoopSessions, IncrSessionCount(s)
  PROVE  LoopInv'
<1> USE DEF IncrSessionCount, Go, AddInt64
<1>1. slCounters' = [slCounters EXCEPT !["sessions"].n = @ + 1]
  BY DEF LoopInv, CellCurrent
<1>2. LoopTypes'  BY <1>1 DEF LoopInv, LoopTypes, LoopPlaces
<1>3. CellCurrent'  BY <1>1 DEF LoopInv, LoopTypes, CellCurrent
<1>4. SessionsCounted'
  <2>1. Counted' = Counted \cup {s} /\ s \notin Counted  BY DEF LoopInv, LoopTypes, Counted
  <2>2. IsFiniteSet(Counted)  BY FS_Subset DEF Counted
  <2>3. Cardinality(Counted') = Cardinality(Counted) + 1  BY <2>1, <2>2, FS_AddElement, Zenon
  <2>4. slCounters'["sessions"].n = slCounters["sessions"].n + 1  BY <1>1 DEF LoopInv, LoopTypes
  <2> QED  BY <2>3, <2>4 DEF LoopInv, SessionsCounted, Counted
<1> QED  BY <1>2, <1>3, <1>4 DEF LoopInv

\* The same when a session has left the loop (DescSessionCount).
LEMMA DescKeeps ==
  ASSUME IsFiniteSet(LoopSessions), LoopInv, NEW s \in LoopSessions, DescSessionCount(s)
  PROVE  LoopInv'
<1> USE DEF DescSessionCount, Go, AddInt64
<1>1. slCounters' = [slCounters EXCEPT !["sessions"].n = @ + (-1)]
  BY DEF LoopInv, CellCurrent
<1>2. LoopTypes'  BY <1>1 DEF LoopInv, LoopTypes, LoopPlaces
<1>3. CellCurrent'  BY <1>1 DEF LoopInv, LoopTypes, CellCurrent
<1>4. SessionsCounted'
  <2>1. Counted' = Counted \ {s} /\ s \in Counted  BY DEF LoopInv, LoopTypes, Counted
  <2>2. IsFiniteSet(Counted)  BY FS_Subset DEF Counted
  <2>3. Cardinality(Counted') = Cardinality(Counted) - 1  BY <2>1, <2>2, FS_RemoveElement, Zenon
  <2>4. slCounters'["sessions"].n = slCounters["sessions"].n - 1  BY <1>1 DEF LoopInv, LoopTypes
  <2> QED  BY <2>3, <2>4 DEF LoopInv, SessionsCounted, Counted
<1> QED  BY <1>2, <1>3, <1>4 DEF LoopInv

\* A command is executed: it is answered, or panics, or ends the proxy; errors
\* are counted (ExecuteCommand, handleQuery, RecordSessionSQLMetrics).
LEMMA ExecuteKeeps ==
  ASSUME LoopInv, NEW s \in LoopSessions, ExecuteCommand(s)
  PROVE  LoopInv'
<1>1. slAt[s] = "exec" /\ UNCHANGED slCell  BY Zenon DEF ExecuteCommand
<1>2. slCounters'["sessions"] = slCounters["sessions"]
      /\ slCounters' \in [{"sessions", "errors"} -> [cell : Nat, n : Int]]
  BY DEF ExecuteCommand, RecordSessionSQLMetrics, LoopInv, LoopTypes
<1>3. \/ slAt' = [slAt EXCEPT ![s] = "write"]
      \/ slAt' = [slAt EXCEPT ![s] = "leave"]
      \/ UNCHANGED <<slAt, slCounters>>
  BY Zenon DEF ExecuteCommand, Go
<1>4. CASE UNCHANGED <<slAt, slCounters>>  BY <1>1, <1>4, StillKeeps
<1>5. ASSUME NEW there \in {"write", "leave"}, slAt' = [slAt EXCEPT ![s] = there] PROVE LoopInv'
  <2>1. s \in Counted  BY <1>1, Zenon DEF Counted
  <2>2. there \in LoopPlaces /\ there \notin {"incrAdd", "descAdd"}
        /\ there \in {"loop", "exec", "write", "leave", "lost"}
    BY DEF LoopPlaces
  <2> QED  BY <1>1, <1>2, <1>5, <2>1, <2>2, MoveKeeps, Zenon
<1> QED  BY <1>3, <1>4, <1>5, Zenon

\* The hourly task replaces the other counters and leaves the gauge
\* (clearLargeCounters).
LEMMA ClearKeeps ==
  ASSUME LoopInv, clearLargeCounters
  PROVE  LoopInv'
<1> USE DEF clearLargeCounters, ResetAll
<1>1. slCounters'["sessions"] = slCounters["sessions"]  BY DEF LoopInv, LoopTypes
<1>2. LoopTypes'  BY DEF LoopInv, LoopTypes
<1>3. CellCurrent'  BY <1>1 DEF LoopInv, CellCurrent
<1>4. Counted' = Counted  BY DEF Counted
<1> QED  BY <1>1, <1>2, <1>3, <1>4, GaugeSame DEF LoopInv

\* Every step keeps the invariant.
LEMMA StepKeeps ==
  ASSUME IsFiniteSet(LoopSessions), LoopInv, [LoopNext]_loopVars
  PROVE  LoopInv'
<1>1. ASSUME NEW s \in LoopSessions,
             \/ Accept(s) \/ HandshakeFails(s) \/ CheckUser(s) \/ CheckPassword(s)
             \/ GetNamespaceByUser(s) \/ IsAllowConnect(s) \/ LeaveLoop(s)
             \/ ReadEphemeralPacket(s) \/ writeResponse(s) \/ writeFails(s)
      PROVE  LoopInv'
  <2> USE DEF Go, Others, LoopPlaces
  <2>1. CASE Accept(s)  BY <2>1, PlainMoveKeeps, Zenon DEF Accept, Counted
  <2>2. CASE HandshakeFails(s)  BY <2>2, PlainMoveKeeps, Zenon DEF HandshakeFails, Counted
  <2>3. CASE CheckUser(s)  BY <2>3, PlainMoveKeeps, Zenon DEF CheckUser, Counted
  <2>4. CASE CheckPassword(s)  BY <2>4, PlainMoveKeeps, Zenon DEF CheckPassword, Counted
  <2>5. CASE GetNamespaceByUser(s)  BY <2>5, PlainMoveKeeps, Zenon DEF GetNamespaceByUser, Counted
  <2>6. CASE IsAllowConnect(s)  BY <2>6, PlainMoveKeeps, Zenon DEF IsAllowConnect, Counted
  <2>7. CASE LeaveLoop(s)  BY <2>7, PlainMoveKeeps, Zenon DEF LeaveLoop, Counted
  <2>8. CASE ReadEphemeralPacket(s)  BY <2>8, PlainMoveKeeps, Zenon DEF ReadEphemeralPacket, Counted
  <2>9. CASE writeResponse(s)  BY <2>9, PlainMoveKeeps, Zenon DEF writeResponse, Counted
  <2>10. CASE writeFails(s)  BY <2>10, PlainMoveKeeps, Zenon DEF writeFails, Counted
  <2> QED  BY <1>1, <2>1, <2>2, <2>3, <2>4, <2>5, <2>6, <2>7, <2>8, <2>9, <2>10
<1>2. ASSUME NEW s \in LoopSessions, Timeout(s) PROVE LoopInv'
  BY <1>2, StillKeeps DEF Timeout
<1>3. CASE Reload  BY <1>3, StillKeeps DEF Reload
<1>4. CASE UNCHANGED loopVars  BY <1>4, StillKeeps DEF loopVars
<1>5. ASSUME NEW s \in LoopSessions, CountLookup(s) PROVE LoopInv'
  BY <1>5, LookupKeeps, Zenon DEF CountLookup, Go
<1> QED  BY <1>1, <1>2, <1>3, <1>4, <1>5, DeferredCloseKeeps, IncrKeeps, DescKeeps, ExecuteKeeps,
            ClearKeeps, Zenon DEF LoopNext

\* No session has begun (Init).
LEMMA LoopInvAtFirst ==
  ASSUME LoopInit
  PROVE  LoopInv
<1>1. LoopTypes
  <2>1. slAt \in [LoopSessions -> LoopPlaces] /\ slCell \in [LoopSessions -> Nat]  BY Zenon DEF LoopInit, LoopPlaces
  <2>2. slCounters \in [{"sessions", "errors"} -> [cell : Nat, n : Int]]
    <3>1. [cell |-> 0, n |-> 0] \in [cell : Nat, n : Int]  OBVIOUS
    <3> QED  BY <3>1, Zenon DEF LoopInit
  <2> QED  BY <2>1, <2>2 DEF LoopTypes
<1>2. CellCurrent  BY Zenon DEF LoopInit, CellCurrent
<1>3. SessionsCounted
  <2>1. {s \in LoopSessions : slAt[s] \in {"loop", "exec", "write", "leave", "descAdd", "lost"}} = {}
    BY Zenon DEF LoopInit
  <2> QED  BY <2>1, FS_EmptySet, Zenon DEF LoopInit, SessionsCounted
<1> QED  BY <1>1, <1>2, <1>3 DEF LoopInv

\* The session gauge counts exactly the sessions in the loop and those whose
\* deferred Close panicked, however sessions end and whenever the other
\* counters are cleared (IncrSessionCount, DescSessionCount, Run).
THEOREM GaugeExact ==
  ASSUME IsFiniteSet(LoopSessions)
  PROVE  LoopSpec => []SessionsCounted
<1>1. LoopInit => LoopInv  BY LoopInvAtFirst
<1>2. LoopInv /\ [LoopNext]_loopVars => LoopInv'  BY StepKeeps
<1>3. LoopInv => SessionsCounted  BY DEF LoopInv
<1> QED  BY <1>1, <1>2, <1>3, PTL DEF LoopSpec

-----------------------------------------------------------------------------
(***************************************************************************)
(* The pool of connections to one MySQL server (ConnectionPool).           *)
(*                                                                         *)
(* A connection goes back to the pool it was taken from, and giving it     *)
(* back never panics, for any number of users, any capacities and any      *)
(* number of openings, with one goroutine that closes and resizes.         *)
(*                                                                         *)
(* The argument counts: the places of a pool that are idle, blank or       *)
(* leased add up to its capacity and what the resizer has still to take    *)
(* out.  So a pool whose capacity is 0 and whose resizer is done has no    *)
(* connection out, and only then does Close drop the reference to it.      *)
(***************************************************************************)

closer == CHOOSE t \in Closers : TRUE

OneCloser ==
  /\ Closers = {closer} /\ closer \notin PoolUsers
  /\ IsFiniteSet(PoolUsers)
  /\ MaxCap \in Nat /\ Capacity \in 1..MaxCap

PoolPlaces == [cap : Nat, idle : Nat, blank : Nat, shut : BOOLEAN]

PoolSpec == PoolInit /\ [][PoolNext]_poolVars

ConnPoolTypes ==
  /\ cpRef \in Nat /\ cpCap \in 1..MaxCap
  /\ cpPool \in Seq(PoolPlaces)
  /\ cpAt \in [Procs -> {"ready", "get", "use", "put", "dead", "resize", "drain", "drop", "sizing"}]
  /\ cpP \in [Procs -> Nat] /\ cpFrom \in [PoolUsers -> Nat]
  /\ cpTodo \in [Closers -> Nat]

Leased(n) == {u \in PoolUsers : cpAt[u] \in {"use", "put"} /\ cpFrom[u] = n}

\* What the resizer has still to take out of pool n.
Due(n) == IF cpAt[closer] \in {"drain", "sizing"} /\ cpP[closer] = n THEN cpTodo[closer] ELSE 0

Owing(n) == cpPool[n].cap + Due(n)

Balanced(n) ==
  /\ cpPool[n].idle + cpPool[n].blank + Cardinality(Leased(n)) = Owing(n)
  /\ Owing(n) <= MaxCap
  /\ cpPool[n].shut \/ n # cpRef => Owing(n) = 0

UserInv(u) ==
  /\ cpAt[u] \in {"ready", "get", "use", "put"}
  /\ cpAt[u] \in {"use", "put"} => cpRef # 0 /\ cpFrom[u] = cpRef
  /\ cpAt[u] = "put" => cpP[u] = cpFrom[u]
  /\ cpAt[u] = "get" => cpP[u] \in Pools

CloserInv ==
  /\ cpAt[closer] \in {"ready", "resize", "drain", "drop", "sizing"}
  /\ cpAt[closer] # "ready" => cpRef # 0 /\ cpP[closer] = cpRef
  /\ cpAt[closer] = "drain" => cpPool[cpRef].cap = 0
  /\ cpAt[closer] = "drop" => Owing(cpRef) = 0

ConnPoolInv ==
  /\ ConnPoolTypes /\ ~cpPanicked
  /\ cpRef # 0 => cpRef \in Pools
  /\ \A n \in Pools : Balanced(n)
  /\ \A u \in PoolUsers : UserInv(u)
  /\ CloserInv

-----------------------------------------------------------------------------
\* The larger one of zero and a number.
LEMMA MaxOfTwo ==
  ASSUME NEW k \in Int
  PROVE  Max({0, k}) = IF k > 0 THEN k ELSE 0
<1>1. \E x \in {0, k} : \A y \in {0, k} : x >= y  OBVIOUS
<1> QED  BY <1>1 DEF Max

\* A change of one pool of the list.
LEMMA OnePool ==
  ASSUME cpPool \in Seq(PoolPlaces), NEW n \in Pools, NEW r \in PoolPlaces, cpPool' = [cpPool EXCEPT ![n] = r]
  PROVE  /\ cpPool' \in Seq(PoolPlaces) /\ Pools' = Pools
         /\ cpPool'[n] = r
         /\ \A k \in Pools : k # n => cpPool'[k] = cpPool[k]
BY DEF Pools

\* The numbers of a pool that Balanced speaks of are numbers.
LEMMA PoolNumbers ==
  ASSUME OneCloser, ConnPoolInv, NEW n \in Pools
  PROVE  /\ cpPool[n] \in PoolPlaces
         /\ cpPool[n].idle \in Nat /\ cpPool[n].blank \in Nat /\ cpPool[n].cap \in Nat
         /\ IsFiniteSet(Leased(n)) /\ Cardinality(Leased(n)) \in Nat
         /\ Due(n) \in Nat /\ Owing(n) \in Nat
         /\ Balanced(n)
<1>1. cpPool[n] \in PoolPlaces  BY DEF ConnPoolInv, ConnPoolTypes, Pools
<1>2. IsFiniteSet(Leased(n)) /\ Cardinality(Leased(n)) \in Nat
  BY FS_Subset, FS_CardinalityType, Zenon DEF Leased, OneCloser
<1>3. Due(n) \in Nat  BY DEF Due, ConnPoolInv, ConnPoolTypes, OneCloser
<1>4. Balanced(n)  BY Zenon DEF ConnPoolInv
<1> QED  BY <1>1, <1>2, <1>3, <1>4 DEF Owing, PoolPlaces

\* A pool that somebody has leased from, or can still take from, is the one
\* the reference names, and it is not shut.
LEMMA TakenIsCurrent ==
  ASSUME OneCloser, ConnPoolInv, NEW n \in Pools,
         cpPool[n].idle > 0 \/ cpPool[n].blank > 0 \/ Leased(n) # {}
  PROVE  n = cpRef /\ ~cpPool[n].shut
<1>1. Leased(n) # {} => Cardinality(Leased(n)) > 0  BY PoolNumbers, FS_EmptySet
<1>2. Owing(n) > 0  BY <1>1, PoolNumbers DEF Balanced
<1> QED  BY <1>2, PoolNumbers DEF Balanced

\* What concerns the pools stays as it is when neither they, nor the leases,
\* nor the closing goroutine change.
LEMMA PoolsSame ==
  ASSUME ConnPoolInv, UNCHANGED <<cpRef, cpPool, cpTodo>>,
         cpAt'[closer] = cpAt[closer], cpP'[closer] = cpP[closer],
         \A n \in Pools : Leased(n)' = Leased(n)
  PROVE  /\ \A n \in Pools' : Balanced(n)'
         /\ CloserInv' /\ (cpRef # 0 => cpRef \in Pools)'
<1>1. Pools' = Pools  BY DEF Pools
<1>2. \A n : Owing(n)' = Owing(n)  BY DEF Owing, Due
<1>3. \A n \in Pools' : Balanced(n)'  BY <1>1, <1>2, Zenon DEF ConnPoolInv, Balanced
<1>4. CloserInv'  BY <1>2, Zenon DEF ConnPoolInv, CloserInv
<1> QED  BY <1>1, <1>3, <1>4 DEF ConnPoolInv

\* A user goes from one place to another without taking or returning
\* (GetStart, GetFail, RecycleStart).
LEMMA UserMoves ==
  ASSUME OneCloser, ConnPoolInv, NEW u \in PoolUsers, NEW there \in {"ready", "get", "use", "put"},
         cpAt' = [cpAt EXCEPT ![u] = there],
         cpP' = cpP \/ cpP' = [cpP EXCEPT ![u] = cpRef],
         UNCHANGED <<cpRef, cpCap, cpPool, cpFrom, cpTodo, cpPanicked>>,
         u \in Leased(cpFrom[u]) <=> there \in {"use", "put"},
         there = "put" => cpP'[u] = cpFrom[u],
         there = "get" => cpP'[u] \in Pools
  PROVE  ConnPoolInv'
<1>1. ConnPoolTypes'
  <2>1. cpP' \in [Procs -> Nat]  BY Zenon DEF ConnPoolInv, ConnPoolTypes, Procs
  <2>2. cpAt' \in [Procs -> {"ready", "get", "use", "put", "dead", "resize", "drain", "drop", "sizing"}]
    BY DEF ConnPoolInv, ConnPoolTypes, Procs
  <2> QED  BY <2>1, <2>2 DEF ConnPoolInv, ConnPoolTypes
<1>2. cpAt'[closer] = cpAt[closer] /\ cpP'[closer] = cpP[closer]
  BY DEF ConnPoolInv, ConnPoolTypes, Procs, OneCloser
<1>3. \A n \in Pools : Leased(n)' = Leased(n)
  BY DEF ConnPoolInv, ConnPoolTypes, Procs, Leased
<1>4. Pools' = Pools  BY DEF Pools
<1>5. \A v \in PoolUsers : UserInv(v)'
  BY <1>4 DEF ConnPoolInv, ConnPoolTypes, Procs, UserInv, Leased
<1> QED  BY <1>1, <1>2, <1>3, <1>5, PoolsSame DEF ConnPoolInv

\* The invariant of the pools is about these variables only.
LEMMA UserStays ==
  ASSUME ConnPoolInv, UNCHANGED <<cpRef, cpCap, cpPool, cpAt, cpP, cpFrom, cpTodo, cpPanicked>>
  PROVE  ConnPoolInv'
<1>1. Pools' = Pools /\ \A n : Leased(n)' = Leased(n)  BY Zenon DEF Pools, Leased
<1>2. \A v \in PoolUsers : UserInv(v)'  BY <1>1, Zenon DEF ConnPoolInv, UserInv
<1> QED  BY <1>1, <1>2, PoolsSame DEF ConnPoolInv, ConnPoolTypes

\* A user reads the reference, or learns that its Get failed.
LEMMA GetKeeps ==
  ASSUME OneCloser, ConnPoolInv, NEW u \in PoolUsers, GetStart(u) \/ GetFail(u)
  PROVE  ConnPoolInv'
<1>1. CASE GetStart(u)
  <2>1. cpP'[u] = cpRef  BY <1>1 DEF GetStart, GetPool, ConnPoolInv, ConnPoolTypes, Procs
  <2> QED  BY <1>1, <2>1, UserMoves, Zenon DEF GetStart, GetPool, Goto, ConnPoolInv, Leased
<1>2. CASE GetFail(u)
  BY <1>2, UserMoves, Zenon DEF GetFail, Goto, Leased
<1> QED  BY <1>1, <1>2

\* Recycle finds the reference that its connection came from.
LEMMA RecycleKeeps ==
  ASSUME OneCloser, ConnPoolInv, NEW u \in PoolUsers, RecycleStart(u)
  PROVE  ConnPoolInv'
<1>1. cpAt[u] = "use" /\ cpRef # 0 /\ cpFrom[u] = cpRef  BY Zenon DEF RecycleStart, ConnPoolInv, UserInv
<1>2. cpP'[u] = cpRef  BY DEF RecycleStart, GetPool, ConnPoolInv, ConnPoolTypes, Procs
<1> QED  BY <1>1, <1>2, UserMoves, Zenon DEF RecycleStart, GetPool, Goto, Leased

\* A user takes a connection, or a blank place: the pool is the current one.
LEMMA TakeKeeps ==
  ASSUME OneCloser, ConnPoolInv, NEW u \in PoolUsers, GetTake(u)
  PROVE  ConnPoolInv'
<1>1. PICK n \in Pools : cpAt[u] = "get" /\ n = cpP[u]  BY DEF GetTake, ConnPoolInv, UserInv
<1>2. n = cpRef /\ cpRef # 0  BY <1>1, TakenIsCurrent, PoolNumbers DEF GetTake, Pools
<1>3. PICK r \in PoolPlaces : /\ cpPool' = [cpPool EXCEPT ![n] = r]
                          /\ r.idle + r.blank = cpPool[n].idle + cpPool[n].blank - 1
                          /\ r.cap = cpPool[n].cap /\ r.shut = cpPool[n].shut
  <2>1. CASE cpPool[n].idle > 0 /\ cpPool' = [cpPool EXCEPT ![n].idle = @ - 1]
    <3> DEFINE q == [cpPool[n] EXCEPT !.idle = @ - 1]
    <3>1. q \in PoolPlaces /\ q.idle = cpPool[n].idle - 1 /\ q.blank = cpPool[n].blank
          /\ q.cap = cpPool[n].cap /\ q.shut = cpPool[n].shut
      BY <1>1, <2>1, PoolNumbers DEF PoolPlaces
    <3>2. cpPool' = [cpPool EXCEPT ![n] = q]  BY <2>1
    <3>3. q.idle + q.blank = cpPool[n].idle + cpPool[n].blank - 1  BY <3>1, PoolNumbers
    <3> HIDE DEF q
    <3> QED  BY <3>1, <3>2, <3>3, Zenon
  <2>2. CASE cpPool[n].blank > 0 /\ cpPool' = [cpPool EXCEPT ![n].blank = @ - 1]
    <3> DEFINE q == [cpPool[n] EXCEPT !.blank = @ - 1]
    <3>1. q \in PoolPlaces /\ q.blank = cpPool[n].blank - 1 /\ q.idle = cpPool[n].idle
          /\ q.cap = cpPool[n].cap /\ q.shut = cpPool[n].shut
      BY <1>1, <2>2, PoolNumbers DEF PoolPlaces
    <3>2. cpPool' = [cpPool EXCEPT ![n] = q]  BY <2>2
    <3>3. q.idle + q.blank = cpPool[n].idle + cpPool[n].blank - 1  BY <3>1, PoolNumbers
    <3> HIDE DEF q
    <3> QED  BY <3>1, <3>2, <3>3, Zenon
  <2> QED  BY <1>1, <2>1, <2>2 DEF GetTake
<1>4. /\ cpPool' \in Seq(PoolPlaces) /\ Pools' = Pools /\ cpPool'[n] = r
      /\ \A k \in Pools : k # n => cpPool'[k] = cpPool[k]
  <2>1. cpPool \in Seq(PoolPlaces)  BY DEF ConnPoolInv, ConnPoolTypes
  <2>2. cpPool' = [cpPool EXCEPT ![n] = r]  BY <1>3
  <2> QED  BY <2>1, <2>2, OnePool, Zenon
<1>5. /\ cpAt' = [cpAt EXCEPT ![u] = "use"] /\ cpFrom' = [cpFrom EXCEPT ![u] = n]
      /\ UNCHANGED <<cpRef, cpCap, cpP, cpTodo, cpPanicked>>
  BY <1>1 DEF GetTake, Goto
<1>6. ConnPoolTypes'
  <2>1. n \in Nat  BY DEF ConnPoolInv, ConnPoolTypes, Pools
  <2>2. cpFrom' \in [PoolUsers -> Nat]  BY <1>5, <2>1 DEF ConnPoolInv, ConnPoolTypes
  <2> QED  BY <1>4, <1>5, <2>2, Zenon DEF ConnPoolInv, ConnPoolTypes, Procs
<1>7. Leased(n)' = Leased(n) \cup {u} /\ u \notin Leased(n)
  BY <1>1, <1>5, Zenon DEF ConnPoolInv, ConnPoolTypes, Procs, Leased
<1>8. \A k \in Pools : k # n => Leased(k)' = Leased(k)
  BY <1>1, <1>5 DEF ConnPoolInv, ConnPoolTypes, Procs, Leased
<1>9. \A k \in Pools : Owing(k)' = Owing(k)
  BY <1>3, <1>4, <1>5, Zenon DEF Owing, Due, ConnPoolInv, ConnPoolTypes, Procs, OneCloser
<1>10. \A k \in Pools' : Balanced(k)'
  <2>1. Cardinality(Leased(n)') = Cardinality(Leased(n)) + 1  BY <1>1, <1>7, PoolNumbers, FS_AddElement, Zenon
  <2>2. Balanced(n)'
    <3>1. r.idle + r.blank + Cardinality(Leased(n)') = cpPool[n].idle + cpPool[n].blank + Cardinality(Leased(n))
      BY <1>3, <2>1, PoolNumbers DEF PoolPlaces
    <3>2. Balanced(n)  BY DEF ConnPoolInv
    <3> QED  BY <1>3, <1>4, <1>5, <1>9, <3>1, <3>2, Zenon DEF Balanced
  <2>3. \A k \in Pools : k # n => Balanced(k)'  BY <1>4, <1>5, <1>8, <1>9, Zenon DEF ConnPoolInv, Balanced
  <2> QED  BY <1>4, <2>2, <2>3, Zenon
<1>11. \A v \in PoolUsers : UserInv(v)'
  BY <1>1, <1>2, <1>4, <1>5, Zenon DEF ConnPoolInv, ConnPoolTypes, Procs, UserInv
<1>12. CloserInv'
  BY <1>2, <1>3, <1>4, <1>5, <1>9, Zenon DEF ConnPoolInv, ConnPoolTypes, Procs, OneCloser, CloserInv
<1> QED  BY <1>4, <1>5, <1>6, <1>10, <1>11, <1>12, Zenon DEF ConnPoolInv

\* A user gives its connection back: there is room, for its own place is
\* missing.
LEMMA PutKeeps ==
  ASSUME OneCloser, ConnPoolInv, NEW u \in PoolUsers, Put(u)
  PROVE  ConnPoolInv'
<1>1. PICK n \in Pools : cpAt[u] = "put" /\ n = cpP[u] /\ cpFrom[u] = n /\ n = cpRef /\ u \in Leased(n)
  BY DEF Put, ConnPoolInv, UserInv, Leased
<1>2. Cardinality(Leased(n) \ {u}) = Cardinality(Leased(n)) - 1 /\ Cardinality(Leased(n)) > 0
  BY <1>1, PoolNumbers, FS_RemoveElement, FS_EmptySet
<1>3. ~Full(cpPool[n])
  <2>1. ~cpPool[n].shut  BY <1>1, TakenIsCurrent, Zenon
  <2>2. cpPool[n].idle + cpPool[n].blank < MaxCap  BY <1>1, <1>2, PoolNumbers DEF Balanced, OneCloser
  <2> QED  BY <1>1, <2>1, <2>2, PoolNumbers DEF Full, OneCloser
<1>4. PICK r \in PoolPlaces : /\ cpPool' = [cpPool EXCEPT ![n] = r]
                          /\ r.idle + r.blank = cpPool[n].idle + cpPool[n].blank + 1
                          /\ r.cap = cpPool[n].cap /\ r.shut = cpPool[n].shut
  <2>1. CASE cpPool' = [cpPool EXCEPT ![n].idle = @ + 1]
    <3> DEFINE q == [cpPool[n] EXCEPT !.idle = @ + 1]
    <3>1. q \in PoolPlaces /\ q.idle = cpPool[n].idle + 1 /\ q.blank = cpPool[n].blank
          /\ q.cap = cpPool[n].cap /\ q.shut = cpPool[n].shut
      BY <1>1, <2>1, PoolNumbers DEF PoolPlaces
    <3>2. cpPool' = [cpPool EXCEPT ![n] = q]  BY <2>1
    <3>3. q.idle + q.blank = cpPool[n].idle + cpPool[n].blank + 1  BY <3>1, PoolNumbers
    <3> HIDE DEF q
    <3> QED  BY <3>1, <3>2, <3>3, Zenon
  <2>2. CASE cpPool' = [cpPool EXCEPT ![n].blank = @ + 1]
    <3> DEFINE q == [cpPool[n] EXCEPT !.blank = @ + 1]
    <3>1. q \in PoolPlaces /\ q.blank = cpPool[n].blank + 1 /\ q.idle = cpPool[n].idle
          /\ q.cap = cpPool[n].cap /\ q.shut = cpPool[n].shut
      BY <1>1, <2>2, PoolNumbers DEF PoolPlaces
    <3>2. cpPool' = [cpPool EXCEPT ![n] = q]  BY <2>2
    <3>3. q.idle + q.blank = cpPool[n].idle + cpPool[n].blank + 1  BY <3>1, PoolNumbers
    <3> HIDE DEF q
    <3> QED  BY <3>1, <3>2, <3>3, Zenon
  <2> QED  BY <1>1, <1>3, <2>1, <2>2 DEF Put
<1>5. /\ cpPool' \in Seq(PoolPlaces) /\ Pools' = Pools /\ cpPool'[n] = r
      /\ \A k \in Pools : k # n => cpPool'[k] = cpPool[k]
  <2>1. cpPool \in Seq(PoolPlaces)  BY DEF ConnPoolInv, ConnPoolTypes
  <2>2. cpPool' = [cpPool EXCEPT ![n] = r]  BY <1>4
  <2> QED  BY <2>1, <2>2, OnePool, Zenon
<1>6. /\ cpAt' = [cpAt EXCEPT ![u] = "ready"]
      /\ UNCHANGED <<cpRef, cpCap, cpP, cpFrom, cpTodo, cpPanicked>>
  BY <1>1, <1>3 DEF Put, Goto
<1>7. ConnPoolTypes'  BY <1>5, <1>6, Zenon DEF ConnPoolInv, ConnPoolTypes, Procs
<1>8. Leased(n)' = Leased(n) \ {u}  BY <1>1, <1>6 DEF ConnPoolInv, ConnPoolTypes, Procs, Leased
<1>9. \A k \in Pools : k # n => Leased(k)' = Leased(k)
  BY <1>1, <1>6, Zenon DEF ConnPoolInv, ConnPoolTypes, Procs, Leased
<1>10. \A k \in Pools : Owing(k)' = Owing(k)
  BY <1>4, <1>5, <1>6, Zenon DEF Owing, Due, ConnPoolInv, ConnPoolTypes, Procs, OneCloser
<1>11. \A k \in Pools' : Balanced(k)'
  <2>1. Balanced(n)'  BY <1>1, <1>2, <1>4, <1>5, <1>6, <1>8, <1>10, PoolNumbers, SMTT(30) DEF Balanced
  <2>2. \A k \in Pools : k # n => Balanced(k)'  BY <1>5, <1>6, <1>9, <1>10, Zenon DEF ConnPoolInv, Balanced
  <2> QED  BY <1>5, <2>1, <2>2
<1>12. \A v \in PoolUsers : UserInv(v)'
  BY <1>1, <1>5, <1>6, Zenon DEF ConnPoolInv, ConnPoolTypes, Procs, UserInv
<1>13. CloserInv'
  BY <1>1, <1>4, <1>5, <1>6, <1>10, Zenon DEF ConnPoolInv, ConnPoolTypes, Procs, OneCloser, CloserInv
<1> QED  BY <1>5, <1>6, <1>7, <1>11, <1>12, <1>13, Zenon DEF ConnPoolInv

\* Open makes a pool when there is none, and nobody has a connection then.
LEMMA OpenKeeps ==
  ASSUME OneCloser, ConnPoolInv, Open
  PROVE  ConnPoolInv'
<1>0. PICK m \in Nat : m = Len(cpPool) + 1  BY DEF ConnPoolInv, ConnPoolTypes
<1>1. /\ cpRef = 0 /\ cpPool' = Append(cpPool, NewResourcePool) /\ cpRef' = m
      /\ UNCHANGED <<cpCap, cpAt, cpP, cpFrom, cpTodo, cpPanicked>>
  BY <1>0 DEF Open
<1>2. cpPool \in Seq(PoolPlaces) /\ m # 0 /\ cpCap \in Nat /\ cpCap <= MaxCap /\ MaxCap \in Nat
  BY <1>0 DEF ConnPoolInv, ConnPoolTypes, OneCloser
<1>3. NewResourcePool \in PoolPlaces /\ NewResourcePool.cap = cpCap /\ NewResourcePool.idle = 0
      /\ NewResourcePool.blank = cpCap /\ NewResourcePool.shut = FALSE
  BY <1>2 DEF NewResourcePool, PoolPlaces
<1>4. /\ cpPool' \in Seq(PoolPlaces) /\ Pools' = Pools \cup {m} /\ cpPool'[m] = NewResourcePool
      /\ m \notin Pools
      /\ \A k \in Pools : cpPool'[k] = cpPool[k]
  BY <1>0, <1>1, <1>2, <1>3 DEF Pools
<1>5. ConnPoolTypes'  BY <1>1, <1>2, <1>4, Zenon DEF ConnPoolInv, ConnPoolTypes
<1>6. /\ \A u \in PoolUsers : cpAt[u] \in {"ready", "get"}
      /\ cpAt[closer] = "ready"
  BY <1>1, Zenon DEF ConnPoolInv, UserInv, CloserInv
<1>7. \A k : Leased(k)' = {} /\ Leased(k) = {}  BY <1>1, <1>6 DEF Leased
<1>8. \A k : Due(k)' = 0 /\ Due(k) = 0  BY <1>1, <1>6 DEF Due
<1>9. ASSUME NEW k \in Pools' PROVE Balanced(k)'
  <2>1. CASE k = m
    <3>1. Owing(m)' = cpCap  BY <1>2, <1>3, <1>4, <1>8 DEF Owing
    <3>2. Cardinality(Leased(m)') = 0  BY <1>7, FS_EmptySet
    <3>3. cpPool'[m].idle = 0 /\ cpPool'[m].blank = cpCap /\ cpPool'[m].shut = FALSE  BY <1>3, <1>4
    <3>4. (cpPool[m].idle + cpPool[m].blank + Cardinality(Leased(m)) = Owing(m))'
      BY <1>2, <3>1, <3>2, <3>3
    <3>5. (Owing(m) <= MaxCap)' /\ ~(cpPool[m].shut \/ m # cpRef)'  BY <1>1, <1>2, <3>1, <3>3, Zenon
    <3>6. Balanced(m)'  BY <3>4, <3>5 DEF Balanced
    <3> QED  BY <2>1, <3>6
  <2>2. CASE k \in Pools
    <3>1. Owing(k)' = Owing(k) /\ Leased(k)' = Leased(k) /\ cpPool'[k] = cpPool[k]
      BY <1>4, <1>7, <1>8, <2>2, Zenon DEF Owing
    <3>2. k # cpRef  BY <1>1, <2>2 DEF Pools
    <3> QED  BY <2>2, <3>1, <3>2, Zenon DEF ConnPoolInv, Balanced
  <2> QED  BY <1>4, <2>1, <2>2
<1>10. \A u \in PoolUsers : UserInv(u)'  BY <1>1, <1>4, <1>6, Zenon DEF ConnPoolInv, UserInv
<1>11. CloserInv'  BY <1>1, <1>6, Zenon DEF ConnPoolInv, CloserInv
<1> QED  BY <1>1, <1>4, <1>5, <1>9, <1>10, <1>11, Zenon DEF ConnPoolInv

\* A step of the closing goroutine in the current pool n: the pool becomes r,
\* and todo places are still to be taken out of it.
CloserMoves(n, r, there, todo) ==
  LET owed == IF there \in {"drain", "sizing"} THEN todo ELSE 0
  IN  /\ n = cpRef
      /\ cpPool' = [cpPool EXCEPT ![n] = r]
      /\ cpAt' = [cpAt EXCEPT ![closer] = there]
      /\ cpP' = [cpP EXCEPT ![closer] = n]
      /\ cpTodo' = [cpTodo EXCEPT ![closer] = todo]
      /\ cpCap' \in 1..MaxCap
      /\ UNCHANGED <<cpRef, cpFrom, cpPanicked>>
      /\ r.idle + r.blank + Owing(n) = cpPool[n].idle + cpPool[n].blank + r.cap + owed
      /\ r.cap + owed <= MaxCap
      /\ r.shut \/ there = "drop" => r.cap + owed = 0
      /\ there = "drain" => r.cap = 0

\* A step of the goroutine that closes and resizes keeps the invariant when
\* the tokens it moves add up.
LEMMA CloserKeeps ==
  ASSUME OneCloser, ConnPoolInv, NEW n \in Pools, NEW r \in PoolPlaces, NEW todo \in Nat,
         NEW there \in {"ready", "resize", "drain", "drop", "sizing"},
         CloserMoves(n, r, there, todo)
  PROVE  ConnPoolInv'
<1>0. PICK owed \in Nat : owed = IF there \in {"drain", "sizing"} THEN todo ELSE 0
  OBVIOUS
<1>1. /\ cpPool' \in Seq(PoolPlaces) /\ Pools' = Pools /\ cpPool'[n] = r
      /\ \A k \in Pools : k # n => cpPool'[k] = cpPool[k]
  BY OnePool, Zenon DEF ConnPoolInv, ConnPoolTypes, CloserMoves
<1>2. n \in Nat /\ n # 0 /\ closer \in Procs /\ closer \in Closers
  BY DEF Pools, ConnPoolInv, ConnPoolTypes, Procs, OneCloser
<1>3. cpAt'[closer] = there /\ cpP'[closer] = n /\ cpTodo'[closer] = todo
  BY <1>2 DEF ConnPoolInv, ConnPoolTypes, CloserMoves
<1>4. ConnPoolTypes'
  <2>1. cpAt' \in [Procs -> {"ready", "get", "use", "put", "dead", "resize", "drain", "drop", "sizing"}]
    BY <1>2, Zenon DEF ConnPoolInv, ConnPoolTypes, CloserMoves
  <2>2. cpP' \in [Procs -> Nat] /\ cpTodo' \in [Closers -> Nat]  BY <1>2 DEF ConnPoolInv, ConnPoolTypes, CloserMoves
  <2> QED  BY <1>1, <2>1, <2>2, Zenon DEF ConnPoolInv, ConnPoolTypes, CloserMoves
<1>5. \A u \in PoolUsers : cpAt'[u] = cpAt[u] /\ cpP'[u] = cpP[u]
  BY Zenon DEF ConnPoolInv, ConnPoolTypes, Procs, OneCloser, CloserMoves
<1>6. \A k : Leased(k)' = Leased(k)  BY <1>5 DEF Leased, CloserMoves
<1>7. Owing(n)' = r.cap + owed  BY <1>0, <1>1, <1>3, Zenon DEF Owing, Due
<1>8. \A k \in Pools : k # n => Owing(k)' = Owing(k)
  <2>1. \A k \in Pools : k # n => Due(k)' = 0  BY <1>3, Zenon DEF Due
  <2>2. \A k \in Pools : k # n => Due(k) = 0  BY DEF Due, ConnPoolInv, CloserInv, CloserMoves
  <2> QED  BY <1>1, <2>1, <2>2, Zenon DEF Owing
<1>9. Balanced(n)'
  <2>1. r.idle \in Nat /\ r.blank \in Nat /\ r.cap \in Nat  BY DEF PoolPlaces
  <2>2. cpPool[n].idle + cpPool[n].blank + Cardinality(Leased(n)) = Owing(n)  BY Zenon DEF ConnPoolInv, Balanced
  <2>3. r.idle + r.blank + Cardinality(Leased(n)) = r.cap + owed  BY <1>0, <2>1, <2>2, PoolNumbers DEF CloserMoves
  <2>4. (cpPool[n].idle + cpPool[n].blank + Cardinality(Leased(n)) = Owing(n))'  BY <1>1, <1>6, <1>7, <2>3, Zenon
  <2>5. (Owing(n) <= MaxCap)'  BY <1>0, <1>7 DEF CloserMoves
  <2>6. (cpPool[n].shut \/ n # cpRef => Owing(n) = 0)'  BY <1>0, <1>1, <1>7 DEF CloserMoves
  <2> QED  BY <2>4, <2>5, <2>6, Zenon DEF Balanced
<1>10. \A k \in Pools : k # n => Balanced(k)'  BY <1>1, <1>6, <1>8, Zenon DEF ConnPoolInv, Balanced, CloserMoves
<1>11. \A u \in PoolUsers : UserInv(u)'  BY <1>1, <1>5 DEF ConnPoolInv, UserInv, CloserMoves
<1>12. CloserInv'  BY <1>0, <1>1, <1>2, <1>3, <1>7, Zenon DEF CloserInv, CloserMoves
<1> QED  BY <1>1, <1>4, <1>9, <1>10, <1>11, <1>12, Zenon DEF ConnPoolInv, CloserMoves

\* There is one goroutine that closes and resizes.
LEMMA CloserIsOne == ASSUME OneCloser, NEW t \in Closers PROVE t = closer
BY DEF OneCloser

\* Close reads the reference, or finds none and returns.
LEMMA CloseStartKeeps ==
  ASSUME OneCloser, ConnPoolInv, NEW t \in Closers, CloseStart(t)
  PROVE  ConnPoolInv'
<1> t = closer  BY CloserIsOne
<1>1. cpAt[closer] = "ready" /\ closer \in Procs /\ closer \in Closers  BY DEF CloseStart, Procs
<1>2. UNCHANGED <<cpRef, cpCap, cpPool, cpFrom, cpTodo, cpPanicked>>  BY DEF CloseStart
<1>3. CASE cpRef = 0
  <2>1. cpAt' = cpAt /\ cpP' = [cpP EXCEPT ![closer] = 0]
    BY <1>1, <1>3 DEF CloseStart, GetPool, Goto, ConnPoolInv, ConnPoolTypes
  <2>2. \A u \in PoolUsers : cpP'[u] = cpP[u]  BY <2>1 DEF ConnPoolInv, ConnPoolTypes, Procs, OneCloser
  <2>3. ConnPoolTypes'  BY <1>1, <1>2, <2>1 DEF ConnPoolInv, ConnPoolTypes
  <2>4. \A n : Due(n) = 0 /\ Due(n)' = 0  BY <1>1, <2>1 DEF Due
  <2>5. \A n : Owing(n)' = Owing(n) /\ Leased(n)' = Leased(n)
    BY <1>2, <2>1, <2>2, <2>4, Zenon DEF Owing, Leased
  <2>6. \A n \in Pools' : Balanced(n)'  BY <1>2, <2>5, Zenon DEF ConnPoolInv, Balanced, Pools
  <2>7. \A u \in PoolUsers : UserInv(u)'  BY <1>2, <2>1, <2>2, Zenon DEF ConnPoolInv, UserInv, Pools
  <2>8. CloserInv'  BY <1>1, <2>1, Zenon DEF CloserInv
  <2> QED  BY <1>2, <1>3, <2>3, <2>6, <2>7, <2>8 DEF ConnPoolInv
<1>4. CASE cpRef # 0
  <2>1. PICK n \in Pools : n = cpRef  BY <1>4 DEF ConnPoolInv
  <2>2. cpPool' = [cpPool EXCEPT ![n] = cpPool[n]] /\ cpPool[n] \in PoolPlaces
    BY <1>2, <2>1, PoolNumbers DEF ConnPoolInv, ConnPoolTypes
  <2>3. cpAt' = [cpAt EXCEPT ![closer] = "resize"] /\ cpP' = [cpP EXCEPT ![closer] = n]
    BY <1>4, <2>1 DEF CloseStart, GetPool, Goto
  <2>4. cpTodo' = [cpTodo EXCEPT ![closer] = cpTodo[closer]] /\ cpTodo[closer] \in Nat
    BY <1>1, <1>2 DEF ConnPoolInv, ConnPoolTypes
  <2>5. Due(n) = 0  BY <1>1 DEF Due
  <2>6. Owing(n) = cpPool[n].cap /\ cpPool[n].cap \in Nat  BY <2>5, PoolNumbers DEF Owing
  <2>7. cpPool[n].cap <= MaxCap /\ (cpPool[n].shut => cpPool[n].cap = 0) /\ MaxCap \in Nat
    BY <2>1, <2>6, Zenon DEF ConnPoolInv, Balanced, OneCloser
  <2>8. cpCap' \in 1..MaxCap  BY <1>2 DEF ConnPoolInv, ConnPoolTypes
  <2>9. PICK r \in PoolPlaces, todo \in Nat : r = cpPool[n] /\ todo = cpTodo[closer]  BY <2>2, <2>4
  <2>10. r.idle + r.blank + Owing(n) = cpPool[n].idle + cpPool[n].blank + r.cap + 0
    BY <2>6, <2>9 DEF PoolPlaces
  <2>11. r.cap + 0 <= MaxCap /\ (r.shut => r.cap + 0 = 0)  BY <2>6, <2>7, <2>9
  <2>12. CloserMoves(n, r, "resize", todo)
    BY <1>2, <2>1, <2>2, <2>3, <2>4, <2>8, <2>9, <2>10, <2>11, Zenon DEF CloserMoves
  <2> QED  BY <2>12, CloserKeeps
<1> QED  BY <1>3, <1>4

\* What ResourcePool.SetCapacity does at once: blank places for a larger
\* capacity, places to take out for a smaller one.
LEMMA Resized ==
  ASSUME OneCloser, ConnPoolInv, NEW n \in Pools, NEW c \in Nat, cpPool[n].cap # 0, ResizePool(closer, n, c)
  PROVE  \E r \in PoolPlaces, todo \in Nat :
           /\ cpPool' = [cpPool EXCEPT ![n] = r]
           /\ cpTodo' = [cpTodo EXCEPT ![closer] = todo]
           /\ r.cap = c /\ r.shut = cpPool[n].shut
           /\ r.idle + r.blank + cpPool[n].cap = cpPool[n].idle + cpPool[n].blank + c + todo
           /\ IF c <= cpPool[n].cap THEN c + todo = cpPool[n].cap ELSE todo = 0
<1>1. PICK old \in Nat : old = cpPool[n].cap  BY PoolNumbers, Zenon
<1>2. PICK more \in Nat : more = IF c - old > 0 THEN c - old ELSE 0  BY <1>1
<1>3. PICK todo \in Nat : todo = IF old - c > 0 THEN old - c ELSE 0  BY <1>1
<1>4. Max({0, c - old}) = more /\ Max({0, old - c}) = todo  BY <1>1, <1>2, <1>3, MaxOfTwo
<1>5. /\ cpPool' = [cpPool EXCEPT ![n].cap = c, ![n].blank = @ + more]
      /\ cpTodo' = [cpTodo EXCEPT ![closer] = todo]
  BY <1>1, <1>4 DEF ResizePool
<1> DEFINE p == [cpPool[n] EXCEPT !.cap = c]
           q == [p EXCEPT !.blank = @ + more]
<1>6. p \in PoolPlaces /\ p.cap = c /\ p.blank = cpPool[n].blank
      /\ p.idle = cpPool[n].idle /\ p.shut = cpPool[n].shut
  BY PoolNumbers DEF PoolPlaces
<1>7. cpPool' = [cpPool EXCEPT ![n] = q]
  BY <1>5, Zenon DEF ConnPoolInv, ConnPoolTypes, Pools
<1> HIDE DEF p
<1>8. q \in PoolPlaces /\ q.cap = c /\ q.blank = cpPool[n].blank + more
      /\ q.idle = cpPool[n].idle /\ q.shut = cpPool[n].shut
  BY <1>2, <1>6 DEF PoolPlaces
<1> HIDE DEF q
<1>9. q.idle + q.blank + old = cpPool[n].idle + cpPool[n].blank + c + todo
  <2>1. more + old = c + todo  BY <1>2, <1>3
  <2>2. cpPool[n].idle \in Nat /\ cpPool[n].blank \in Nat  BY PoolNumbers, Zenon
  <2>3. \A i, b \in Nat : i + (b + more) + old = i + b + c + todo  BY <2>1
  <2>4. q.idle = cpPool[n].idle /\ q.blank = cpPool[n].blank + more  BY <1>8, Zenon
  <2> QED  BY <2>2, <2>3, <2>4
<1>10. IF c <= old THEN c + todo = old ELSE todo = 0  BY <1>3
<1> QED  BY <1>1, <1>5, <1>7, <1>8, <1>9, <1>10, Zenon

\* One place is taken out.
LEMMA Drained ==
  ASSUME OneCloser, ConnPoolInv, NEW n \in Pools, Drain(closer, n)
  PROVE  \E r \in PoolPlaces, todo \in Nat :
           /\ cpPool' = [cpPool EXCEPT ![n] = r]
           /\ cpTodo' = [cpTodo EXCEPT ![closer] = todo]
           /\ r.cap = cpPool[n].cap /\ r.shut = cpPool[n].shut
           /\ cpTodo[closer] = todo + 1
           /\ r.idle + r.blank + 1 = cpPool[n].idle + cpPool[n].blank
<1>1. cpTodo[closer] \in Nat  BY DEF ConnPoolInv, ConnPoolTypes, OneCloser
<1>2. PICK todo \in Nat : todo = cpTodo[closer] - 1  BY <1>1 DEF Drain
<1>3. cpTodo' = [cpTodo EXCEPT ![closer] = todo] /\ cpTodo[closer] = todo + 1
  BY <1>1, <1>2 DEF Drain
<1>4. PICK r \in PoolPlaces : /\ cpPool' = [cpPool EXCEPT ![n] = r]
                          /\ r.idle + r.blank + 1 = cpPool[n].idle + cpPool[n].blank
                          /\ r.cap = cpPool[n].cap /\ r.shut = cpPool[n].shut
  <2>1. CASE cpPool[n].idle > 0 /\ cpPool' = [cpPool EXCEPT ![n].idle = @ - 1]
    <3> DEFINE q == [cpPool[n] EXCEPT !.idle = @ - 1]
    <3>1. q \in PoolPlaces /\ q.idle = cpPool[n].idle - 1 /\ q.blank = cpPool[n].blank
          /\ q.cap = cpPool[n].cap /\ q.shut = cpPool[n].shut
      BY <2>1, PoolNumbers DEF PoolPlaces
    <3>2. cpPool' = [cpPool EXCEPT ![n] = q]  BY <2>1
    <3>3. q.idle + q.blank + 1 = cpPool[n].idle + cpPool[n].blank  BY <3>1, PoolNumbers
    <3> HIDE DEF q
    <3> QED  BY <3>1, <3>2, <3>3, Zenon
  <2>2. CASE cpPool[n].blank > 0 /\ cpPool' = [cpPool EXCEPT ![n].blank = @ - 1]
    <3> DEFINE q == [cpPool[n] EXCEPT !.blank = @ - 1]
    <3>1. q \in PoolPlaces /\ q.blank = cpPool[n].blank - 1 /\ q.idle = cpPool[n].idle
          /\ q.cap = cpPool[n].cap /\ q.shut = cpPool[n].shut
      BY <2>2, PoolNumbers DEF PoolPlaces
    <3>2. cpPool' = [cpPool EXCEPT ![n] = q]  BY <2>2
    <3>3. q.idle + q.blank + 1 = cpPool[n].idle + cpPool[n].blank  BY <3>1, PoolNumbers
    <3> HIDE DEF q
    <3> QED  BY <3>1, <3>2, <3>3, Zenon
  <2> QED  BY <2>1, <2>2 DEF Drain
<1> QED  BY <1>3, <1>4, Zenon

\* The closing goroutine is in the current pool, except between its calls.
LEMMA CloserAt ==
  ASSUME OneCloser, ConnPoolInv, cpAt[closer] # "ready"
  PROVE  /\ cpRef \in Pools /\ cpP[closer] = cpRef /\ cpP = [cpP EXCEPT ![closer] = cpRef]
         /\ cpTodo[closer] \in Nat /\ cpTodo = [cpTodo EXCEPT ![closer] = cpTodo[closer]]
         /\ cpAt = [cpAt EXCEPT ![closer] = cpAt[closer]]
BY Zenon DEF ConnPoolInv, ConnPoolTypes, CloserInv, Procs, OneCloser

\* A pool of capacity 0 refuses and Close goes on to drop the reference;
\* otherwise the whole capacity is to be drained.
LEMMA CloseResizeKeeps ==
  ASSUME OneCloser, ConnPoolInv, NEW t \in Closers, CloseResize(t)
  PROVE  ConnPoolInv'
<1>1. t = closer /\ cpAt[closer] = "resize"  BY CloserIsOne, Zenon DEF CloseResize
<1>2. PICK n \in Pools : n = cpRef /\ n = cpP[closer] /\ cpP = [cpP EXCEPT ![closer] = n]
  BY <1>1, CloserAt
<1>3. UNCHANGED <<cpRef, cpCap, cpP, cpFrom, cpPanicked>> /\ cpCap' \in 1..MaxCap
  BY Zenon DEF CloseResize, ConnPoolInv, ConnPoolTypes
<1>4. Owing(n) = cpPool[n].cap /\ Owing(n) <= MaxCap
  <2>1. Owing(n) = cpPool[n].cap  BY <1>1, PoolNumbers, SMTT(30) DEF Owing, Due
  <2>2. Owing(n) <= MaxCap  BY Zenon DEF ConnPoolInv, Balanced
  <2> QED  BY <2>1, <2>2, Zenon
<1>5. CASE cpPool[n].cap = 0
  <2>1. cpAt' = [cpAt EXCEPT ![closer] = "drop"] /\ UNCHANGED <<cpPool, cpTodo>>
    BY <1>1, <1>2, <1>5 DEF CloseResize, ResizePool, Goto
  <2>2. PICK r \in PoolPlaces, todo \in Nat :
          r = cpPool[n] /\ todo = cpTodo[closer] /\ cpTodo = [cpTodo EXCEPT ![closer] = todo]
    BY <1>1, CloserAt, PoolNumbers
  <2>3. cpPool' = [cpPool EXCEPT ![n] = r]  BY <2>1, <2>2 DEF ConnPoolInv, ConnPoolTypes
  <2>4. r.idle + r.blank + Owing(n) = cpPool[n].idle + cpPool[n].blank + r.cap + 0
    BY <1>4, <2>2, PoolNumbers
  <2>5. r.cap + 0 <= MaxCap /\ r.cap + 0 = 0  BY <1>4, <1>5, <2>2
  <2>6. CloserMoves(n, r, "drop", todo)
    BY <1>2, <1>3, <2>1, <2>2, <2>3, <2>4, <2>5, Zenon DEF CloserMoves
  <2> QED  BY <2>6, CloserKeeps
<1>6. CASE cpPool[n].cap # 0
  <2>1. cpAt' = [cpAt EXCEPT ![closer] = "drain"] /\ ResizePool(closer, n, 0)
    BY <1>1, <1>2, <1>6 DEF CloseResize, Goto
  <2>2. PICK r \in PoolPlaces, todo \in Nat :
           /\ cpPool' = [cpPool EXCEPT ![n] = r]
           /\ cpTodo' = [cpTodo EXCEPT ![closer] = todo]
           /\ r.cap = 0 /\ r.shut = cpPool[n].shut
           /\ r.idle + r.blank + cpPool[n].cap = cpPool[n].idle + cpPool[n].blank + 0 + todo
           /\ IF 0 <= cpPool[n].cap THEN 0 + todo = cpPool[n].cap ELSE todo = 0
    BY <1>6, <2>1, Resized
  <2>3. todo = cpPool[n].cap  BY <2>2, PoolNumbers
  <2>4. ~r.shut  BY <1>4, <1>6, <2>2 DEF ConnPoolInv, Balanced
  <2>5. /\ r.idle + r.blank + Owing(n) = cpPool[n].idle + cpPool[n].blank + r.cap + todo
        /\ r.cap + todo <= MaxCap
    BY <1>4, <2>2, <2>3, PoolNumbers
  <2>6. CloserMoves(n, r, "drain", todo)
    BY <1>2, <1>3, <2>1, <2>2, <2>4, <2>5, Zenon DEF CloserMoves
  <2> QED  BY <2>6, CloserKeeps
<1> QED  BY <1>5, <1>6, Zenon

\* A place that is taken out is owed no longer.
LEMMA DrainKeeps ==
  ASSUME OneCloser, ConnPoolInv, NEW t \in Closers, CloseDrain(t) \/ SetCapacityDrain(t)
  PROVE  ConnPoolInv'
<1>1. t = closer /\ cpAt[closer] \in {"drain", "sizing"}
  BY CloserIsOne, Zenon DEF CloseDrain, SetCapacityDrain
<1>2. PICK n \in Pools : n = cpRef /\ n = cpP[closer] /\ cpP = [cpP EXCEPT ![closer] = n]
  BY <1>1, CloserAt
<1>3. PICK there \in {"drain", "sizing"} :
        there = cpAt[closer] /\ cpAt = [cpAt EXCEPT ![closer] = there]
  BY <1>1, CloserAt
<1>4. UNCHANGED <<cpRef, cpCap, cpAt, cpP, cpFrom, cpPanicked>> /\ cpCap' \in 1..MaxCap
  BY DEF CloseDrain, SetCapacityDrain, ConnPoolInv, ConnPoolTypes
<1>5. Drain(closer, n)  BY <1>1, <1>2 DEF CloseDrain, SetCapacityDrain
<1>6. PICK r \in PoolPlaces, todo \in Nat :
           /\ cpPool' = [cpPool EXCEPT ![n] = r]
           /\ cpTodo' = [cpTodo EXCEPT ![closer] = todo]
           /\ r.cap = cpPool[n].cap /\ r.shut = cpPool[n].shut
           /\ cpTodo[closer] = todo + 1
           /\ r.idle + r.blank + 1 = cpPool[n].idle + cpPool[n].blank
  BY <1>5, Drained
<1>7. Owing(n) = r.cap + todo + 1  BY <1>1, <1>2, <1>6, PoolNumbers DEF Owing, Due, PoolPlaces
<1>8. Owing(n) <= MaxCap /\ (r.shut => Owing(n) = 0) /\ MaxCap \in Nat /\ Owing(n) \in Nat
  BY <1>6, PoolNumbers, Zenon DEF Balanced, OneCloser
<1>9. r.idle + r.blank + Owing(n) = cpPool[n].idle + cpPool[n].blank + r.cap + todo
  BY <1>6, <1>7, PoolNumbers DEF PoolPlaces
<1>10. r.cap + todo <= MaxCap /\ ~r.shut  BY <1>6, <1>7, <1>8 DEF PoolPlaces
<1>11. there = "drain" => r.cap = 0  BY <1>2, <1>3, <1>6 DEF ConnPoolInv, CloserInv
<1>12. CloserMoves(n, r, there, todo)
  BY <1>2, <1>3, <1>4, <1>6, <1>9, <1>10, <1>11, Zenon DEF CloserMoves
<1> QED  BY <1>12, CloserKeeps

\* The drained pool is shut: nobody has a connection of it any more.
LEMMA CloseShutKeeps ==
  ASSUME OneCloser, ConnPoolInv, NEW t \in Closers, CloseShut(t)
  PROVE  ConnPoolInv'
<1>1. t = closer /\ cpAt[closer] = "drain" /\ cpTodo[closer] = 0  BY CloserIsOne DEF CloseShut
<1>2. PICK n \in Pools : n = cpRef /\ n = cpP[closer] /\ cpP = [cpP EXCEPT ![closer] = n]
  BY <1>1, CloserAt
<1>3. /\ UNCHANGED <<cpRef, cpCap, cpP, cpFrom, cpTodo, cpPanicked>> /\ cpCap' \in 1..MaxCap
      /\ cpAt' = [cpAt EXCEPT ![closer] = "drop"]
      /\ cpPool' = [cpPool EXCEPT ![n].shut = TRUE]
  BY <1>1, <1>2 DEF CloseShut, Goto, ConnPoolInv, ConnPoolTypes
<1>4. cpPool[n].cap = 0 /\ Owing(n) = 0  BY <1>1, <1>2 DEF ConnPoolInv, CloserInv, Owing, Due
<1> DEFINE q == [cpPool[n] EXCEPT !.shut = TRUE]
<1>5. q \in PoolPlaces /\ q.cap = 0 /\ q.idle = cpPool[n].idle /\ q.blank = cpPool[n].blank
  BY <1>4, PoolNumbers, Zenon DEF PoolPlaces
<1>6. cpPool' = [cpPool EXCEPT ![n] = q]  BY <1>3
<1> HIDE DEF q
<1>7. PICK todo \in Nat : cpTodo = [cpTodo EXCEPT ![closer] = todo]  BY <1>1, CloserAt
<1>8. q.idle + q.blank + Owing(n) = cpPool[n].idle + cpPool[n].blank + q.cap + 0
  BY <1>4, <1>5, PoolNumbers
<1>9. q.cap + 0 <= MaxCap /\ q.cap + 0 = 0  BY <1>5 DEF OneCloser
<1>10. CloserMoves(n, q, "drop", todo)
  BY <1>2, <1>3, <1>6, <1>7, <1>8, <1>9, Zenon DEF CloserMoves
<1> QED  BY <1>5, <1>10, CloserKeeps, Zenon

\* The reference is dropped when nothing is owed, so nobody has a connection.
LEMMA CloseDropKeeps ==
  ASSUME OneCloser, ConnPoolInv, NEW t \in Closers, CloseDrop(t)
  PROVE  ConnPoolInv'
<1>1. t = closer /\ cpAt[closer] = "drop" /\ cpRef' = 0
      /\ cpAt' = [cpAt EXCEPT ![closer] = "ready"]
      /\ UNCHANGED <<cpCap, cpPool, cpP, cpFrom, cpTodo, cpPanicked>>
  BY CloserIsOne, Zenon DEF CloseDrop, Goto
<1>2. cpRef \in Pools /\ cpAt'[closer] = "ready"
  BY <1>1, CloserAt, Zenon DEF ConnPoolInv, ConnPoolTypes, Procs, OneCloser
<1>3. Owing(cpRef) = 0  BY <1>1, Zenon DEF ConnPoolInv, CloserInv
<1>4. Cardinality(Leased(cpRef)) = 0  BY <1>2, <1>3, PoolNumbers DEF Balanced
<1>5. Leased(cpRef) = {}  BY <1>2, <1>4, PoolNumbers, FS_EmptySet, Zenon
<1>6. \A u \in PoolUsers : cpAt[u] \in {"ready", "get"}  BY <1>5, Zenon DEF Leased, ConnPoolInv, UserInv
<1>7. \A u \in PoolUsers : cpAt'[u] = cpAt[u]  BY <1>1 DEF ConnPoolInv, ConnPoolTypes, Procs, OneCloser
<1>8. ConnPoolTypes'  BY <1>1, <1>2 DEF ConnPoolInv, ConnPoolTypes
<1>9. \A n : Leased(n)' = Leased(n)  BY <1>1, <1>7 DEF Leased
<1>10. \A n : Due(n) = 0 /\ Due(n)' = 0  BY <1>1, <1>2 DEF Due, ConnPoolInv, ConnPoolTypes
<1>11. \A n : Owing(n)' = Owing(n)  BY <1>1, <1>10, Zenon DEF Owing
<1>12. \A n \in Pools : Owing(n) = 0  BY <1>3 DEF ConnPoolInv, Balanced
<1>13. \A n \in Pools' : Balanced(n)'
  BY <1>1, <1>9, <1>11, <1>12, Zenon DEF ConnPoolInv, Balanced, Pools
<1>14. \A u \in PoolUsers : UserInv(u)'  BY <1>1, <1>6, <1>7, Zenon DEF ConnPoolInv, UserInv, Pools
<1>15. CloserInv'  BY <1>1, <1>2, Zenon DEF CloserInv, ConnPoolInv, ConnPoolTypes
<1> QED  BY <1>1, <1>8, <1>13, <1>14, <1>15 DEF ConnPoolInv

\* SetCapacity starts to resize the current pool; what it takes out is owed
\* until it is out.
LEMMA SetCapacityKeeps ==
  ASSUME OneCloser, ConnPoolInv, NEW t \in Closers, NEW c \in 1..MaxCap, SetCapacity(t, c)
  PROVE  ConnPoolInv'
<1>1. t = closer /\ cpAt[closer] = "ready"  BY CloserIsOne DEF SetCapacity
<1>2. PICK n \in Pools : n = cpRef  BY DEF SetCapacity, ConnPoolInv
<1>3. /\ UNCHANGED <<cpRef, cpFrom, cpPanicked>> /\ cpCap' \in 1..MaxCap
      /\ cpAt' = [cpAt EXCEPT ![closer] = "sizing"]
      /\ cpP' = [cpP EXCEPT ![closer] = n]
      /\ ResizePool(closer, n, c) /\ cpPool[n].cap # 0
  BY <1>1, <1>2, Zenon DEF SetCapacity, Goto
<1>4. Owing(n) = cpPool[n].cap  BY <1>1, PoolNumbers DEF Owing, Due
<1>5. Owing(n) <= MaxCap /\ (cpPool[n].shut => Owing(n) = 0) /\ MaxCap \in Nat /\ c \in Nat /\ c <= MaxCap
  BY DEF ConnPoolInv, Balanced, OneCloser
<1>6. PICK r \in PoolPlaces, todo \in Nat :
           /\ cpPool' = [cpPool EXCEPT ![n] = r]
           /\ cpTodo' = [cpTodo EXCEPT ![closer] = todo]
           /\ r.cap = c /\ r.shut = cpPool[n].shut
           /\ r.idle + r.blank + cpPool[n].cap = cpPool[n].idle + cpPool[n].blank + c + todo
           /\ IF c <= cpPool[n].cap THEN c + todo = cpPool[n].cap ELSE todo = 0
  BY <1>3, <1>5, Resized, Zenon
<1>7. r.idle + r.blank + Owing(n) = cpPool[n].idle + cpPool[n].blank + r.cap + todo  BY <1>4, <1>6
<1>8. r.cap + todo <= MaxCap  BY <1>4, <1>5, <1>6, PoolNumbers
<1>9. ~r.shut  BY <1>3, <1>4, <1>5, <1>6
<1>10. CloserMoves(n, r, "sizing", todo)
  BY <1>2, <1>3, <1>6, <1>7, <1>8, <1>9, Zenon DEF CloserMoves
<1> QED  BY <1>10, CloserKeeps

\* SetCapacity without a pool notes the capacity of the next one.
LEMMA SetCapacityClosedKeeps ==
  ASSUME OneCloser, ConnPoolInv, NEW t \in Closers, NEW c \in 1..MaxCap, SetCapacityClosed(t, c)
  PROVE  ConnPoolInv'
<1>1. UNCHANGED <<cpRef, cpPool, cpAt, cpP, cpFrom, cpTodo, cpPanicked>> /\ cpCap' \in 1..MaxCap
  BY DEF SetCapacityClosed
<1>2. Pools' = Pools /\ \A n : Leased(n)' = Leased(n)  BY <1>1, Zenon DEF Pools, Leased
<1>3. \A v \in PoolUsers : UserInv(v)'  BY <1>1, <1>2, Zenon DEF ConnPoolInv, UserInv
<1>4. ConnPoolTypes'  BY <1>1 DEF ConnPoolInv, ConnPoolTypes
<1> QED  BY <1>1, <1>2, <1>3, <1>4, PoolsSame, Zenon DEF ConnPoolInv

\* SetCapacity returns when nothing is left to take out.
LEMMA SetCapacityEndKeeps ==
  ASSUME OneCloser, ConnPoolInv, NEW t \in Closers, SetCapacityEnd(t)
  PROVE  ConnPoolInv'
<1>1. t = closer /\ cpAt[closer] = "sizing" /\ cpTodo[closer] = 0  BY CloserIsOne DEF SetCapacityEnd
<1>2. PICK n \in Pools : n = cpRef /\ n = cpP[closer] /\ cpP = [cpP EXCEPT ![closer] = n]
  BY <1>1, CloserAt
<1>3. /\ UNCHANGED <<cpRef, cpCap, cpPool, cpP, cpFrom, cpTodo, cpPanicked>> /\ cpCap' \in 1..MaxCap
      /\ cpAt' = [cpAt EXCEPT ![closer] = "ready"]
  BY <1>1 DEF SetCapacityEnd, Goto, ConnPoolInv, ConnPoolTypes
<1>4. Owing(n) = cpPool[n].cap  BY <1>1, <1>2, PoolNumbers DEF Owing, Due
<1>5. PICK r \in PoolPlaces, todo \in Nat : r = cpPool[n] /\ cpTodo = [cpTodo EXCEPT ![closer] = todo]
  BY <1>1, CloserAt, PoolNumbers
<1>6. cpPool' = [cpPool EXCEPT ![n] = r]  BY <1>3, <1>5 DEF ConnPoolInv, ConnPoolTypes
<1>7. r.idle + r.blank + Owing(n) = cpPool[n].idle + cpPool[n].blank + r.cap + 0
  BY <1>4, <1>5, PoolNumbers
<1>8. r.cap + 0 <= MaxCap /\ (r.shut => r.cap + 0 = 0)  BY <1>4, <1>5, PoolNumbers DEF Balanced
<1>9. CloserMoves(n, r, "ready", todo)
  BY <1>2, <1>3, <1>5, <1>6, <1>7, <1>8, Zenon DEF CloserMoves
<1> QED  BY <1>9, CloserKeeps

\* The invariant of the pools holds at first.
LEMMA PoolInitKeeps == ASSUME OneCloser, PoolInit PROVE ConnPoolInv
<1>1. ConnPoolTypes  BY DEF PoolInit, ConnPoolTypes, OneCloser, Procs
<1>2. Pools = {}  BY DEF PoolInit, Pools
<1>3. \A u \in PoolUsers : UserInv(u)  BY DEF PoolInit, UserInv, Procs
<1>4. CloserInv  BY DEF PoolInit, CloserInv, Procs, OneCloser
<1> QED  BY <1>1, <1>2, <1>3, <1>4 DEF PoolInit, ConnPoolInv

\* Every step of a user or of the closing goroutine keeps the count of the
\* places right.
LEMMA PoolNextKeeps == ASSUME OneCloser, ConnPoolInv, [PoolNext]_poolVars PROVE ConnPoolInv'
<1>1. CASE Open  BY <1>1, OpenKeeps
<1>2. ASSUME NEW u \in PoolUsers,
             \/ GetStart(u) \/ GetTake(u) \/ GetFail(u) \/ CloseConn(u) \/ Reconnect(u)
             \/ RecycleStart(u) \/ Put(u)
      PROVE  ConnPoolInv'
  <2>1. CASE CloseConn(u) \/ Reconnect(u)  BY <2>1, UserStays DEF CloseConn, Reconnect
  <2> QED  BY <1>2, <2>1, GetKeeps, TakeKeeps, RecycleKeeps, PutKeeps
<1>3. ASSUME NEW t \in Closers,
             \/ CloseStart(t) \/ CloseResize(t) \/ CloseDrain(t) \/ CloseShut(t) \/ CloseDrop(t)
             \/ SetCapacityDrain(t) \/ SetCapacityEnd(t)
             \/ \E c \in 1..MaxCap : SetCapacity(t, c) \/ SetCapacityClosed(t, c)
      PROVE  ConnPoolInv'
  BY <1>3, CloseStartKeeps, CloseResizeKeeps, DrainKeeps, CloseShutKeeps, CloseDropKeeps,
     SetCapacityEndKeeps, SetCapacityKeeps, SetCapacityClosedKeeps
<1>4. CASE UNCHANGED poolVars  BY <1>4, UserStays DEF poolVars
<1> QED  BY <1>1, <1>2, <1>3, <1>4 DEF PoolNext

-----------------------------------------------------------------------------
\* Recycle gives a connection back to the pool that Get took it from, and its
\* Put neither finds the reference gone nor the channel full or closed, for
\* any number of users and openings, any capacities, and any interleaving of
\* one goroutine's Close and SetCapacity with them (connection_pool.go).
THEOREM ConnectionsRecycled ==
  ASSUME OneCloser
  PROVE  PoolSpec => []RecycledWhereTaken
<1>1. PoolInit => ConnPoolInv  BY PoolInitKeeps
<1>2. ConnPoolInv /\ [PoolNext]_poolVars => ConnPoolInv'  BY PoolNextKeeps
<1>3. ConnPoolInv => RecycledWhereTaken  BY DEF ConnPoolInv, UserInv, RecycledWhereTaken
<1> QED  BY <1>1, <1>2, <1>3, PTL DEF PoolSpec

-----------------------------------------------------------------------------
(***************************************************************************)
(* The control centre, for any number of proxies and namespaces, any lists *)
(* of replicas and any number of operations, faults and restarts.  DCsApart *)
(* is strengthened to what every step needs: all addresses of the master's *)
(* side of a document, not only the master, are in the data centre that    *)
(* MasterDC tells; so it is with the documents an operation has still to   *)
(* store and those a proxy has prepared; and what is stored has an address *)
(* on that side, since a slice without one is not verified.                *)
(***************************************************************************)

\* The data centre of the first master, and a document that keeps to its sides.
HomeDC == Home[FirstDocument.master]
Sided(ns) ==
  /\ \A a \in MasterSide(ns) : Home[a] = HomeDC <=> ns.masterDC = FirstDocument.masterDC
  /\ \A a \in OtherSide(ns) : Home[a] # HomeDC <=> ns.masterDC = FirstDocument.masterDC
GoodDoc(ns) == ns \in Documents /\ Sided(ns)
DocMap(f) == DOMAIN f \subseteq Names /\ \A n \in DOMAIN f : GoodDoc(f[n])

StoredGood == DOMAIN ccStore = Names /\ DocMap(ccStore) /\ \A n \in Names : Verified(ccStore[n])
ServedGood ==
  /\ DOMAIN ccServed = Proxies /\ \A p \in Proxies : DocMap(ccServed[p])
  /\ DOMAIN ccReady = Proxies /\ \A p \in Proxies : ccReady[p] # <<>> => DocMap(ccReady[p][1])
OpGood ==
  /\ {"at", "todo", "left"} \subseteq DOMAIN ccOp /\ DocMap(ccOp.todo) /\ ccOp.left \subseteq Proxies
  /\ ccOp.at # "idle" => DOMAIN ccOp.todo # {}
CentreInv == StoredGood /\ ServedGood /\ OpGood

\* Every nonempty set of naturals has a least element.
LEMMA LeastOf ==
  ASSUME NEW T, T \subseteq Nat, T # {}
  PROVE  \E x \in T : \A y \in T : x <= y
<1>1. PICK x \in T : \A y \in T : ~(<<y, x>> \in OpToRel(<, Nat))
  BY NatLessThanWellFounded, WFMin, Zenon
<1>2. \A y \in T : ~(y < x)
  BY <1>1, Zenon DEF OpToRel
<1> QED BY <1>2

\* The document ModifyNamespace is called with is one of those still to do.
LEMMA TargetIn ==
  ASSUME DOMAIN ccOp.todo \subseteq Names, DOMAIN ccOp.todo # {}
  PROVE  Target \in DOMAIN ccOp.todo
<1> DEFINE T == {i \in 1..Len(NameList) : NameList[i] \in DOMAIN ccOp.todo}
<1>1. T # {} /\ T \subseteq Nat
  BY NamesAssumption DEF Names, Range
<1>2. PICK x \in T : \A y \in T : x <= y
  BY <1>1, LeastOf, Zenon
<1>3. x \in 1..Len(NameList) /\ NameList[x] \in DOMAIN ccOp.todo
      /\ \A j \in 1..(x - 1) : NameList[j] \notin DOMAIN ccOp.todo
  BY <1>2, NamesAssumption
<1> QED BY <1>3 DEF Target

\* What a change of a list of addresses leaves in it.
LEMMA AppendRange ==
  ASSUME NEW S, NEW s \in Seq(S), NEW x \in S
  PROVE  Append(s, x) \in Seq(S) /\ Range(Append(s, x)) = Range(s) \cup {x}
<1>1. /\ Append(s, x) \in Seq(S) /\ DOMAIN Append(s, x) = 1..(Len(s) + 1) /\ DOMAIN s = 1..Len(s)
      /\ \A i \in 1..Len(s) : Append(s, x)[i] = s[i]
      /\ Append(s, x)[Len(s) + 1] = x /\ Len(s) \in Nat
  OBVIOUS
<1>2. \A i \in 1..(Len(s) + 1) : i \in 1..Len(s) \/ i = Len(s) + 1
  BY <1>1
<1>3. 1..Len(s) \subseteq 1..(Len(s) + 1) /\ Len(s) + 1 \in 1..(Len(s) + 1)
  BY <1>1
<1> QED BY <1>1, <1>2, <1>3, Zenon DEF Range

\* A list that is not empty has a first address.
LEMMA FirstOfSeq ==
  ASSUME NEW S, NEW s \in Seq(S), s # <<>>
  PROVE  1 \in DOMAIN s /\ s[1] \in S
OBVIOUS

\* The addresses of a list.
LEMMA RangeIn ==
  ASSUME NEW S, NEW s \in Seq(S)
  PROVE  Range(s) \subseteq S
BY DEF Range

\* Replacing an address brings in only the new one, and only where the old one was.
LEMMA ReplacedRange ==
  ASSUME NEW S, NEW s \in Seq(S), NEW x \in S, NEW y \in S
  PROVE  /\ Replaced(s, x, y) \in Seq(S)
         /\ \A a \in Range(Replaced(s, x, y)) : a \in Range(s) \/ (a = y /\ x \in Range(s))
BY DEF Range, Replaced

\* Two lists put together have the addresses of both.
LEMMA ConcatRange ==
  ASSUME NEW S, NEW u \in Seq(S), NEW v \in Seq(S)
  PROVE  u \o v \in Seq(S) /\ \A y \in Range(u \o v) : y \in Range(u) \/ y \in Range(v)
<1> DEFINE m == Len(u)
           n == Len(v)
<1>1. /\ u \o v \in Seq(S) /\ DOMAIN (u \o v) = 1..(m + n)
      /\ DOMAIN u = 1..m /\ DOMAIN v = 1..n /\ m \in Nat /\ n \in Nat
  OBVIOUS
<1>2. \A k \in 1..(m + n) : (u \o v)[k] = IF k <= m THEN u[k] ELSE v[k - m]
  OBVIOUS
<1> HIDE DEF m, n
<1>3. ASSUME NEW k \in 1..(m + n)  PROVE (u \o v)[k] \in Range(u) \/ (u \o v)[k] \in Range(v)
  <2>1. CASE k <= m
    <3>1. k \in DOMAIN u  BY <2>1, <1>1
    <3>2. (u \o v)[k] = u[k]  BY <2>1, <1>2, Zenon
    <3> QED BY <3>1, <3>2, Zenon DEF Range
  <2>2. CASE ~(k <= m)
    <3>1. k - m \in DOMAIN v  BY <2>2, <1>1
    <3>2. (u \o v)[k] = v[k - m]  BY <2>2, <1>2, Zenon
    <3> QED BY <3>1, <3>2, Zenon DEF Range
  <2> QED BY <2>1, <2>2, Zenon
<1> QED BY <1>1, <1>3, Zenon DEF Range

\* Taking a replica out brings in nothing.
LEMMA RemoveLastRange ==
  ASSUME NEW S, NEW s \in Seq(S), NEW x \in Range(s)
  PROVE  RemoveLast(s, x) \in Seq(S) /\ Range(RemoveLast(s, x)) \subseteq Range(s)
<1> DEFINE T == {i \in 1..Len(s) : s[i] = x}
           U == {Len(s) - i : i \in T}
           at == CHOOSE i \in 1..Len(s) : s[i] = x /\ \A j \in (i + 1)..Len(s) : s[j] # x
<1>1. U # {} /\ U \subseteq Nat
  BY DEF Range
<1>2. PICK u \in U : \A y \in U : u <= y
  BY <1>1, LeastOf, Zenon
<1>3. PICK i \in T : u = Len(s) - i
  BY <1>2
<1>4. \A j \in (i + 1)..Len(s) : s[j] # x
  <2> SUFFICES ASSUME NEW j \in (i + 1)..Len(s), s[j] = x  PROVE FALSE
    OBVIOUS
  <2>1. j \in T
    OBVIOUS
  <2>2. u <= Len(s) - j
    BY <2>1, <1>2
  <2> QED BY <2>2, <1>3
<1>5. at \in 1..Len(s)
  BY <1>3, <1>4, SMTT(30)
<1>6. RemoveLast(s, x) = SubSeq(s, 1, at - 1) \o SubSeq(s, at + 1, Len(s))
  BY DEF RemoveLast
<1> HIDE DEF at
<1>7. SubSeq(s, 1, at - 1) \in Seq(S) /\ Range(SubSeq(s, 1, at - 1)) \subseteq Range(s)
  BY <1>5 DEF Range
<1>8. SubSeq(s, at + 1, Len(s)) \in Seq(S) /\ Range(SubSeq(s, at + 1, Len(s))) \subseteq Range(s)
  BY <1>5, SMTT(30) DEF Range
<1> DEFINE u1 == SubSeq(s, 1, at - 1)
           u2 == SubSeq(s, at + 1, Len(s))
<1> HIDE DEF u1, u2
<1>9. u1 \in Seq(S) /\ u2 \in Seq(S)
  BY <1>7, <1>8 DEF u1, u2
<1>10. u1 \o u2 \in Seq(S) /\ \A y \in Range(u1 \o u2) : y \in Range(u1) \/ y \in Range(u2)
  BY <1>9, ConcatRange
<1> QED BY <1>6, <1>7, <1>8, <1>10 DEF u1, u2

\* Moving the masters to the other data centre and back.
LEMMA SwappedDoc ==
  ASSUME NEW ns, GoodDoc(ns), NEW o \in BOOLEAN
  PROVE  /\ GoodDoc([Swapped(ns) EXCEPT !.origin = o, !.masterDC = ~ns.masterDC])
         /\ ns.origin # ns.masterDC => GoodDoc([Swapped(ns) EXCEPT !.masterDC = ns.origin])
<1> DEFINE t == [Swapped(ns) EXCEPT !.origin = o, !.masterDC = ~ns.masterDC]
           u == [Swapped(ns) EXCEPT !.masterDC = ns.origin]
<1>1. /\ ns \in Documents /\ ns.masterDC \in BOOLEAN /\ ns.origin \in BOOLEAN
      /\ FirstDocument.masterDC \in BOOLEAN
  BY FirstAssumption, Zenon DEF GoodDoc, Documents
<1>2. /\ t \in Documents /\ t.master = ns.dcMaster /\ t.slaves = ns.dcSlaves
      /\ t.dcMaster = ns.master /\ t.dcSlaves = ns.slaves /\ t.masterDC = ~ns.masterDC
  BY <1>1, Zenon DEF Documents, Swapped
<1>3. /\ u \in Documents /\ u.master = ns.dcMaster /\ u.slaves = ns.dcSlaves
      /\ u.dcMaster = ns.master /\ u.dcSlaves = ns.slaves /\ u.masterDC = ns.origin
  BY <1>1, Zenon DEF Documents, Swapped
<1> HIDE DEF t, u
<1>4. MasterSide(t) = OtherSide(ns) /\ OtherSide(t) = MasterSide(ns)
  BY <1>2 DEF MasterSide, OtherSide
<1>5. MasterSide(u) = OtherSide(ns) /\ OtherSide(u) = MasterSide(ns)
  BY <1>3 DEF MasterSide, OtherSide
<1>6. GoodDoc(t)
  BY <1>1, <1>2, <1>4 DEF GoodDoc, Sided
<1>7. ns.origin # ns.masterDC => GoodDoc(u)
  BY <1>1, <1>3, <1>5 DEF GoodDoc, Sided
<1> QED BY <1>6, <1>7 DEF t, u

\* PromoteDc keeps the data centres of a document apart.
LEMMA PromoteDcDoc ==
  ASSUME NEW ns, GoodDoc(ns)
  PROVE  GoodDoc(PromoteDc(ns).ns)
<1>1. ns.masterDC \in BOOLEAN
  BY Zenon DEF GoodDoc, Documents
<1> QED BY <1>1, SwappedDoc, Zenon DEF PromoteDc, Edited, Kept

\* ResumeDc keeps the data centres of a document apart.
LEMMA ResumeDcDoc ==
  ASSUME NEW ns, GoodDoc(ns)
  PROVE  GoodDoc(ResumeDc(ns).ns)
BY SwappedDoc, Zenon DEF ResumeDc, Edited, Kept

\* An edit that touches neither the addresses nor MasterDC.
LEMMA SameSides ==
  ASSUME NEW ns, GoodDoc(ns), NEW t \in Documents,
         t.master = ns.master, t.slaves = ns.slaves, t.dcMaster = ns.dcMaster, t.dcSlaves = ns.dcSlaves,
         t.masterDC = ns.masterDC
  PROVE  GoodDoc(t)
BY Zenon DEF GoodDoc, Sided, MasterSide, OtherSide

\* ForceMaster and its cancellation keep the data centres apart.
LEMMA ForceMasterDoc ==
  ASSUME NEW ns, GoodDoc(ns)
  PROVE  GoodDoc(ForceMaster(ns).ns) /\ GoodDoc(CancelForceMaster(ns).ns)
<1> DEFINE t(b) == [ns EXCEPT !.force = b]
<1>1. \A b \in BOOLEAN : /\ t(b) \in Documents /\ t(b).master = ns.master /\ t(b).slaves = ns.slaves
                         /\ t(b).dcMaster = ns.dcMaster /\ t(b).dcSlaves = ns.dcSlaves
                         /\ t(b).masterDC = ns.masterDC
  BY Zenon DEF GoodDoc, Documents
<1> HIDE DEF t
<1>2. \A b \in BOOLEAN : GoodDoc(t(b))
  BY <1>1, SameSides
<1> QED BY <1>2, Zenon DEF t, ForceMaster, CancelForceMaster, Edited, Kept

\* AddAllowedIp keeps the data centres apart.
LEMMA AddAllowedIpDoc ==
  ASSUME NEW ns, GoodDoc(ns), NEW ip \in {"ip"}
  PROVE  GoodDoc(AddAllowedIp(ns, ip).ns)
<1> DEFINE t == [ns EXCEPT !.allowed = Append(@, ip)]
<1>0. ns \in Documents /\ ns.allowed \in Seq({"ip"})
  BY Zenon DEF GoodDoc, Documents
<1>1. Append(ns.allowed, ip) \in Seq({"ip"})
  BY <1>0, AppendRange
<1>2. /\ t \in Documents /\ t.master = ns.master /\ t.slaves = ns.slaves
      /\ t.dcMaster = ns.dcMaster /\ t.dcSlaves = ns.dcSlaves /\ t.masterDC = ns.masterDC
  BY <1>0, <1>1, Zenon DEF Documents
<1>3. GoodDoc(t)
  BY <1>2, SameSides, Zenon
<1> QED BY <1>3 DEF AddAllowedIp, Edited, Kept

\* An edit of the master's side that brings in only addresses of its data centre.
LEMMA MasterSideDoc ==
  ASSUME NEW ns, GoodDoc(ns), NEW x \in Addresses \cup {""}, NEW s \in Seq(Addresses),
         \A a \in ({x} \cup Range(s)) \ {""} :
           a \in MasterSide(ns) \/ \E m \in MasterSide(ns) : Home[m] = Home[a]
  PROVE  GoodDoc([ns EXCEPT !.master = x, !.slaves = s])
<1> DEFINE t == [ns EXCEPT !.master = x, !.slaves = s]
<1>1. /\ t \in Documents /\ t.master = x /\ t.slaves = s /\ t.dcMaster = ns.dcMaster
      /\ t.dcSlaves = ns.dcSlaves /\ t.masterDC = ns.masterDC
  BY Zenon DEF GoodDoc, Documents
<1> HIDE DEF t
<1>2. OtherSide(t) = OtherSide(ns) /\ MasterSide(t) = ({x} \cup Range(s)) \ {""}
  BY <1>1, Zenon DEF MasterSide, OtherSide
<1>3. \A a \in MasterSide(t) : Home[a] = HomeDC <=> t.masterDC = FirstDocument.masterDC
  BY <1>1, <1>2, Zenon DEF GoodDoc, Sided
<1> QED BY <1>1, <1>2, <1>3, Zenon DEF GoodDoc, Sided, t

\* And one of the other side.
LEMMA OtherSideDoc ==
  ASSUME NEW ns, GoodDoc(ns), NEW x \in Addresses \cup {""}, NEW s \in Seq(Addresses),
         \A a \in ({x} \cup Range(s)) \ {""} :
           a \in OtherSide(ns) \/ (Home[a] # HomeDC <=> ns.masterDC = FirstDocument.masterDC)
  PROVE  GoodDoc([ns EXCEPT !.dcMaster = x, !.dcSlaves = s])
<1> DEFINE t == [ns EXCEPT !.dcMaster = x, !.dcSlaves = s]
<1>1. /\ t \in Documents /\ t.dcMaster = x /\ t.dcSlaves = s /\ t.master = ns.master
      /\ t.slaves = ns.slaves /\ t.masterDC = ns.masterDC
  BY Zenon DEF GoodDoc, Documents
<1> HIDE DEF t
<1>2. MasterSide(t) = MasterSide(ns) /\ OtherSide(t) = ({x} \cup Range(s)) \ {""}
  BY <1>1, Zenon DEF MasterSide, OtherSide
<1>3. \A a \in OtherSide(t) : Home[a] # HomeDC <=> t.masterDC = FirstDocument.masterDC
  BY <1>1, <1>2, Zenon DEF GoodDoc, Sided
<1> QED BY <1>1, <1>2, <1>3, Zenon DEF GoodDoc, Sided, t

\* Replacing an address by one of its own data centre keeps them apart.
LEMMA SwitchMasterSlaveDoc ==
  ASSUME NEW ns, GoodDoc(ns), NEW old \in Addresses, NEW new \in Addresses, Home[old] = Home[new]
  PROVE  GoodDoc(SwitchMasterSlave(ns, old, new).ns) /\ GoodDoc(ReplaceMasterIp(ns, old, new).ns)
<1>1. ns \in Documents /\ ns.master \in Addresses \cup {""} /\ ns.slaves \in Seq(Addresses)
  BY Zenon DEF GoodDoc, Documents
<1>2. ns.master = old => GoodDoc([ns EXCEPT !.master = new])
  <2> SUFFICES ASSUME ns.master = old  PROVE GoodDoc([ns EXCEPT !.master = new])
    OBVIOUS
  <2>1. old \in MasterSide(ns)
    BY HomeAssumption, Zenon DEF MasterSide
  <2>2. \A a \in ({new} \cup Range(ns.slaves)) \ {""} :
          a \in MasterSide(ns) \/ \E m \in MasterSide(ns) : Home[m] = Home[a]
    BY <2>1, Zenon DEF MasterSide
  <2>3. GoodDoc([ns EXCEPT !.master = new, !.slaves = ns.slaves])
    BY <2>2, <1>1, MasterSideDoc, Zenon
  <2>4. [ns EXCEPT !.master = new, !.slaves = ns.slaves] = [ns EXCEPT !.master = new]
    BY <1>1, Zenon DEF Documents
  <2> QED BY <2>3, <2>4
<1>3. old \in Range(ns.slaves) => GoodDoc([ns EXCEPT !.slaves = Replaced(@, old, new)])
  <2> SUFFICES ASSUME old \in Range(ns.slaves)
               PROVE  GoodDoc([ns EXCEPT !.slaves = Replaced(ns.slaves, old, new)])
    OBVIOUS
  <2> DEFINE s == Replaced(ns.slaves, old, new)
  <2>1. old \in MasterSide(ns)
    BY HomeAssumption, Zenon DEF MasterSide
  <2>2. s \in Seq(Addresses) /\ \A a \in Range(s) : a \in Range(ns.slaves) \/ a = new
    <3> DEFINE q == ns.slaves
    <3>1. q \in Seq(Addresses)  BY <1>1, Zenon
    <3> HIDE DEF q
    <3>2. Replaced(q, old, new) \in Seq(Addresses)
      BY <3>1, ReplacedRange
    <3>3. \A a \in Range(Replaced(q, old, new)) : a \in Range(q) \/ a = new
      BY <3>1, ReplacedRange
    <3> QED BY <3>2, <3>3, Zenon DEF q
  <2> HIDE DEF s
  <2>3. \A a \in ({ns.master} \cup Range(s)) \ {""} :
          a \in MasterSide(ns) \/ \E m \in MasterSide(ns) : Home[m] = Home[a]
    BY <2>1, <2>2, Zenon DEF MasterSide
  <2>4. GoodDoc([ns EXCEPT !.master = ns.master, !.slaves = s])
    BY <2>2, <2>3, <1>1, MasterSideDoc, Zenon
  <2>5. [ns EXCEPT !.master = ns.master, !.slaves = s] = [ns EXCEPT !.slaves = s]
    BY <1>1, Zenon DEF Documents
  <2> QED BY <2>4, <2>5 DEF s
<1>4. GoodDoc(SwitchMasterSlave(ns, old, new).ns)
  BY <1>2, <1>3 DEF SwitchMasterSlave, Edited, Kept
<1>5. GoodDoc(ReplaceMasterIp(ns, old, new).ns)
  BY <1>2 DEF ReplaceMasterIp, Edited, Kept
<1> QED BY <1>4, <1>5

\* A replica that is taken in or out on the side of its master keeps them apart.
LEMMA OnlineOrOfflineMasterDCDoc ==
  ASSUME NEW ns, GoodDoc(ns), NEW addr \in Addresses, InMasterDC(ns, addr), NEW action
  PROVE  GoodDoc(OnlineOrOfflineMasterDC(ns, addr, action).ns)
<1>1. ns \in Documents /\ ns.master \in Addresses \cup {""} /\ ns.slaves \in Seq(Addresses)
  BY Zenon DEF GoodDoc, Documents
<1>2. ASSUME NEW s \in Seq(Addresses), \A a \in Range(s) : a \in Range(ns.slaves) \/ a = addr
      PROVE  GoodDoc([ns EXCEPT !.slaves = s])
  <2>1. \A a \in ({ns.master} \cup Range(s)) \ {""} :
          a \in MasterSide(ns) \/ \E m \in MasterSide(ns) : Home[m] = Home[a]
    BY <1>2, Zenon DEF MasterSide, InMasterDC
  <2>2. GoodDoc([ns EXCEPT !.master = ns.master, !.slaves = s])
    BY <2>1, <1>1, MasterSideDoc, Zenon
  <2>3. [ns EXCEPT !.master = ns.master, !.slaves = s] = [ns EXCEPT !.slaves = s]
    BY <1>1, Zenon DEF Documents
  <2> QED BY <2>2, <2>3
<1>3. GoodDoc([ns EXCEPT !.slaves = Append(ns.slaves, addr)])
  <2>1. Append(ns.slaves, addr) \in Seq(Addresses)
        /\ Range(Append(ns.slaves, addr)) = Range(ns.slaves) \cup {addr}
    <3> DEFINE q == ns.slaves
    <3>1. q \in Seq(Addresses)  BY <1>1, Zenon
    <3> HIDE DEF q
    <3>2. Append(q, addr) \in Seq(Addresses)
      BY <3>1, AppendRange
    <3>3. Range(Append(q, addr)) = Range(q) \cup {addr}
      BY <3>1, AppendRange
    <3> QED BY <3>2, <3>3 DEF q
  <2> QED BY <2>1, <1>2, Zenon
<1>4. addr \in Range(ns.slaves) => GoodDoc([ns EXCEPT !.slaves = RemoveLast(ns.slaves, addr)])
  <2> SUFFICES ASSUME addr \in Range(ns.slaves) PROVE GoodDoc([ns EXCEPT !.slaves = RemoveLast(ns.slaves, addr)])
    OBVIOUS
  <2>1. /\ RemoveLast(ns.slaves, addr) \in Seq(Addresses)
        /\ Range(RemoveLast(ns.slaves, addr)) \subseteq Range(ns.slaves)
    BY <1>1, RemoveLastRange, Zenon
  <2> QED BY <2>1, <1>2, Zenon
<1> QED BY <1>3, <1>4 DEF OnlineOrOfflineMasterDC, Edited, Kept

\* A replica of the other side, which becomes its master where there is none, keeps
\* them apart: the document names at least one address on the side of the master,
\* and the replica is not in the data centre of that one.
LEMMA OnlineOrOfflineNotMasterDCDoc ==
  ASSUME NEW ns, GoodDoc(ns), Verified(ns), NEW addr \in Addresses, ~InMasterDC(ns, addr), NEW action
  PROVE  GoodDoc(OnlineOrOfflineNotMasterDC(ns, addr, action).ns)
<1>1. ns \in Documents /\ ns.master \in Addresses \cup {""} /\ ns.slaves \in Seq(Addresses)
      /\ ns.dcMaster \in Addresses \cup {""} /\ ns.dcSlaves \in Seq(Addresses)
      /\ ns.masterDC \in BOOLEAN
  BY Zenon DEF GoodDoc, Documents
<1>2. PICK m \in MasterSide(ns) : m \in Addresses
  <2>1. CASE ns.master # ""
    BY <2>1, <1>1, Zenon DEF MasterSide
  <2>2. CASE ns.slaves # <<>>
    <3>1. 1 \in DOMAIN ns.slaves /\ ns.slaves[1] \in Addresses
      BY <2>2, <1>1, FirstOfSeq, Zenon
    <3>2. ns.slaves[1] \in Range(ns.slaves)
      BY <3>1 DEF Range
    <3> QED BY <3>1, <3>2, HomeAssumption, Zenon DEF MasterSide
  <2> QED BY <2>1, <2>2, Zenon DEF Verified
<1>3. Home[addr] # HomeDC <=> ns.masterDC = FirstDocument.masterDC
  <2>1. Home[m] # Home[addr] /\ (Home[m] = HomeDC <=> ns.masterDC = FirstDocument.masterDC)
    BY <1>2 DEF InMasterDC, GoodDoc, Sided
  <2>2. FirstDocument.master \in Addresses
    BY FirstAssumption, Zenon DEF Documents
  <2> QED BY <2>1, <2>2, <1>2, HomeAssumption, ZenonT(40) DEF HomeDC
<1>4. ASSUME NEW x \in Addresses \cup {""}, x \in {ns.dcMaster, addr, ""},
             NEW s \in Seq(Addresses), \A a \in Range(s) : a \in Range(ns.dcSlaves) \/ a = addr
      PROVE  GoodDoc([ns EXCEPT !.dcMaster = x, !.dcSlaves = s])
  <2>1. \A a \in ({x} \cup Range(s)) \ {""} :
          a \in OtherSide(ns) \/ (Home[a] # HomeDC <=> ns.masterDC = FirstDocument.masterDC)
    BY <1>3, <1>4, Zenon DEF OtherSide
  <2> QED BY <2>1, OtherSideDoc, Zenon
<1> DEFINE led == IF ns.dcMaster = "" THEN addr ELSE ns.dcMaster
           left == IF ns.dcMaster = addr THEN "" ELSE ns.dcMaster
           there == addr \in Range(ns.dcSlaves)
<1>5. /\ led \in Addresses \cup {""} /\ led \in {ns.dcMaster, addr, ""}
      /\ left \in Addresses \cup {""} /\ left \in {ns.dcMaster, addr, ""}
  BY <1>1, Zenon
<1>6. GoodDoc([ns EXCEPT !.dcMaster = led, !.dcSlaves = ns.dcSlaves])
  BY <1>1, <1>4, <1>5, Zenon
<1>7. GoodDoc([ns EXCEPT !.dcMaster = led, !.dcSlaves = Append(ns.dcSlaves, addr)])
  <2>1. Append(ns.dcSlaves, addr) \in Seq(Addresses)
        /\ Range(Append(ns.dcSlaves, addr)) = Range(ns.dcSlaves) \cup {addr}
    <3> DEFINE q == ns.dcSlaves
    <3>1. q \in Seq(Addresses)  BY <1>1, Zenon
    <3> HIDE DEF q
    <3>2. Append(q, addr) \in Seq(Addresses)
      BY <3>1, AppendRange
    <3>3. Range(Append(q, addr)) = Range(q) \cup {addr}
      BY <3>1, AppendRange
    <3> QED BY <3>2, <3>3 DEF q
  <2> QED BY <2>1, <1>4, <1>5, Zenon
<1>8. GoodDoc([ns EXCEPT !.dcMaster = left, !.dcSlaves = IF there THEN RemoveLast(ns.dcSlaves, addr) ELSE ns.dcSlaves])
  <2> DEFINE s == IF there THEN RemoveLast(ns.dcSlaves, addr) ELSE ns.dcSlaves
  <2>1. s \in Seq(Addresses) /\ Range(s) \subseteq Range(ns.dcSlaves)
    BY <1>1, RemoveLastRange, Zenon
  <2> QED BY <2>1, <1>4, <1>5, Zenon
<1>9. [ns EXCEPT !.dcMaster = led, !.dcSlaves = ns.dcSlaves] = [ns EXCEPT !.dcMaster = led]
  BY <1>1, Zenon DEF Documents
<1>10. [[ns EXCEPT !.dcMaster = led] EXCEPT !.dcSlaves = Append(@, addr)]
         = [ns EXCEPT !.dcMaster = led, !.dcSlaves = Append(ns.dcSlaves, addr)]
  BY <1>1, Zenon DEF Documents
<1>11. CASE action = "online"
  BY <1>11, <1>6, <1>7, <1>9, <1>10, Zenon DEF OnlineOrOfflineNotMasterDC, Edited, Kept
<1>12. CASE action # "online"
  BY <1>12, <1>8 DEF OnlineOrOfflineNotMasterDC, Edited, Kept
<1> QED BY <1>11, <1>12

\* The first document is a good one, and ModifyNamespace accepts it.
LEMMA FirstGood == GoodDoc(FirstDocument) /\ Verified(FirstDocument)
<1>1. FirstDocument \in Documents /\ FirstDocument.master # ""
  BY FirstAssumption, Zenon
<1>2. \A a \in MasterSide(FirstDocument) : Home[a] = HomeDC
  BY FirstAssumption, ZenonT(40) DEF MasterSide, Range, HomeDC
<1>3. \A a \in OtherSide(FirstDocument) : Home[a] # HomeDC
  BY FirstAssumption, Zenon DEF OtherSide, Range, HomeDC
<1> QED BY <1>1, <1>2, <1>3, Zenon DEF GoodDoc, Sided, Verified

\* The invariant of the control centre holds at first.
LEMMA CentreStarts == CentreInit => CentreInv
<1> SUFFICES ASSUME CentreInit PROVE CentreInv
  OBVIOUS
<1>1. StoredGood
  BY FirstGood DEF CentreInit, StoredGood, DocMap
<1>2. ServedGood
  BY <1>1 DEF CentreInit, ServedGood, StoredGood
<1>3. OpGood
  BY DEF CentreInit, OpGood, Idle, DocMap
<1> QED BY <1>1, <1>2, <1>3 DEF CentreInv

\* An operation that begins has only good documents to store.
LEMMA BeginKeeps ==
  ASSUME CentreInv, NEW call, NEW names, names \subseteq Names, NEW edits,
         \A n \in names : GoodDoc(edits[n].ns), Begin(call, names, edits)
  PROVE  CentreInv'
<1>1. StoredGood' /\ ServedGood'
  BY DEF CentreInv, Begin, StoredGood, ServedGood
<1> DEFINE modified == {n \in names : edits[n].modify}
           todo == [n \in modified |-> edits[n].ns]
<1>2. /\ ccOp'.todo = todo /\ ccOp'.at = (IF modified = {} THEN "idle" ELSE "store") /\ ccOp'.left = {}
      /\ {"at", "todo", "left"} \subseteq DOMAIN ccOp'
  BY DEF Begin
<1>3. DOMAIN todo = modified /\ modified \subseteq Names /\ \A n \in modified : GoodDoc(todo[n])
  OBVIOUS
<1> HIDE DEF todo, modified
<1>4. OpGood'
  BY <1>2, <1>3 DEF OpGood, DocMap
<1> QED BY <1>1, <1>4 DEF CentreInv

\* So has one that has ended.
LEMMA EndedGood ==
  ASSUME NEW out, Ended(out)
  PROVE  OpGood'
BY DEF Ended, Idle, OpGood, DocMap

\* And one whose proxy has answered.
LEMMA AnsweredGood ==
  ASSUME CentreInv, NEW p, Answered(p), ccOp.at # "idle"
  PROVE  OpGood'
<1>1. Target \in DOMAIN ccOp.todo /\ DOMAIN ccOp.todo \subseteq Names
  BY TargetIn DEF CentreInv, OpGood, DocMap
<1>2. CASE ccOp.left # {p}
  BY <1>2 DEF Answered, CentreInv, OpGood
<1>3. CASE ccOp.left = {p} /\ ccOp.at = "prepare"
  BY <1>3, Zenon DEF Answered, CentreInv, OpGood
<1>4. CASE ccOp.left = {p} /\ ccOp.at # "prepare" /\ DOMAIN ccOp.todo # {Target}
  <2> DEFINE rest == DOMAIN ccOp.todo \ {Target}
             todo == [n \in rest |-> ccOp.todo[n]]
  <2>1. /\ ccOp' = [ccOp EXCEPT !.at = "store", !.todo = todo, !.left = {}]
    BY <1>4 DEF Answered, Restrict
  <2>2. DOMAIN todo = rest /\ rest # {} /\ rest \subseteq Names /\ \A n \in rest : GoodDoc(todo[n])
    BY <1>1, <1>4 DEF CentreInv, OpGood, DocMap
  <2> HIDE DEF todo, rest
  <2>3. ccOp'.todo = todo /\ ccOp'.left = {} /\ {"at", "todo", "left"} \subseteq DOMAIN ccOp'
    BY <2>1 DEF CentreInv, OpGood
  <2> QED BY <2>2, <2>3 DEF OpGood, DocMap
<1>5. CASE ccOp.left = {p} /\ ccOp.at # "prepare" /\ DOMAIN ccOp.todo = {Target}
  BY <1>5, EndedGood DEF Answered
<1> QED BY <1>2, <1>3, <1>4, <1>5

\* What a proxy prepares is what is stored.
LEMMA PrepareGood ==
  ASSUME CentreInv, ccOp.at # "idle", NEW p \in Proxies, PrepareOn(p), UNCHANGED ccServed
  PROVE  ServedGood'
<1>1. Target \in Names
  BY TargetIn DEF CentreInv, OpGood, DocMap
<1> DEFINE f == RebuildNamespace(ccServed[p], Target, ccStore[Target])
<1>2. DocMap(f)
  <2>1. DOMAIN f = DOMAIN ccServed[p] \cup {Target}
        /\ \A m \in DOMAIN f : f[m] = IF m = Target THEN ccStore[Target] ELSE ccServed[p][m]
    BY DEF RebuildNamespace
  <2>2. DocMap(ccServed[p]) /\ GoodDoc(ccStore[Target])
    BY <1>1 DEF CentreInv, ServedGood, StoredGood, DocMap
  <2> HIDE DEF f
  <2> QED BY <1>1, <2>1, <2>2 DEF DocMap
<1> HIDE DEF f
<1>3. ccReady' = [ccReady EXCEPT ![p] = <<f>>] \/ UNCHANGED ccReady
  BY DEF PrepareOn, f
<1>4. <<f>>[1] = f
  OBVIOUS
<1> QED BY <1>2, <1>3, <1>4 DEF CentreInv, ServedGood

\* What a proxy puts into service it has prepared.
LEMMA CommitGood ==
  ASSUME CentreInv, NEW p \in Proxies, CommitOn(p)
  PROVE  ServedGood'
BY DEF CommitOn, CentreInv, ServedGood

\* Every operation, call, failed call and restart keeps the invariant.
LEMMA CentreKeeps == CentreInv /\ [CentreNext]_centreVars => CentreInv'
<1> SUFFICES ASSUME CentreInv, [CentreNext]_centreVars  PROVE CentreInv'
  OBVIOUS
<1>0. \A n \in Names : GoodDoc(ccStore[n]) /\ Verified(ccStore[n])
  BY DEF CentreInv, StoredGood, DocMap
<1>1. CASE promoteDCForSingleNamespace \/ promoteDCForAllNamespaces
  <2>1. \A n \in Names : GoodDoc([m \in Names |-> PromoteDc(ccStore[m])][n].ns)
    BY <1>0, PromoteDcDoc
  <2> QED BY <1>1, <2>1, BeginKeeps, Zenon DEF promoteDCForSingleNamespace, promoteDCForAllNamespaces
<1>2. CASE resumeDCForSingleNamespace \/ resumeDCForAllNamespaces
  <2>1. \A n \in Names : GoodDoc([m \in Names |-> ResumeDc(ccStore[m])][n].ns)
    BY <1>0, ResumeDcDoc
  <2> QED BY <1>2, <2>1, BeginKeeps, Zenon DEF resumeDCForSingleNamespace, resumeDCForAllNamespaces
<1>3. CASE forceMasterForSingleNamespace
  <2>1. \A n \in Names : GoodDoc([m \in Names |-> ForceMaster(ccStore[m])][n].ns)
    BY <1>0, ForceMasterDoc
  <2> QED BY <1>3, <2>1, BeginKeeps, Zenon DEF forceMasterForSingleNamespace
<1>4. CASE cancelForceMasterForSingleNamespace
  <2>1. \A n \in Names : GoodDoc([m \in Names |-> CancelForceMaster(ccStore[m])][n].ns)
    BY <1>0, ForceMasterDoc
  <2> QED BY <1>4, <2>1, BeginKeeps, Zenon DEF cancelForceMasterForSingleNamespace
<1>5. CASE switchMasterSlaveForCluster
  <2>1. PICK old, new \in Addresses :
          /\ Home[old] = Home[new]
          /\ Begin(<<"Switch", old, new>>, Names, [m \in Names |-> SwitchMasterSlave(ccStore[m], old, new)])
    BY <1>5, Zenon DEF switchMasterSlaveForCluster
  <2>2. \A n \in Names : GoodDoc([m \in Names |-> SwitchMasterSlave(ccStore[m], old, new)][n].ns)
    BY <1>0, <2>1, SwitchMasterSlaveDoc
  <2> QED BY <2>1, <2>2, BeginKeeps, Zenon
<1>6. CASE replaceMasterIp
  <2>1. PICK old, new \in Addresses :
          /\ Home[old] = Home[new]
          /\ Begin(<<"Replace", old, new>>, Names, [m \in Names |-> ReplaceMasterIp(ccStore[m], old, new)])
    BY <1>6, Zenon DEF replaceMasterIp
  <2>2. \A n \in Names : GoodDoc([m \in Names |-> ReplaceMasterIp(ccStore[m], old, new)][n].ns)
    BY <1>0, <2>1, SwitchMasterSlaveDoc
  <2> QED BY <2>1, <2>2, BeginKeeps, Zenon
<1>7. CASE onlineOrOfflineSlaveIp
  <2>1. PICK addr \in Addresses, action \in {"online", "offline"} :
          \/ (\A n \in Names : InMasterDC(ccStore[n], addr))
               /\ Begin(<<action, addr>>, Names, [m \in Names |-> OnlineOrOfflineMasterDC(ccStore[m], addr, action)])
          \/ (\A n \in Names : ~InMasterDC(ccStore[n], addr))
               /\ Begin(<<action, addr>>, Names, [m \in Names |-> OnlineOrOfflineNotMasterDC(ccStore[m], addr, action)])
    BY <1>7 DEF onlineOrOfflineSlaveIp
  <2>2. (\A n \in Names : InMasterDC(ccStore[n], addr)) =>
          \A n \in Names : GoodDoc([m \in Names |-> OnlineOrOfflineMasterDC(ccStore[m], addr, action)][n].ns)
    BY <1>0, OnlineOrOfflineMasterDCDoc
  <2>3. (\A n \in Names : ~InMasterDC(ccStore[n], addr)) =>
          \A n \in Names : GoodDoc([m \in Names |-> OnlineOrOfflineNotMasterDC(ccStore[m], addr, action)][n].ns)
    BY <1>0, OnlineOrOfflineNotMasterDCDoc
  <2> QED BY <2>1, <2>2, <2>3, BeginKeeps, Zenon
<1>8. CASE addAllowedIp
  <2>1. \A n \in Names : GoodDoc([m \in Names |-> AddAllowedIp(ccStore[m], "ip")][n].ns)
    <3>1. "ip" \in {"ip"}
      OBVIOUS
    <3>2. \A n \in Names : GoodDoc(AddAllowedIp(ccStore[n], "ip").ns)
      BY <3>1, <1>0, AddAllowedIpDoc
    <3> QED BY <3>2
  <2> QED BY <1>8, <2>1, BeginKeeps, Zenon DEF addAllowedIp
<1>9. CASE Store
  <2>1. Target \in Names /\ GoodDoc(ccOp.todo[Target])
    BY <1>9, TargetIn DEF Store, CentreInv, OpGood, DocMap
  <2>2. StoredGood'
    BY <1>9, <2>1 DEF Store, CentreInv, StoredGood, DocMap
  <2>3. OpGood'
    <3>1. CASE Verified(ccOp.todo[Target])
      BY <1>9, <3>1, Zenon DEF Store, CentreInv, OpGood
    <3>2. CASE ~Verified(ccOp.todo[Target])
      BY <1>9, <3>2, EndedGood DEF Store, Fail
    <3> QED BY <3>1, <3>2
  <2> QED BY <1>9, <2>2, <2>3 DEF Store, CentreInv, ServedGood
<1>10. CASE StoreFails
  <2>1. OpGood'
    BY <1>10, EndedGood DEF StoreFails, Fail
  <2> QED BY <1>10, <2>1 DEF StoreFails, CentreInv, StoredGood, ServedGood
<1>11. CASE PrepareConfig
  <2>1. PICK p \in ccOp.left : PrepareOn(p) /\ (IF Loads(ccStore[Target]) THEN Answered(p) ELSE Fail)
    BY <1>11 DEF PrepareConfig
  <2>2. p \in Proxies
    BY DEF CentreInv, OpGood
  <2>3. ccOp.at # "idle" /\ UNCHANGED <<ccStore, ccServed>>
    BY <1>11 DEF PrepareConfig
  <2>4. ServedGood'
    BY <2>1, <2>2, <2>3, PrepareGood
  <2>5. OpGood'
    BY <2>1, <2>3, AnsweredGood, EndedGood DEF Fail
  <2> QED BY <2>3, <2>4, <2>5 DEF CentreInv, StoredGood
<1>12. CASE PrepareFails
  <2>1. OpGood'
    BY <1>12, EndedGood DEF PrepareFails, Fail
  <2>2. PICK p \in ccOp.left : UNCHANGED ccReady \/ PrepareOn(p)
    BY <1>12 DEF PrepareFails
  <2>3. p \in Proxies /\ ccOp.at # "idle" /\ UNCHANGED <<ccStore, ccServed>>
    BY <1>12 DEF PrepareFails, CentreInv, OpGood
  <2>4. ServedGood'
    BY <2>2, <2>3, PrepareGood DEF CentreInv, ServedGood
  <2> QED BY <2>1, <2>3, <2>4 DEF CentreInv, StoredGood
<1>13. CASE CommitConfig
  <2>1. PICK p \in ccOp.left : CommitOn(p) /\ (IF ccReady[p] # <<>> THEN Answered(p) ELSE Fail)
    BY <1>13 DEF CommitConfig
  <2>2. p \in Proxies /\ ccOp.at # "idle" /\ UNCHANGED ccStore
    BY <1>13 DEF CommitConfig, CentreInv, OpGood
  <2>3. ServedGood'
    BY <2>1, <2>2, CommitGood
  <2>4. OpGood'
    BY <2>1, <2>2, AnsweredGood, EndedGood DEF Fail
  <2> QED BY <2>2, <2>3, <2>4 DEF CentreInv, StoredGood
<1>14. CASE CommitFails
  <2>1. OpGood'
    BY <1>14, EndedGood DEF CommitFails, Fail
  <2>2. PICK p \in ccOp.left : UNCHANGED <<ccServed, ccReady>> \/ CommitOn(p)
    BY <1>14 DEF CommitFails
  <2>3. p \in Proxies /\ UNCHANGED ccStore
    BY <1>14 DEF CommitFails, CentreInv, OpGood
  <2>4. ServedGood'
    BY <2>2, <2>3, CommitGood DEF CentreInv, ServedGood
  <2> QED BY <2>1, <2>3, <2>4 DEF CentreInv, StoredGood
<1>15. ASSUME NEW p \in Proxies, Restart(p)  PROVE CentreInv'
  <2> DEFINE f == Restrict(ccStore, {n \in Names : Loads(ccStore[n])})
  <2>1. DocMap(f)
    BY DEF CentreInv, StoredGood, DocMap, Restrict
  <2> HIDE DEF f
  <2>2. /\ ccServed' = [ccServed EXCEPT ![p] = f] /\ ccReady' = [ccReady EXCEPT ![p] = <<>>]
        /\ UNCHANGED <<ccStore, ccOp>>
    BY <1>15 DEF Restart, f
  <2>3. ServedGood'
    BY <2>1, <2>2 DEF CentreInv, ServedGood
  <2> QED BY <2>2, <2>3 DEF CentreInv, StoredGood, OpGood
<1>16. CASE UNCHANGED centreVars
  BY <1>16 DEF centreVars, CentreInv, StoredGood, ServedGood, OpGood
<1> QED
  BY <1>1, <1>2, <1>3, <1>4, <1>5, <1>6, <1>7, <1>8, <1>9, <1>10, <1>11, <1>12, <1>13, <1>14, <1>15, <1>16
  DEF CentreNext

\* A good document does not mix the data centres.
LEMMA GoodApart ==
  ASSUME NEW ns, GoodDoc(ns)
  PROVE  /\ InOneDC(MasterSide(ns)) /\ InOneDC(OtherSide(ns))
         /\ ns.master # "" /\ ns.dcMaster # "" => Home[ns.master] # Home[ns.dcMaster]
         /\ ns.master # "" => (Home[ns.master] = Home[FirstDocument.master]
                                 <=> ns.masterDC = FirstDocument.masterDC)
<1>1. /\ ns.master \in Addresses \cup {""} /\ ns.slaves \in Seq(Addresses)
      /\ ns.dcMaster \in Addresses \cup {""} /\ ns.dcSlaves \in Seq(Addresses)
  BY Zenon DEF GoodDoc, Documents
<1>2. MasterSide(ns) \subseteq Addresses /\ OtherSide(ns) \subseteq Addresses
  <2>1. Range(ns.slaves) \subseteq Addresses /\ Range(ns.dcSlaves) \subseteq Addresses
    BY <1>1, RangeIn, Zenon
  <2> QED BY <1>1, <2>1, Zenon DEF MasterSide, OtherSide
<1>3. FirstDocument.master \in Addresses
  BY FirstAssumption, Zenon DEF Documents
<1>4. InOneDC(MasterSide(ns)) /\ InOneDC(OtherSide(ns))
  <2>1. \A a, b \in Addresses : Home[a] # HomeDC /\ Home[b] # HomeDC => Home[a] = Home[b]
    BY <1>3, HomeAssumption, Zenon DEF HomeDC
  <2>2. /\ \A a \in MasterSide(ns) : a \in Addresses /\ (Home[a] = HomeDC <=> ns.masterDC = FirstDocument.masterDC)
        /\ \A a \in OtherSide(ns) : a \in Addresses /\ (Home[a] # HomeDC <=> ns.masterDC = FirstDocument.masterDC)
    BY <1>2 DEF GoodDoc, Sided
  <2> QED BY <2>1, <2>2 DEF InOneDC
<1>5. /\ ns.master # "" => ns.master \in MasterSide(ns)
      /\ ns.dcMaster # "" => ns.dcMaster \in OtherSide(ns)
  BY Zenon DEF MasterSide, OtherSide
<1> QED BY <1>4, <1>5, Zenon DEF GoodDoc, Sided, HomeDC

\* DCsApart: through any sequence of operations on any number of namespaces, however
\* many of them failed half way, no document that is stored or in service mixes the two
\* data centres, and MasterDC tells which of them the masters are in (cc/service).
THEOREM CentresApart == CentreSpec => []DCsApart
<1>1. CentreInv => DCsApart
  <2> SUFFICES ASSUME CentreInv  PROVE DCsApart
    OBVIOUS
  <2>1. \A ns \in {ccStore[n] : n \in Names} \cup UNION {Range(ccServed[p]) : p \in Proxies} : GoodDoc(ns)
    BY DEF CentreInv, StoredGood, ServedGood, DocMap, Range
  <2> QED BY <2>1, GoodApart, Zenon DEF DCsApart
<1> QED BY <1>1, CentreStarts, CentreKeeps, PTL DEF CentreSpec

=============================================================================
