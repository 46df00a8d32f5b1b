--------------------------- MODULE ConnectionPool ---------------------------
(***************************************************************************)
(* The connection pool of one backend server (backend/connection_pool.go   *)
(* and the pooled connection it lends, backend/pooled_connection.go): a    *)
(* mutex around the reference to a ResourcePool, which Open makes and      *)
(* Close drops.                                                            *)
(*                                                                         *)
(* The ResourcePool is the one of ResourcePool.tla, here as its contract:  *)
(* how many of its places hold a connection, how many are blank, how many  *)
(* are leased.  Every read of the reference takes the mutex, so it is one  *)
(* step; what is done with the pool that was read comes in later steps.    *)
(***************************************************************************)
EXTENDS Integers, Sequences, FiniteSets, FiniteSetsExt

CONSTANTS PoolUsers,      \* goroutines that get, use and recycle connections
          Closers,    \* goroutines that close and resize the pool
          Capacity,   \* the configured capacity, at least 1
          MaxCap,     \* the configured maximal capacity
          MaxOpens    \* bound: calls of Open

Procs == PoolUsers \cup Closers

VARIABLES cpRef,      \* cp.connections: nil (0) or the pool made by the n-th Open
          cpCap,      \* cp.capacity, the capacity of the next pool
          cpMu,       \* who keeps cp.mu over several steps, or "free"
          cpPool,     \* the resource pools made so far
          cpAt,       \* where each goroutine is
          cpP,        \* the pool that its call of cp.pool() returned
          cpConn,     \* the connection a user holds: "none", "up" or "closed"
          cpFrom,     \* the pool that connection comes from
          cpTodo,     \* the places a resizing goroutine has still to take out
          cpPanicked  \* a call panicked

poolVars == <<cpRef, cpCap, cpMu, cpPool, cpAt, cpP, cpConn, cpFrom, cpTodo, cpPanicked>>

NewResourcePool == [cap |-> cpCap, idle |-> 0, blank |-> cpCap, shut |-> FALSE]

Pools == 1..Len(cpPool)

PoolTypeOK ==
  /\ cpRef \in 0..MaxOpens /\ cpCap \in 1..MaxCap
  /\ cpMu \in Procs \cup {"free"}
  /\ \A n \in Pools : cpPool[n] \in [cap : 0..MaxCap, idle : 0..MaxCap, blank : 0..MaxCap, shut : BOOLEAN]
  /\ cpConn \in [PoolUsers -> {"none", "up", "closed"}]

PoolInit ==
  /\ cpRef = 0 /\ cpCap = Capacity /\ cpMu = "free" /\ cpPool = <<>>
  /\ cpAt = [t \in Procs |-> "ready"]
  /\ cpP = [t \in Procs |-> 0]
  /\ cpConn = [u \in PoolUsers |-> "none"]
  /\ cpFrom = [u \in PoolUsers |-> 0]
  /\ cpTodo = [t \in Closers |-> 0]
  /\ cpPanicked = FALSE

Goto(t, l) == cpAt' = [cpAt EXCEPT ![t] = l]

\* cp.pool(): the mutex is free for a moment.
GetPool(t) == cpMu = "free" /\ cpP' = [cpP EXCEPT ![t] = cpRef]

\* Open: NewResourcePool does not connect, so nothing can fail.
Open ==
  /\ Len(cpPool) < MaxOpens
  /\ cpRef = 0 /\ cpMu = "free"
  /\ cpPool' = Append(cpPool, NewResourcePool)
  /\ cpRef' = Len(cpPool) + 1
  /\ UNCHANGED <<cpCap, cpMu, cpAt, cpP, cpConn, cpFrom, cpTodo, cpPanicked>>

\* Get, up to the call of the resource pool: ErrConnectionPoolClosed when
\* there is none.
GetStart(u) ==
  /\ cpAt[u] = "ready" /\ GetPool(u)
  /\ Goto(u, IF cpRef = 0 THEN "ready" ELSE "get")
  /\ UNCHANGED <<cpRef, cpCap, cpMu, cpPool, cpConn, cpFrom, cpTodo, cpPanicked>>

\* p.Get takes a connection, or a blank place for which connect() makes one.
GetTake(u) ==
  LET p == cpPool[cpP[u]]
  IN  /\ cpAt[u] = "get"
      /\ \/ p.idle > 0 /\ cpPool' = [cpPool EXCEPT ![cpP[u]].idle = @ - 1]
         \/ p.blank > 0 /\ cpPool' = [cpPool EXCEPT ![cpP[u]].blank = @ - 1]
      /\ cpConn' = [cpConn EXCEPT ![u] = "up"]
      /\ Goto(u, "use")
      /\ cpFrom' = [cpFrom EXCEPT ![u] = cpP[u]]
      /\ UNCHANGED <<cpRef, cpCap, cpMu, cpP, cpTodo, cpPanicked>>

\* p.Get fails: the pool is shut, connect() fails and the blank place is put
\* back, or getConnTimeout passes while there is none.
GetFail(u) ==
  LET p == cpPool[cpP[u]]
  IN  /\ cpAt[u] = "get"
      /\ p.shut \/ p.blank > 0 \/ p.idle = 0
      /\ Goto(u, "ready")
      /\ UNCHANGED <<cpRef, cpCap, cpMu, cpPool, cpP, cpConn, cpFrom, cpTodo, cpPanicked>>

\* The user closes its connection, or Reconnect replaces it; NewDirectConnection
\* may fail, and the closed one stays.
CloseConn(u) ==
  /\ cpAt[u] = "use"
  /\ cpConn' = [cpConn EXCEPT ![u] = "closed"]
  /\ UNCHANGED <<cpRef, cpCap, cpMu, cpPool, cpAt, cpP, cpFrom, cpTodo, cpPanicked>>

Reconnect(u) ==
  /\ cpAt[u] = "use"
  /\ \E r \in {"up", "closed"} : cpConn' = [cpConn EXCEPT ![u] = r]
  /\ UNCHANGED <<cpRef, cpCap, cpMu, cpPool, cpAt, cpP, cpFrom, cpTodo, cpPanicked>>

\* Recycle calls Put, of nil when the connection is closed; Put panics when
\* the reference is gone.
RecycleStart(u) ==
  /\ cpAt[u] = "use" /\ GetPool(u)
  /\ IF cpRef = 0 THEN cpPanicked' = TRUE /\ Goto(u, "dead")
     ELSE UNCHANGED cpPanicked /\ Goto(u, "put")
  /\ UNCHANGED <<cpRef, cpCap, cpMu, cpPool, cpConn, cpFrom, cpTodo>>

\* p.Put: it panics when the channel is full or closed.
Full(p) == p.shut \/ p.idle + p.blank >= MaxCap

\* tryReuse resets an open connection; one that cannot be reset is closed and
\* leaves a blank place.
Put(u) ==
  LET p == cpPool[cpP[u]]
  IN  /\ cpAt[u] = "put"
      /\ IF Full(p) THEN cpPanicked' = TRUE /\ Goto(u, "dead") /\ UNCHANGED cpPool
         ELSE /\ UNCHANGED cpPanicked /\ Goto(u, "ready")
              /\ \/ cpConn[u] = "up" /\ cpPool' = [cpPool EXCEPT ![cpP[u]].idle = @ + 1]
                 \/ cpPool' = [cpPool EXCEPT ![cpP[u]].blank = @ + 1]
      /\ cpConn' = [cpConn EXCEPT ![u] = "none"]
      /\ UNCHANGED <<cpRef, cpCap, cpMu, cpP, cpFrom, cpTodo>>

\* ResourcePool.SetCapacity: refused on a pool of capacity 0.  A larger
\* capacity adds blank places; a smaller one waits for one place after the
\* other, and closes the connection it holds.
ResizePool(t, n, c) ==
  LET old == cpPool[n].cap
  IN  IF old = 0 THEN UNCHANGED <<cpPool, cpTodo>>
      ELSE /\ cpPool' = [cpPool EXCEPT ![n].cap = c, ![n].blank = @ + Max({0, c - old})]
           /\ cpTodo' = [cpTodo EXCEPT ![t] = Max({0, old - c})]

Drain(t, n) ==
  /\ cpTodo[t] > 0
  /\ cpTodo' = [cpTodo EXCEPT ![t] = @ - 1]
  /\ \/ cpPool[n].idle > 0 /\ cpPool' = [cpPool EXCEPT ![n].idle = @ - 1]
     \/ cpPool[n].blank > 0 /\ cpPool' = [cpPool EXCEPT ![n].blank = @ - 1]

\* Close: the pool is read, resized to 0 and drained, and only then is the
\* reference dropped.  A pool that another Close has resized already refuses,
\* and the error is ignored.
CloseStart(t) ==
  /\ cpAt[t] = "ready" /\ GetPool(t)
  /\ Goto(t, IF cpRef = 0 THEN "ready" ELSE "resize")
  /\ UNCHANGED <<cpRef, cpCap, cpMu, cpPool, cpConn, cpFrom, cpTodo, cpPanicked>>

\* Mutant: the reference is dropped before the pool is drained.
CloseDropsFirst(t) ==
  /\ cpAt[t] = "resize"
  /\ ResizePool(t, cpP[t], 0)
  /\ cpRef' = 0
  /\ Goto(t, IF cpPool[cpP[t]].cap = 0 THEN "drop" ELSE "drain")
  /\ UNCHANGED <<cpCap, cpMu, cpP, cpConn, cpFrom, cpPanicked>>

CloseResize(t) ==
  /\ cpAt[t] = "resize"
  /\ ResizePool(t, cpP[t], 0)
  /\ Goto(t, IF cpPool[cpP[t]].cap = 0 THEN "drop" ELSE "drain")
  /\ UNCHANGED <<cpRef, cpCap, cpMu, cpP, cpConn, cpFrom, cpPanicked>>

CloseDrain(t) ==
  /\ cpAt[t] = "drain" /\ Drain(t, cpP[t])
  /\ UNCHANGED <<cpRef, cpCap, cpMu, cpAt, cpP, cpConn, cpFrom, cpPanicked>>

CloseShut(t) ==
  /\ cpAt[t] = "drain" /\ cpTodo[t] = 0
  /\ cpPool' = [cpPool EXCEPT ![cpP[t]].shut = TRUE]
  /\ Goto(t, "drop")
  /\ UNCHANGED <<cpRef, cpCap, cpMu, cpP, cpConn, cpFrom, cpTodo, cpPanicked>>

CloseDrop(t) ==
  /\ cpAt[t] = "drop" /\ cpMu = "free"
  /\ cpRef' = 0
  /\ Goto(t, "ready")
  /\ UNCHANGED <<cpCap, cpMu, cpPool, cpP, cpConn, cpFrom, cpTodo, cpPanicked>>

\* SetCapacity keeps the mutex while the resource pool is resized, and so
\* does a user wait that has a connection to give back.  A pool of capacity 0
\* refuses, and nothing changes; without a pool only the capacity is noted.
SetCapacity(t, c) ==
  /\ cpAt[t] = "ready" /\ cpMu = "free" /\ cpRef # 0
  /\ cpPool[cpRef].cap # 0
  /\ cpMu' = t
  /\ cpCap' = c
  /\ ResizePool(t, cpRef, c)
  /\ cpP' = [cpP EXCEPT ![t] = cpRef]
  /\ Goto(t, "sizing")
  /\ UNCHANGED <<cpRef, cpConn, cpFrom, cpPanicked>>

SetCapacityClosed(t, c) ==
  /\ cpAt[t] = "ready" /\ cpMu = "free" /\ cpRef = 0
  /\ cpCap' = c
  /\ UNCHANGED <<cpRef, cpMu, cpPool, cpAt, cpP, cpConn, cpFrom, cpTodo, cpPanicked>>

SetCapacityDrain(t) ==
  /\ cpAt[t] = "sizing" /\ Drain(t, cpP[t])
  /\ UNCHANGED <<cpRef, cpCap, cpMu, cpAt, cpP, cpConn, cpFrom, cpPanicked>>

SetCapacityEnd(t) ==
  /\ cpAt[t] = "sizing" /\ cpTodo[t] = 0
  /\ cpMu' = "free"
  /\ Goto(t, "ready")
  /\ UNCHANGED <<cpRef, cpCap, cpPool, cpP, cpConn, cpFrom, cpTodo, cpPanicked>>

PoolNext ==
  \/ Open
  \/ \E u \in PoolUsers : GetStart(u) \/ GetTake(u) \/ GetFail(u) \/ CloseConn(u) \/ Reconnect(u)
                          \/ RecycleStart(u) \/ Put(u)
  \/ \E t \in Closers : \/ CloseStart(t) \/ CloseResize(t) \/ CloseDrain(t) \/ CloseShut(t) \/ CloseDrop(t)
                          \/ SetCapacityDrain(t) \/ SetCapacityEnd(t)
                          \/ \E c \in 1..MaxCap : SetCapacity(t, c) \/ SetCapacityClosed(t, c)

-----------------------------------------------------------------------------
\* A connection goes back to the pool it was taken from, and giving it back
\* never panics, whatever Close and SetCapacity do meanwhile.  Put reads the
\* reference a second time, so this rests on Close dropping it only after all
\* connections are back.
RecycledWhereTaken ==
  /\ ~cpPanicked
  /\ \A u \in PoolUsers : cpAt[u] = "put" => cpP[u] = cpFrom[u]
=============================================================================
