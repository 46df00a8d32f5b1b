--------------------------- MODULE SessionExecutor ---------------------------
(***************************************************************************)
(* Client sessions and the backend connections they lease: the executor    *)
(* of a session (proxy/server/executor.go and executor_handle.go), the     *)
(* part of the session that runs and closes it (proxy/server/session.go),  *)
(* and the pooled connection to MySQL (backend/pooled_connection.go,       *)
(* backend/direct_connection.go, ConnectionPool.Put).                      *)
(*                                                                         *)
(* A session has two goroutines: "cmd" serves the client's commands, and   *)
(* "wheel" is the callback of the time wheel that closes a session whose   *)
(* timeout has passed.  Both may end the session's transaction, under      *)
(* txLock, while the status bits are read without it.                      *)
(*                                                                         *)
(* Each slice has one pool.  The pool itself is the one of ResourcePool:   *)
(* here it is the lease contract, a bag of idle connections and a number   *)
(* of blank tokens for connections not made yet.                           *)
(***************************************************************************)
EXTENDS Integers, FiniteSets

CONSTANTS Sessions,   \* client sessions
          Slices,     \* backend slices, each with one connection pool
          Ids,        \* names for the PooledConnection objects of a pool
          NoConn,     \* the nil *PooledConnection
          PoolSize,   \* capacity of each pool
          Sent,       \* the commands that clients send
          Allowed     \* what else the environment may do, a subset of Hazards

Queries == {"read", "write", "show"}

Controls == {"begin", "commit", "rollback", "ac0", "ac1", "quit"}

(* "setInTx":     SET autocommit = 1 may come between BEGIN and COMMIT.    *)
(* "break":       the server, or the network, may drop a connection.       *)
(* "noReconnect": the three attempts to reconnect may all fail.            *)
(* "timeout":     the session timeout may pass while the client is silent. *)
(* "late":        it may pass just before, or during, a command.           *)
Hazards == {"setInTx", "break", "noReconnect", "timeout", "late"}

ASSUME SessionAssumption ==
    /\ PoolSize \in Nat \ {0}
    /\ Sent \subseteq Queries \cup Controls
    /\ Allowed \subseteq Hazards

Conns == Slices \X Ids

ASSUME NoConnAssumption == NoConn \notin Conns

Procs == {"cmd", "wheel"}

VARIABLES
    status,    \* se.status: the two bits inTrans and autocommit
    txConns,   \* se.txConns
    pcs,       \* the connections of the statement under way (ExecuteSQLs)
    lock,      \* se.txLock: who holds it
    closed,    \* Session.closed
    at,        \* where each goroutine of each session is
    todo,      \* slices the loop it is in has still to visit
    op,        \* the command, or "close"
    reply,     \* what the client will be told: "ok" or "err"
    conn,      \* the connections: proxy side and server side
    pooled,    \* how many wrappers of the pool hold each connection
    blank,     \* how many wrappers of each pool hold nil
    crashed,   \* an unrecovered panic ended the proxy
    clientTx,  \* history: the client has an open BEGIN
    acked,     \* history: slices with an acknowledged write of the transaction
    applied    \* history: slices where a write of the transaction is durable

sessionVars == <<status, txConns, lock, closed>>
controlVars == <<pcs, at, todo, op, reply>>
poolVars    == <<conn, pooled, blank>>
clientVars  == <<clientTx, acked, applied>>
vars == <<sessionVars, controlVars, poolVars, clientVars, crashed>>

NoConns == [sl \in Slices |-> NoConn]

(* isAutoCommit and isInTransaction: two unlocked reads of se.status.      *)
IsAutoCommit(s) == status[s].autocommit

IsInTransactionBegun(s) == status[s].inTrans

IsInTransaction(s) == status[s].inTrans \/ ~IsAutoCommit(s)

-----------------------------------------------------------------------------
(***************************************************************************)
(* One backend connection.  "st" is dc.status, the status word of the last *)
(* OK packet; "srv" is the session of the MySQL server: autocommit, open   *)
(* transaction, and the client sessions whose writes that transaction      *)
(* holds.  net is "none" when dc.conn is nil; live says that the           *)
(* PooledConnection is in the pool or leased.                              *)
(***************************************************************************)
Clean == [ac |-> TRUE, tx |-> FALSE, work |-> {}]

Fresh == [live |-> TRUE, net |-> "up", closed |-> FALSE,
          st |-> [ac |-> TRUE, tx |-> FALSE], srv |-> Clean]

Dead == [Fresh EXCEPT !.live = FALSE, !.net = "none", !.closed = TRUE]

(* What a statement does to the session of the server: MySQL's rules for   *)
(* transactions.  Only a change of autocommit from 0 to 1 commits.         *)
Server(v, q, s) ==
    CASE q = "begin" -> {[v EXCEPT !.tx = TRUE, !.work = {}]}
      [] q \in {"commit", "rollback"} -> {[v EXCEPT !.tx = FALSE, !.work = {}]}
      [] q = "ac0" -> {[v EXCEPT !.ac = FALSE]}
      [] q = "ac1" -> {IF v.ac THEN v ELSE Clean}
      [] q = "write" -> {IF v.tx \/ ~v.ac
                           THEN [v EXCEPT !.tx = TRUE, !.work = @ \cup {s}] ELSE v}
      [] q = "read" -> {[v EXCEPT !.tx = @ \/ ~v.ac]}

(* The sessions whose writes the statement makes durable.                  *)
Durable(v, q, s) ==
    CASE q \in {"begin", "commit"} -> v.work
      [] q = "ac1" /\ ~v.ac -> v.work
      [] q = "write" /\ v.ac /\ ~v.tx -> {s}
      [] OTHER -> {}

(* writePacket on a broken connection: close it, set closed, and try to    *)
(* connect again.  The statement fails either way; connect leaves closed   *)
(* set.  When all three attempts fail dc.conn is nil, or a connection that *)
(* a failed handshake closed.  Other write errors leave all as it is.      *)
WritePacketOutcomes(r) ==
    {r, [Fresh EXCEPT !.closed = TRUE]}
      \cup IF "noReconnect" \in Allowed
             THEN {[r EXCEPT !.net = n, !.closed = TRUE] : n \in {"none", "broken"}} ELSE {}

Lost(r) == [r EXCEPT !.net = "broken", !.srv = Clean]

(* SetAutoCommit closes the network connection when its statement fails,   *)
(* and dc.conn may be nil by then.                                         *)
SetAutoCommitFailure(r) ==
    IF r.net = "none" THEN [conn |-> r, res |-> "panic", durable |-> {}]
    ELSE [conn |-> Lost(r), res |-> "err", durable |-> {}]

(* An OK packet brings the status word of the server.                      *)
HandleOKPacket(r, v) == [r EXCEPT !.srv = v, !.st = [ac |-> v.ac, tx |-> v.tx]]

(* An ERR packet brings none, although with autocommit = 0 the failed      *)
(* statement may have opened a transaction.                                *)
HandleErrorPacket(r) == {r} \cup IF r.srv.ac THEN {} ELSE {[r EXCEPT !.srv.tx = TRUE]}

(* exec: the outcomes of sending statement q for session s.  With nil for  *)
(* dc.conn the first access panics.  A connection lost between the write   *)
(* and the answer leaves open whether the statement took effect.           *)
Exec(r, q, s) ==
    LET Failed(f) == IF q \in {"ac0", "ac1"} THEN SetAutoCommitFailure(f)
                     ELSE [conn |-> f, res |-> "err", durable |-> {}]
        Done == {[conn |-> HandleOKPacket(r, v), res |-> "ok", durable |-> Durable(r.srv, q, s)]
                   : v \in Server(r.srv, q, s)}
        NoAnswer == {[conn |-> Lost(r), res |-> "err", durable |-> d]
                       : d \in {{}, Durable(r.srv, q, s)}}
    IN  CASE r.net = "up" -> Done \cup {Failed(f) : f \in HandleErrorPacket(r)}
                               \cup IF "break" \in Allowed THEN NoAnswer ELSE {}
          [] r.net = "broken" -> {Failed(f) : f \in WritePacketOutcomes(r)}
          [] r.net = "none" -> {[conn |-> r, res |-> "panic", durable |-> {}]}

(* ResetConnection: roll back if dc.status says so, then autocommit = 1.   *)
ResetConnectionKeepsTx(r) ==
    IF r.st.ac THEN {[conn |-> r, res |-> "ok", durable |-> {}]} ELSE Exec(r, "ac1", NoConn)

ResetConnection(r) ==
    LET rolledBack == IF r.st.tx THEN Exec(r, "rollback", NoConn)
                      ELSE {[conn |-> r, res |-> "ok", durable |-> {}]}
    IN  UNION {IF o.res # "ok" \/ o.conn.st.ac THEN {o} ELSE Exec(o.conn, "ac1", NoConn)
                 : o \in rolledBack}

(* Recycle and ConnectionPool.Put: a closed connection gives back a blank  *)
(* token, as does one that cannot be reset, which is closed first.  The    *)
(* object is dropped; if its network connection is up nobody closes it.    *)
Recycle(r) ==
    IF r.closed
      THEN {[conn |-> [Dead EXCEPT !.net = IF r.net = "up" THEN "up" ELSE "none"],
             to |-> "blank", durable |-> {}]}
      ELSE {CASE o.res = "ok"    -> [conn |-> o.conn, to |-> "pool", durable |-> o.durable]
              [] o.res = "err"   -> [conn |-> Dead, to |-> "blank", durable |-> o.durable]
              [] o.res = "panic" -> [conn |-> o.conn, to |-> "lost", durable |-> o.durable]
            : o \in ResetConnection(r)}

-----------------------------------------------------------------------------
Init ==
    /\ status = [s \in Sessions |-> [inTrans |-> FALSE, autocommit |-> TRUE]]
    /\ txConns = [s \in Sessions |-> NoConns]
    /\ pcs = [s \in Sessions |-> NoConns]
    /\ lock = [s \in Sessions |-> "free"]
    /\ closed = [s \in Sessions |-> FALSE]
    /\ at = [s \in Sessions |-> [p \in Procs |-> "idle"]]
    /\ todo = [s \in Sessions |-> [p \in Procs |-> {}]]
    /\ op = [s \in Sessions |-> [p \in Procs |-> "none"]]
    /\ reply = [s \in Sessions |-> "ok"]
    /\ conn = [c \in Conns |-> Dead]
    /\ pooled = [c \in Conns |-> 0]
    /\ blank = [sl \in Slices |-> PoolSize]
    /\ crashed = FALSE
    /\ clientTx = [s \in Sessions |-> FALSE]
    /\ acked = [s \in Sessions |-> {}]
    /\ applied = [s \in Sessions |-> {}]

-----------------------------------------------------------------------------
(* Helpers of the actions.                                                 *)

At(s, p, here) == ~crashed /\ at[s][p] = here

Goto(s, p, there) == at' = [at EXCEPT ![s][p] = there]

(* Leave a loop over todo at its last slice, else stay in it.              *)
Visit(s, p, sl, next) ==
    /\ todo' = [todo EXCEPT ![s][p] = @ \ {sl}]
    /\ IF todo[s][p] = {sl} THEN Goto(s, p, next) ELSE UNCHANGED at

MakeDurable(who, sl) ==
    applied' = [s \in Sessions |-> IF s \in who THEN applied[s] \cup {sl} ELSE applied[s]]

Leased(s) == {sl \in Slices : pcs[s][sl] # NoConn}

InTx(s) == {sl \in Slices : txConns[s][sl] # NoConn}

(* A token leaves the pool of sl as connection c: an idle one, or one the  *)
(* factory makes for a blank token.                                        *)
Available(c) ==
    \/ pooled[c] > 0
    \/ blank[c[1]] > 0 /\ ~conn[c].live /\ conn[c].net # "up"

Take(c) ==
    IF pooled[c] > 0
      THEN pooled' = [pooled EXCEPT ![c] = @ - 1] /\ UNCHANGED blank
      ELSE blank' = [blank EXCEPT ![c[1]] = @ - 1] /\ UNCHANGED pooled

Taken(c) == IF pooled[c] > 0 THEN conn[c] ELSE Fresh

GiveBackForgets(c, k) ==
    /\ pooled' = IF k.to = "pool" THEN [pooled EXCEPT ![c] = @ + 1] ELSE pooled
    /\ UNCHANGED blank

GiveBack(c, k) ==
    /\ pooled' = IF k.to = "pool" THEN [pooled EXCEPT ![c] = @ + 1] ELSE pooled
    /\ blank' = IF k.to = "blank" THEN [blank EXCEPT ![c[1]] = @ + 1] ELSE blank

-----------------------------------------------------------------------------
(* The client sends a command; it must not find its socket closed yet.     *)

Listening(s) ==
    /\ At(s, "cmd", "idle")
    /\ At(s, "wheel", "idle") \/ ("late" \in Allowed /\ at[s]["wheel"] # "done")

(* A statement that runs on the slices of its plan (ExecuteSQLs), or SHOW  *)
(* and field list, which run on one slice in the session's own goroutine.  *)
Query(s) ==
    /\ Listening(s)
    /\ \E q \in Sent \cap Queries, T \in SUBSET Slices \ {{}} :
         /\ q = "show" => Cardinality(T) = 1
         /\ op' = [op EXCEPT ![s]["cmd"] = q]
         /\ todo' = [todo EXCEPT ![s]["cmd"] = T]
    /\ Goto(s, "cmd", "get")
    /\ UNCHANGED <<sessionVars, pcs, reply, poolVars, clientVars, crashed>>

(* BEGIN, COMMIT, ROLLBACK, SET autocommit, quit: all of them take txLock  *)
(* first.  Preview knows SAVEPOINT and ROLLBACK TO by no name of theirs,   *)
(* so those statements run on one slice as SHOW does, and the handlers     *)
(* handleSavepoint and handleRollbackTo are never called.                  *)
Control(s) ==
    /\ Listening(s)
    /\ \E q \in Sent \cap Controls :
         /\ q = "ac1" /\ clientTx[s] => "setInTx" \in Allowed
         /\ op' = [op EXCEPT ![s]["cmd"] = q]
    /\ Goto(s, "cmd", "lock")
    /\ UNCHANGED <<sessionVars, pcs, todo, reply, poolVars, clientVars, crashed>>

(* The read of the next packet fails: Run returns and closes the session.  *)
Disconnect(s) ==
    /\ At(s, "cmd", "idle")
    /\ op' = [op EXCEPT ![s]["cmd"] = "close"]
    /\ Goto(s, "cmd", "check")
    /\ UNCHANGED <<sessionVars, pcs, todo, reply, poolVars, clientVars, crashed>>

-----------------------------------------------------------------------------
(* Statements: getBackendConns, executeInMultiSlices, recycleBackendConns. *)

(* getBackendConn decides by the status bits where the connection of the   *)
(* next slice comes from.                                                  *)
GetBackendConn(s) ==
    /\ At(s, "cmd", "get")
    /\ Goto(s, "cmd", IF IsInTransaction(s) THEN "getTx" ELSE "getPool")
    /\ UNCHANGED <<sessionVars, pcs, todo, op, reply, poolVars, clientVars, crashed>>

(* The slice has its connection; execution starts after the last one.      *)
Got(s, sl, c) ==
    /\ pcs' = [pcs EXCEPT ![s][sl] = c]
    /\ IF todo[s]["cmd"] = {sl}
         THEN /\ todo' = [todo EXCEPT ![s]["cmd"] = Leased(s) \cup {sl}]
              /\ Goto(s, "cmd", "exec")
         ELSE /\ todo' = [todo EXCEPT ![s]["cmd"] = @ \ {sl}]
              /\ Goto(s, "cmd", "get")

Refuse(s, there) ==
    /\ reply' = [reply EXCEPT ![s] = "err"]
    /\ todo' = [todo EXCEPT ![s]["cmd"] = {}]
    /\ Goto(s, "cmd", there)

GetFromPool(s) ==
    /\ At(s, "cmd", "getPool")
    /\ \E c \in Conns :
         /\ c[1] \in todo[s]["cmd"]
         /\ Available(c)
         /\ Take(c)
         /\ conn' = [conn EXCEPT ![c] = Taken(c)]
         /\ Got(s, c[1], c)
    /\ UNCHANGED <<sessionVars, op, reply, clientVars, crashed>>

(* The pool has no idle connection: getConnTimeout passes, or the factory  *)
(* fails.                                                                  *)
GetNeverFails(s) == FALSE

GetFails(s) ==
    /\ \/ At(s, "cmd", "getPool")
       \/ At(s, "cmd", "getTx") /\ lock[s] = "free"
    /\ \E sl \in todo[s]["cmd"] :
         /\ \A c \in Conns : c[1] = sl => pooled[c] = 0
         /\ at[s]["cmd"] = "getTx" => txConns[s][sl] = NoConn
    /\ Refuse(s, "recycle")
    /\ UNCHANGED <<sessionVars, pcs, op, poolVars, clientVars, crashed>>

(* getTransactionConn under txLock: the slice's connection of this         *)
(* transaction, or a new one on which a transaction is begun first.  One   *)
(* that cannot begin is closed and its token given back.                   *)
GetTransactionConn(s) ==
    /\ At(s, "cmd", "getTx")
    /\ lock[s] = "free"
    /\ \/ \E sl \in todo[s]["cmd"] :
            /\ txConns[s][sl] # NoConn
            /\ Got(s, sl, txConns[s][sl])
            /\ UNCHANGED <<txConns, reply, poolVars, applied>>
       \/ \E c \in Conns : LET sl == c[1] IN
            /\ sl \in todo[s]["cmd"]
            /\ txConns[s][sl] = NoConn
            /\ Available(c)
            /\ \E o \in Exec(Taken(c), IF IsAutoCommit(s) THEN "begin" ELSE "ac0", s) :
                 /\ MakeDurable(o.durable, sl)
                 /\ \/ /\ o.res = "ok"
                       /\ Take(c)
                       /\ conn' = [conn EXCEPT ![c] = o.conn]
                       /\ txConns' = [txConns EXCEPT ![s][sl] = c]
                       /\ Got(s, sl, c)
                       /\ UNCHANGED reply
                    \/ /\ o.res = "err"
                       /\ conn' = [conn EXCEPT ![c] = Dead]
                       /\ pooled' = IF pooled[c] > 0 THEN [pooled EXCEPT ![c] = @ - 1] ELSE pooled
                       /\ blank' = IF pooled[c] > 0 THEN [blank EXCEPT ![sl] = @ + 1] ELSE blank
                       /\ Refuse(s, "recycle")
                       /\ UNCHANGED <<txConns, pcs>>
                    \/ /\ o.res = "panic"
                       /\ Take(c)
                       /\ conn' = [conn EXCEPT ![c] = o.conn]
                       /\ pcs' = [pcs EXCEPT ![s] = NoConns]
                       /\ Refuse(s, "reply")
                       /\ UNCHANGED txConns
    /\ UNCHANGED <<status, lock, closed, op, clientTx, acked, crashed>>

(* One of the goroutines of executeInMultiSlices, or executeInSlice for    *)
(* SHOW.  A nil dc.conn panics: nothing recovers in those goroutines.      *)
Execute(s) ==
    /\ At(s, "cmd", "exec")
    /\ \E sl \in todo[s]["cmd"] : LET c == pcs[s][sl]
                                      q == IF op[s]["cmd"] = "write" THEN "write" ELSE "read" IN
         \E o \in Exec(conn[c], q, s) :
           /\ conn' = [conn EXCEPT ![c] = o.conn]
           /\ MakeDurable(o.durable, sl)
           /\ acked' = IF q = "write" /\ o.res = "ok" THEN [acked EXCEPT ![s] = @ \cup {sl}] ELSE acked
           /\ reply' = IF o.res = "ok" THEN reply ELSE [reply EXCEPT ![s] = "err"]
           /\ Visit(s, "cmd", sl, "recycle")
           /\ crashed' = (o.res = "panic" /\ op[s]["cmd"] # "show")
    /\ UNCHANGED <<sessionVars, pcs, op, pooled, blank, clientTx>>

(* recycleBackendConns does nothing inside a transaction, by what the      *)
(* status bits say now.                                                    *)
RecycleAlways(s) ==
    /\ At(s, "cmd", "recycle")
    /\ Goto(s, "cmd", IF Leased(s) = {} THEN "reply" ELSE "put")
    /\ todo' = [todo EXCEPT ![s]["cmd"] = Leased(s)]
    /\ UNCHANGED pcs
    /\ UNCHANGED <<sessionVars, op, reply, poolVars, clientVars, crashed>>

RecycleBackendConns(s) ==
    /\ At(s, "cmd", "recycle")
    /\ IF IsInTransaction(s) \/ Leased(s) = {}
         THEN /\ Goto(s, "cmd", "reply")
              /\ pcs' = [pcs EXCEPT ![s] = NoConns]
              /\ UNCHANGED todo
         ELSE /\ Goto(s, "cmd", "put")
              /\ todo' = [todo EXCEPT ![s]["cmd"] = Leased(s)]
              /\ UNCHANGED pcs
    /\ UNCHANGED <<sessionVars, op, reply, poolVars, clientVars, crashed>>

PutConn(s) ==
    /\ At(s, "cmd", "put")
    /\ \E sl \in todo[s]["cmd"] : LET c == pcs[s][sl] IN
         \E k \in Recycle(conn[c]) :
           /\ conn' = [conn EXCEPT ![c] = k.conn]
           /\ GiveBack(c, k)
           /\ MakeDurable(k.durable, sl)
           /\ IF k.to = "lost"
                THEN Refuse(s, "reply") /\ pcs' = [pcs EXCEPT ![s] = NoConns]
                ELSE /\ Visit(s, "cmd", sl, "reply")
                     /\ pcs' = [pcs EXCEPT ![s][sl] = NoConn]
                     /\ UNCHANGED reply
    /\ UNCHANGED <<sessionVars, op, clientTx, acked, crashed>>

-----------------------------------------------------------------------------
(* Commands that end or start a transaction, under txLock.                 *)

(* Take txLock, set the status bits, and go through the connections of     *)
(* the transaction.                                                        *)
Acquire(s, p, bits, loop) ==
    /\ At(s, p, "lock")
    /\ lock[s] = "free"
    /\ lock' = [lock EXCEPT ![s] = p]
    /\ status' = [status EXCEPT ![s] = bits]
    /\ todo' = [todo EXCEPT ![s][p] = InTx(s)]
    /\ Goto(s, p, loop)
    /\ UNCHANGED <<txConns, pcs, closed, op, reply, poolVars, acked, applied, crashed>>

(* handleBegin sets its bit only at the end.                               *)
HandleBegin(s) ==
    op[s]["cmd"] = "begin" /\ Acquire(s, "cmd", status[s], "begin") /\ UNCHANGED clientTx

Commit(s) ==
    /\ op[s]["cmd"] = "commit"
    /\ Acquire(s, "cmd", [status[s] EXCEPT !.inTrans = FALSE], "finish")
    /\ UNCHANGED clientTx

(* rollback, for ROLLBACK, for quit and for Close by either goroutine.     *)
Rollback(s, p) ==
    /\ op[s][p] \in {"rollback", "quit", "close"}
    /\ Acquire(s, p, [status[s] EXCEPT !.inTrans = FALSE], "finish")
    /\ UNCHANGED clientTx

(* handleSetAutoCommit: 1 ends the transaction, 0 only clears the bit.     *)
SetAutoCommitOn(s) ==
    /\ op[s]["cmd"] = "ac1"
    /\ Acquire(s, "cmd", [inTrans |-> FALSE, autocommit |-> TRUE], "finish")
    /\ clientTx' = [clientTx EXCEPT ![s] = @ /\ IsAutoCommit(s)]

SetAutoCommitOff(s) ==
    /\ At(s, "cmd", "lock") /\ op[s]["cmd"] = "ac0"
    /\ lock[s] = "free"
    /\ status' = [status EXCEPT ![s].autocommit = FALSE]
    /\ Goto(s, "cmd", "reply")
    /\ UNCHANGED <<txConns, lock, closed, pcs, todo, op, reply, poolVars, clientVars, crashed>>

(* handleBegin: BEGIN on every connection of the transaction, up to the    *)
(* first that fails; the status bit only after the last.                   *)
BeginConn(s) ==
    /\ At(s, "cmd", "begin")
    /\ \E sl \in todo[s]["cmd"] : LET c == txConns[s][sl] IN
         \E o \in Exec(conn[c], "begin", s) :
           /\ conn' = [conn EXCEPT ![c] = o.conn]
           /\ MakeDurable(o.durable, sl)
           /\ IF o.res = "ok"
                THEN todo' = [todo EXCEPT ![s]["cmd"] = @ \ {sl}] /\ UNCHANGED <<lock, at, reply>>
                ELSE Refuse(s, "reply") /\ lock' = [lock EXCEPT ![s] = "free"]
    /\ UNCHANGED <<status, txConns, closed, pcs, op, pooled, blank, clientTx, acked, crashed>>

BeginDone(s) ==
    /\ At(s, "cmd", "begin") /\ todo[s]["cmd"] = {}
    /\ status' = [status EXCEPT ![s].inTrans = TRUE]
    /\ lock' = [lock EXCEPT ![s] = "free"]
    /\ Goto(s, "cmd", "reply")
    /\ UNCHANGED <<txConns, closed, pcs, todo, op, reply, poolVars, clientVars, crashed>>

(* The statement that commit, rollback, SET autocommit = 1, quit and Close *)
(* send on each connection.                                                *)
Statement(q) == IF q \in {"quit", "close"} THEN "rollback" ELSE q

(* One turn of the loop of those handlers: the statement, then Recycle,    *)
(* whether the statement succeeded or not.  A panic leaves the loop:       *)
(* handleQuery answers with an error, Run closes the session, and in the   *)
(* goroutine of the wheel nothing recovers.                                *)
FinishConn(s, p) ==
    /\ At(s, p, "finish")
    /\ \E sl \in todo[s][p] : LET c == txConns[s][sl]
                                  q == op[s][p] IN
         \E o \in Exec(conn[c], Statement(q), s) :
         \E k \in IF o.res = "panic" THEN {[conn |-> o.conn, to |-> "lost", durable |-> {}]}
                  ELSE Recycle(o.conn) :
           /\ conn' = [conn EXCEPT ![c] = k.conn]
           /\ GiveBack(c, k)
           /\ MakeDurable(o.durable \cup k.durable, sl)
           /\ reply' = IF o.res = "ok" /\ k.to # "lost" THEN reply ELSE [reply EXCEPT ![s] = "err"]
           /\ IF k.to = "lost"
                THEN /\ crashed' = (p = "wheel")
                     /\ lock' = [lock EXCEPT ![s] = "free"]
                     /\ todo' = [todo EXCEPT ![s][p] = {}]
                     /\ Goto(s, p, CASE q = "close" -> "done" [] q = "quit" -> "check" [] OTHER -> "reply")
                ELSE /\ todo' = [todo EXCEPT ![s][p] = @ \ {sl}]
                     /\ UNCHANGED <<crashed, lock, at>>
    /\ UNCHANGED <<status, txConns, closed, pcs, op, clientTx, acked>>

(* The end of those handlers: a new, empty txConns and the lock released.  *)
FinishDone(s, p) ==
    /\ At(s, p, "finish") /\ todo[s][p] = {}
    /\ txConns' = [txConns EXCEPT ![s] = NoConns]
    /\ lock' = [lock EXCEPT ![s] = "free"]
    /\ Goto(s, p, IF op[s][p] = "close" THEN "done" ELSE "reply")
    /\ UNCHANGED <<status, closed, pcs, todo, op, reply, poolVars, clientVars, crashed>>

-----------------------------------------------------------------------------
(* The answer to the client and the loop of Run.  A failed write closes    *)
(* the session, as do quit and a set closed flag.                          *)
Reply(s) ==
    /\ At(s, "cmd", "reply")
    /\ LET q == op[s]["cmd"]
           ok == reply[s] = "ok"
           tx == CASE q = "begin" /\ ok -> TRUE
                   [] q \in {"commit", "rollback", "quit"} -> FALSE
                   [] OTHER -> clientTx[s]
           over == q \in {"begin", "commit", "rollback", "quit"} \/ (~tx /\ IsAutoCommit(s))
           next == IF q = "quit" \/ closed[s] THEN {"check"} ELSE {"idle", "check"} IN
         /\ clientTx' = [clientTx EXCEPT ![s] = tx]
         /\ acked' = IF over THEN [acked EXCEPT ![s] = {}] ELSE acked
         /\ applied' = IF over THEN [applied EXCEPT ![s] = {}] ELSE applied
         /\ \E there \in next :
              /\ Goto(s, "cmd", there)
              /\ op' = [op EXCEPT ![s]["cmd"] = IF there = "check" THEN "close" ELSE "none"]
    /\ reply' = [reply EXCEPT ![s] = "ok"]
    /\ UNCHANGED <<sessionVars, pcs, todo, poolVars, crashed>>

(* Session.Close by either goroutine: test the flag, set it, roll back.    *)
(* After a panic on quit the command is still to be replaced by "close".   *)
CloseCheck(s, p) ==
    /\ At(s, p, "check")
    /\ op' = [op EXCEPT ![s][p] = "close"]
    /\ Goto(s, p, IF closed[s] THEN "done" ELSE "store")
    /\ UNCHANGED <<sessionVars, pcs, todo, reply, poolVars, clientVars, crashed>>

\* Mutant: Close only marks the session, and leaves its transaction as it is.
CloseStoreOnly(s, p) ==
    /\ At(s, p, "store")
    /\ closed' = [closed EXCEPT ![s] = TRUE]
    /\ Goto(s, p, "done")
    /\ UNCHANGED <<status, txConns, lock, pcs, todo, op, reply, poolVars, clientVars, crashed>>

CloseStore(s, p) ==
    /\ At(s, p, "store")
    /\ closed' = [closed EXCEPT ![s] = TRUE]
    /\ Goto(s, p, "lock")
    /\ UNCHANGED <<status, txConns, lock, pcs, todo, op, reply, poolVars, clientVars, crashed>>

(* The wheel reaches the session's task, which every command renews.       *)
(* Unless "late" it finds the session waiting for a command that does not  *)
(* come before the session is closed.                                      *)
WheelFires(s) ==
    /\ At(s, "wheel", "idle")
    /\ at[s]["cmd"] # "done"
    /\ "late" \in Allowed \/ ("timeout" \in Allowed /\ at[s]["cmd"] = "idle")
    /\ Goto(s, "wheel", "check")
    /\ UNCHANGED <<sessionVars, pcs, todo, op, reply, poolVars, clientVars, crashed>>

(* The server drops a connection and rolls its transaction back.           *)
Break(c) ==
    /\ ~crashed /\ "break" \in Allowed
    /\ conn[c].live /\ conn[c].net = "up"
    /\ conn' = [conn EXCEPT ![c] = Lost(@)]
    /\ UNCHANGED <<sessionVars, controlVars, pooled, blank, clientVars, crashed>>

-----------------------------------------------------------------------------
Statements(s) ==
    \/ GetBackendConn(s) \/ GetFromPool(s) \/ GetFails(s) \/ GetTransactionConn(s)
    \/ Execute(s) \/ RecycleBackendConns(s) \/ PutConn(s)

Ending(s, p) ==
    Rollback(s, p) \/ FinishConn(s, p) \/ FinishDone(s, p) \/ CloseCheck(s, p) \/ CloseStore(s, p)

Serve(s) ==
    \/ Statements(s) \/ Reply(s) \/ Ending(s, "cmd")
    \/ HandleBegin(s) \/ BeginConn(s) \/ BeginDone(s)
    \/ Commit(s) \/ SetAutoCommitOn(s) \/ SetAutoCommitOff(s)

Next ==
    \/ \E s \in Sessions :
         \/ Query(s) \/ Control(s) \/ Disconnect(s) \/ WheelFires(s)
         \/ Serve(s) \/ Ending(s, "wheel")
    \/ \E c \in Conns : Break(c)

Spec == Init /\ [][Next]_vars

(* Goroutines that can run do run, and a Get that finds nothing times out  *)
(* after getConnTimeout.  Nothing is assumed of clients or of the network. *)
Fairness ==
    \A s \in Sessions : WF_vars(Serve(s)) /\ WF_vars(Ending(s, "wheel"))

FairSpec == Spec /\ Fairness
-----------------------------------------------------------------------------
(* Properties.                                                             *)

Places == {"idle", "get", "getTx", "getPool", "exec", "recycle", "put", "lock",
           "begin", "finish", "reply", "check", "store", "done"}

Commands == Queries \cup Controls \cup {"none", "close"}

ConnType == [live : BOOLEAN, net : {"up", "broken", "none"}, closed : BOOLEAN,
             st : [ac : BOOLEAN, tx : BOOLEAN],
             srv : [ac : BOOLEAN, tx : BOOLEAN, work : SUBSET Sessions]]

(* Every variable has the type its declaration in the executor, the        *)
(* session or the connection gives it, and a slice's connection comes from *)
(* that slice's pool.                                                      *)
TypeOK ==
    /\ status \in [Sessions -> [inTrans : BOOLEAN, autocommit : BOOLEAN]]
    /\ txConns \in [Sessions -> [Slices -> Conns \cup {NoConn}]]
    /\ pcs \in [Sessions -> [Slices -> Conns \cup {NoConn}]]
    /\ \A s \in Sessions, sl \in Slices, c \in Conns :
         txConns[s][sl] = c \/ pcs[s][sl] = c => c[1] = sl
    /\ lock \in [Sessions -> Procs \cup {"free"}]
    /\ closed \in [Sessions -> BOOLEAN]
    /\ at \in [Sessions -> [Procs -> Places]]
    /\ todo \in [Sessions -> [Procs -> SUBSET Slices]]
    /\ op \in [Sessions -> [Procs -> Commands]]
    /\ reply \in [Sessions -> {"ok", "err"}]
    /\ conn \in [Conns -> ConnType]
    /\ pooled \in [Conns -> Nat]
    /\ blank \in [Slices -> Nat]
    /\ crashed \in BOOLEAN
    /\ clientTx \in [Sessions -> BOOLEAN]
    /\ acked \in [Sessions -> SUBSET Slices]
    /\ applied \in [Sessions -> SUBSET Slices]

(* The loop of commit, rollback and the like has already recycled the      *)
(* connection of this slice, which txConns holds until the loop ends.      *)
Released(s, sl) ==
    /\ lock[s] # "free"
    /\ at[s][lock[s]] = "finish"
    /\ sl \notin todo[s][lock[s]]

Holds(s, sl, c) ==
    pcs[s][sl] = c \/ (txConns[s][sl] = c /\ ~Released(s, sl))

Holders(c) == {x \in Sessions \X Slices : Holds(x[1], x[2], c)}

(* A backend connection is idle in its pool or used by one session, never  *)
(* both, never by two sessions, and never twice in the pool: each lease    *)
(* (getTransactionConn, GetConn) ends in one Recycle.                      *)
OneUser == \A c \in Conns : pooled[c] + Cardinality(Holders(c)) <= 1

(* A connection that waits in the pool has no open transaction and has     *)
(* autocommit on, on the server and not only in dc.status, whatever the    *)
(* session that used it did and however its last statement ended           *)
(* (ResetConnection decides by dc.status alone).                           *)
PoolClean ==
    \A c \in Conns : pooled[c] > 0 =>
        /\ conn[c].srv = Clean
        /\ ~conn[c].closed /\ conn[c].live

InUse(sl) == {c \in Conns : c[1] = sl /\ Holders(c) # {}}

(* The wrappers of a pool that hold a connection.                          *)
Wrapped(sl) == UNION {{c} \X (1..pooled[c]) : c \in {d \in Conns : d[1] = sl}}

(* No token of a pool is lost or made up, through failed Gets, failed      *)
(* BEGINs, failed statements and connections that are dropped: idle, blank *)
(* and leased ones add up to the capacity.                                 *)
TokensKept ==
    \A sl \in Slices :
        Cardinality(Wrapped(sl)) + blank[sl] + Cardinality(InUse(sl)) = PoolSize

(* When COMMIT (or BEGIN, or SET autocommit = 1 after 0) is answered with  *)
(* OK, every write the proxy acknowledged in that transaction is durable.  *)
CommitDurable ==
    \A s \in Sessions :
        (/\ at[s]["cmd"] = "reply" /\ reply[s] = "ok"
         /\ \/ op[s]["cmd"] \in {"commit", "begin"}
            \/ op[s]["cmd"] = "ac1" /\ ~clientTx[s])
        => acked[s] \subseteq applied[s]

(* When ROLLBACK is answered with OK, no write of that transaction is      *)
(* durable: none was executed outside the transaction of the backend.      *)
RollbackClean ==
    \A s \in Sessions :
        (/\ at[s]["cmd"] = "reply" /\ reply[s] = "ok" /\ op[s]["cmd"] = "rollback"
         /\ clientTx[s] \/ ~IsAutoCommit(s))
        => applied[s] = {}

(* A session that is gone, by quit, disconnect or timeout, holds no        *)
(* connection: Close rolled back and recycled all of them.                 *)
GoneHoldsNothing ==
    \A s \in Sessions :
        (at[s]["cmd"] = "done" /\ at[s]["wheel"] \in {"idle", "done"})
        => InTx(s) = {} /\ Leased(s) = {}

(* Every command the client sends is answered, or the session ends: no     *)
(* session waits for ever for txLock or for connections that others hold   *)
(* (two transactions that need the same two slices).                       *)
CommandAnswered ==
    \A s \in Sessions : at[s]["cmd"] \in {"get", "lock"} ~> at[s]["cmd"] \in {"idle", "done"}

(* The loss of a backend connection makes statements fail but never ends   *)
(* the proxy.                                                              *)
ProxySurvives == ~crashed

=============================================================================
