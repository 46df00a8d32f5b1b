---------------------- MODULE SessionConnectionProofs ----------------------
(***************************************************************************)
(* The inductive invariant of SessionExecutor, what a statement and        *)
(* Recycle make of one connection, and what the invariant says of one      *)
(* session and of the connections it holds.                                *)
(***************************************************************************)
EXTENDS SessionExecutor, TLAPS

(* A timeout comes while the client is silent, and a reconnect succeeds.   *)
Calm == "late" \notin Allowed /\ "noReconnect" \notin Allowed

Busy == {"get", "getTx", "getPool", "exec", "recycle", "put"}
Getting == {"get", "getTx", "getPool"}
Closing == {"store", "lock", "finish"}
Enders == {"commit", "rollback", "ac1", "quit", "close"}

(* The two goroutines of a session: once the wheel has fired the other one *)
(* can only close the session, too.                                        *)
Wheel(s) ==
    /\ at[s]["wheel"] \in {"idle", "check", "done"} \cup Closing
    /\ at[s]["wheel"] \in Closing => op[s]["wheel"] = "close"
    /\ at[s]["wheel"] # "idle" =>
         /\ at[s]["cmd"] \in {"idle", "check", "done"} \cup Closing
         /\ at[s]["cmd"] \in Closing => op[s]["cmd"] = "close"

(* What a command may be doing, and who has txLock.                        *)
Doing(s) ==
    /\ at[s]["cmd"] \in Busy => op[s]["cmd"] \in Queries
    /\ at[s]["cmd"] = "lock" => op[s]["cmd"] \in Controls \cup {"close"}
    /\ at[s]["cmd"] = "begin" => op[s]["cmd"] = "begin"
    /\ at[s]["cmd"] = "finish" => op[s]["cmd"] \in Enders
    /\ at[s]["cmd"] = "store" => op[s]["cmd"] = "close"
    /\ \A p \in Procs : lock[s] = p <=> at[s][p] \in {"begin", "finish"}

(* A statement's connections: none outside a statement, those of the       *)
(* transaction inside one, and todo names the ones still to be visited.    *)
Leasing(s) ==
    /\ at[s]["cmd"] \notin Busy => pcs[s] = NoConns
    /\ at[s]["cmd"] = "exec" => todo[s]["cmd"] \subseteq Leased(s)
    /\ at[s]["cmd"] = "put" => todo[s]["cmd"] = Leased(s)
    /\ at[s]["cmd"] \in Getting => todo[s]["cmd"] \cap Leased(s) = {}
    /\ at[s]["cmd"] = "getTx" => IsInTransaction(s)
    /\ at[s]["cmd"] \in {"getPool", "put"} => ~IsInTransaction(s)
    /\ IsInTransaction(s) => \A sl \in Leased(s) : pcs[s][sl] = txConns[s][sl]

(* A transaction's connections: none outside a transaction, but while they *)
(* are being released.                                                     *)
Transaction(s) ==
    /\ ~IsInTransaction(s) /\ (\A p \in Procs : at[s][p] # "finish") => txConns[s] = NoConns
    /\ \A p \in Procs : at[s][p] \in {"begin", "finish"} => todo[s][p] \subseteq InTx(s)

Shape(s) == Wheel(s) /\ Doing(s) /\ Leasing(s) /\ Transaction(s)

(* What dc.status says of the server is true as long as the connection is  *)
(* up, but for a transaction that a failed statement opened with           *)
(* autocommit off.                                                         *)
Tidy(r) ==
    /\ r.net # "none"
    /\ r.net = "up" => /\ r.srv.ac <=> r.st.ac
                       /\ r.srv.ac => (r.srv.tx <=> r.st.tx)
                       /\ ~r.srv.tx => r.srv.work = {}
    /\ r.net = "broken" => r.srv = Clean

Connected(c) ==
    /\ conn[c].live => Tidy(conn[c])
    /\ pooled[c] \in {0, 1}
    /\ pooled[c] = 1 => conn[c].live /\ ~conn[c].closed /\ conn[c].srv = Clean

Leases ==
    \A s, t \in Sessions, sl, tl \in Slices, c \in Conns :
        /\ Holds(s, sl, c) => pooled[c] = 0 /\ conn[c].live
        /\ Holds(s, sl, c) /\ Holds(t, tl, c) => s = t

Pool ==
    /\ \A c \in Conns : Connected(c)
    /\ Leases

IInv == TypeOK /\ (\A s \in Sessions : Shape(s)) /\ Pool

-----------------------------------------------------------------------------
(* One connection: what a statement and Recycle make of it.                *)

Sql == {"begin", "commit", "rollback", "ac0", "ac1", "write", "read"}
SrvType == [ac : BOOLEAN, tx : BOOLEAN, work : SUBSET Sessions]
Sound(r) == r \in ConnType /\ r.live /\ Tidy(r)

\* The parts of a record of ConnType.
LEMMA ConnParts ==
    ASSUME NEW r \in ConnType
    PROVE  /\ r.live \in BOOLEAN /\ r.net \in {"up", "broken", "none"} /\ r.closed \in BOOLEAN
           /\ r.st \in [ac : BOOLEAN, tx : BOOLEAN] /\ r.st.ac \in BOOLEAN /\ r.st.tx \in BOOLEAN
           /\ r.srv \in SrvType /\ r.srv.ac \in BOOLEAN /\ r.srv.tx \in BOOLEAN
           /\ r.srv.work \subseteq Sessions
BY DEF ConnType, SrvType

\* A new connection, also one that closed is set on (writePacket).
LEMMA FreshSound ==
    Sound(Fresh) /\ Sound([Fresh EXCEPT !.closed = TRUE]) /\ Fresh.srv = Clean /\ ~Fresh.closed
BY Zenon DEF Sound, ConnType, Tidy, Fresh, Clean

\* A connection that does not exist.
LEMMA DeadFacts == Dead \in ConnType /\ ~Dead.live
BY Zenon DEF Dead, Fresh, Clean, ConnType

\* A connection that is lost (Lost) has no transaction on the server.
LEMMA LostSound ==
    ASSUME NEW r, Sound(r)
    PROVE  Sound(Lost(r)) /\ Lost(r).closed = r.closed /\ Lost(r).srv = Clean
           /\ Lost(r).net = "broken" /\ Lost(r).st = r.st
BY Zenon DEF Sound, ConnType, Tidy, Lost, Clean

\* What the server makes of a statement, a state of the same kind (Server).
LEMMA ServerFacts ==
    ASSUME NEW v \in SrvType, ~v.tx => v.work = {}, NEW q \in Sql,
           NEW s, q = "write" => s \in Sessions, NEW w \in Server(v, q, s)
    PROVE  /\ w \in SrvType /\ (~w.tx => w.work = {})
           /\ q = "rollback" => ~w.tx /\ (w.ac <=> v.ac)
           /\ q = "ac1" /\ ~v.ac => w = Clean
<1>1. CASE q = "begin"  BY <1>1, Zenon DEF Server, SrvType
<1>2. CASE q \in {"commit", "rollback"}  BY <1>2, Zenon DEF Server, SrvType
<1>3. CASE q = "ac0"  BY <1>3, Zenon DEF Server, SrvType
<1>4. CASE q = "ac1"
  <2>1. w = IF v.ac THEN v ELSE Clean  BY <1>4 DEF Server
  <2>2. Clean \in SrvType /\ Clean.work = {}  BY DEF Clean, SrvType
  <2>3. w \in SrvType /\ (~w.tx => w.work = {})  BY <2>1, <2>2
  <2> QED  BY <1>4, <2>1, <2>3
<1>5. CASE q = "write"
  <2>1. w = IF v.tx \/ ~v.ac THEN [v EXCEPT !.tx = TRUE, !.work = @ \cup {s}] ELSE v
    BY <1>5 DEF Server
  <2>2. CASE v.tx \/ ~v.ac
    <3>1. w = [v EXCEPT !.tx = TRUE, !.work = @ \cup {s}]  BY <2>1, <2>2
    <3>2. v.work \cup {s} \in SUBSET Sessions  BY <1>5 DEF SrvType
    <3> QED  BY <1>5, <3>1, <3>2, Zenon DEF SrvType
  <2>3. CASE ~(v.tx \/ ~v.ac)
    <3>1. w = v  BY <2>1, <2>3
    <3> QED  BY <1>5, <3>1
  <2> QED  BY <2>2, <2>3
<1>6. CASE q = "read"  BY <1>6, Zenon DEF Server, SrvType
<1> QED  BY <1>1, <1>2, <1>3, <1>4, <1>5, <1>6 DEF Sql

\* Whose writes a statement makes durable (Durable).
LEMMA DurableFacts ==
    ASSUME NEW v \in SrvType, NEW q \in Sql, NEW s, q = "write" => s \in Sessions
    PROVE  Durable(v, q, s) \subseteq Sessions
BY DEF Durable, SrvType, Sql

\* An error packet leaves the connection up (HandleErrorPacket).
LEMMA ErrorSound ==
    ASSUME NEW r, Sound(r), r.net = "up", NEW f \in HandleErrorPacket(r)
    PROVE  /\ Sound(f) /\ f.net = "up" /\ f.closed = r.closed /\ f.st = r.st
           /\ f.srv.work = r.srv.work /\ f.srv.ac = r.srv.ac /\ (r.srv.tx => f.srv.tx)
           /\ r.srv.ac => f = r
<1>1. CASE f = r  BY <1>1
<1>2. CASE ~r.srv.ac /\ f = [r EXCEPT !.srv.tx = TRUE]
  <2>1. r \in ConnType /\ r.live /\ Tidy(r)  BY DEF Sound
  <2>2. f \in ConnType  BY <1>2, <2>1, Zenon DEF ConnType
  <2>3. /\ f.net = "up" /\ f.closed = r.closed /\ f.st = r.st /\ f.live = r.live
        /\ f.srv.work = r.srv.work /\ f.srv.ac = r.srv.ac /\ f.srv.tx
    BY <1>2, <2>1, Zenon DEF ConnType
  <2>4. Tidy(f)  BY <1>2, <2>1, <2>3 DEF Tidy
  <2> QED  BY <1>2, <2>1, <2>2, <2>3, <2>4 DEF Sound
<1>3. f = r \/ (~r.srv.ac /\ f = [r EXCEPT !.srv.tx = TRUE])
  <2>1. CASE r.srv.ac  BY <2>1 DEF HandleErrorPacket
  <2>2. CASE ~r.srv.ac  BY <2>2 DEF HandleErrorPacket
  <2> QED  BY <2>1, <2>2
<1> QED  BY <1>1, <1>2, <1>3

\* An answer that is lost, or the error of a statement on a broken connection.
Unanswered(r, q, s, o) ==
    \/ /\ r.net = "up" /\ "break" \in Allowed
       /\ \E d \in {{}, Durable(r.srv, q, s)} : o = [conn |-> Lost(r), res |-> "err", durable |-> d]
    \/ /\ r.net = "broken"
       /\ \E f \in {r, [Fresh EXCEPT !.closed = TRUE]} :
            \/ q \in {"ac0", "ac1"} /\ o = [conn |-> Lost(f), res |-> "err", durable |-> {}]
            \/ q \notin {"ac0", "ac1"} /\ o = [conn |-> f, res |-> "err", durable |-> {}]

Answered(r, q, s, o) ==
    /\ r.net = "up"
    /\ \E v \in Server(r.srv, q, s) :
         o = [conn |-> HandleOKPacket(r, v), res |-> "ok", durable |-> Durable(r.srv, q, s)]

Refused(r, q, o) ==
    /\ r.net = "up"
    /\ \E f \in HandleErrorPacket(r) :
         \/ q \in {"ac0", "ac1"} /\ o = [conn |-> Lost(f), res |-> "err", durable |-> {}]
         \/ q \notin {"ac0", "ac1"} /\ o = [conn |-> f, res |-> "err", durable |-> {}]

\* The kinds of outcome of a statement (Exec).
LEMMA ExecCases ==
    ASSUME Calm, NEW r, Sound(r), NEW q \in Sql, NEW s, NEW o \in Exec(r, q, s)
    PROVE  Answered(r, q, s, o) \/ Refused(r, q, o) \/ Unanswered(r, q, s, o)
<1> DEFINE Failed(f) == IF q \in {"ac0", "ac1"} THEN SetAutoCommitFailure(f)
                        ELSE [conn |-> f, res |-> "err", durable |-> {}]
<1>1. ASSUME NEW f, f.net # "none"
      PROVE  \/ q \in {"ac0", "ac1"} /\ Failed(f) = [conn |-> Lost(f), res |-> "err", durable |-> {}]
             \/ q \notin {"ac0", "ac1"} /\ Failed(f) = [conn |-> f, res |-> "err", durable |-> {}]
  BY <1>1, Zenon DEF SetAutoCommitFailure
<1>2. r.net \in {"up", "broken"}  BY ConnParts DEF Sound, Tidy
<1>3. CASE r.net = "up"
  <2>1. \/ \E v \in Server(r.srv, q, s) :
             o = [conn |-> HandleOKPacket(r, v), res |-> "ok", durable |-> Durable(r.srv, q, s)]
        \/ \E f \in HandleErrorPacket(r) : o = Failed(f)
        \/ "break" \in Allowed /\ \E d \in {{}, Durable(r.srv, q, s)} :
             o = [conn |-> Lost(r), res |-> "err", durable |-> d]
    BY <1>3 DEF Exec
  <2>2. CASE \E f \in HandleErrorPacket(r) : o = Failed(f)
    <3>1. PICK f \in HandleErrorPacket(r) : o = Failed(f)  BY <2>2, Zenon
    <3>2. f.net # "none"  BY <1>3, ErrorSound
    <3> QED  BY <1>1, <1>3, <3>1, <3>2, Zenon DEF Refused
  <2> QED  BY <1>3, <2>1, <2>2, Zenon DEF Answered, Unanswered
<1>4. CASE r.net = "broken"
  <2>1. \E f \in {r, [Fresh EXCEPT !.closed = TRUE]} : o = Failed(f)
    BY <1>4 DEF Exec, WritePacketOutcomes, Calm
  <2>2. PICK f \in {r, [Fresh EXCEPT !.closed = TRUE]} : o = Failed(f)  BY <2>1, Zenon
  <2>3. f.net # "none"  BY <1>4, <2>2, FreshSound, Zenon DEF Sound, Tidy
  <2> QED  BY <1>1, <1>4, <2>2, <2>3, Zenon DEF Unanswered
<1> QED  BY <1>2, <1>3, <1>4

\* An OK packet brings dc.status up to date (HandleOKPacket).
LEMMA OKSound ==
    ASSUME NEW r, Sound(r), r.net = "up", NEW v \in SrvType, ~v.tx => v.work = {}
    PROVE  /\ Sound(HandleOKPacket(r, v)) /\ HandleOKPacket(r, v).net = "up"
           /\ HandleOKPacket(r, v).closed = r.closed /\ HandleOKPacket(r, v).srv = v
           /\ (HandleOKPacket(r, v).st.ac <=> v.ac) /\ (HandleOKPacket(r, v).st.tx <=> v.tx)
<1> DEFINE h == HandleOKPacket(r, v)
<1>1. r \in ConnType /\ r.live  BY DEF Sound
<1>2. v.ac \in BOOLEAN /\ v.tx \in BOOLEAN  BY DEF SrvType
<1>3. /\ h.srv = v /\ h.st = [ac |-> v.ac, tx |-> v.tx] /\ h.net = r.net
      /\ h.live = r.live /\ h.closed = r.closed
  BY <1>1, Zenon DEF HandleOKPacket, ConnType
<1>4. h \in ConnType  BY <1>1, <1>2, Zenon DEF HandleOKPacket, ConnType, SrvType
<1>5. (h.st.ac <=> v.ac) /\ (h.st.tx <=> v.tx)  BY <1>2, <1>3
<1> HIDE DEF h
<1>6. Tidy(h)  BY <1>3, <1>5 DEF Tidy
<1> QED  BY <1>1, <1>3, <1>4, <1>5, <1>6 DEF Sound, h

\* A statement leaves the connection sound, and does not panic; an answered
\* ROLLBACK or SET autocommit = 1 cleans the server's session (Exec).
LEMMA ExecFacts ==
    ASSUME Calm, NEW r, Sound(r), NEW q \in Sql, NEW s, q = "write" => s \in Sessions,
           NEW o \in Exec(r, q, s)
    PROVE  /\ Sound(o.conn) /\ o.res \in {"ok", "err"} /\ o.durable \subseteq Sessions
           /\ o.res = "ok" => o.conn.closed = r.closed /\ o.conn.net = "up" /\ r.net = "up"
           /\ o.res = "ok" /\ q = "rollback" =>
                ~o.conn.st.tx /\ ~o.conn.srv.tx /\ (o.conn.srv.ac <=> r.srv.ac)
           /\ o.res = "ok" /\ q = "ac1" /\ ~r.srv.ac => o.conn.srv = Clean
<1>0. /\ r \in ConnType /\ r.srv \in SrvType /\ (r.net = "up" /\ ~r.srv.tx => r.srv.work = {})
  BY ConnParts DEF Sound, Tidy
<1>1. Durable(r.srv, q, s) \subseteq Sessions  BY <1>0, DurableFacts
<1>2. CASE Answered(r, q, s, o)
  <2>1. PICK v \in Server(r.srv, q, s) :
           o = [conn |-> HandleOKPacket(r, v), res |-> "ok", durable |-> Durable(r.srv, q, s)]
    BY <1>2 DEF Answered
  <2>2. r.net = "up"  BY <1>2 DEF Answered
  <2>3. /\ v \in SrvType /\ (~v.tx => v.work = {})
        /\ q = "rollback" => ~v.tx /\ (v.ac <=> r.srv.ac)
        /\ q = "ac1" /\ ~r.srv.ac => v = Clean
    BY <1>0, <2>2, ServerFacts
  <2>4. /\ Sound(HandleOKPacket(r, v)) /\ HandleOKPacket(r, v).net = "up"
        /\ HandleOKPacket(r, v).closed = r.closed /\ HandleOKPacket(r, v).srv = v
        /\ (HandleOKPacket(r, v).st.ac <=> v.ac) /\ (HandleOKPacket(r, v).st.tx <=> v.tx)
    BY <2>2, <2>3, OKSound
  <2>5. o.conn = HandleOKPacket(r, v) /\ o.res = "ok" /\ o.durable = Durable(r.srv, q, s)  BY <2>1
  <2> QED  BY <1>1, <2>2, <2>3, <2>4, <2>5
<1>3. CASE Refused(r, q, o)
  <2>1. PICK f \in HandleErrorPacket(r) :
           o \in {[conn |-> Lost(f), res |-> "err", durable |-> {}], [conn |-> f, res |-> "err", durable |-> {}]}
    BY <1>3, Zenon DEF Refused
  <2>2. Sound(f) /\ Sound(Lost(f))  BY <1>3, ErrorSound, LostSound DEF Refused
  <2>3. o.conn \in {f, Lost(f)} /\ o.res = "err" /\ o.durable = {}  BY <2>1
  <2> QED  BY <2>2, <2>3
<1>4. CASE Unanswered(r, q, s, o)
  <2>1. PICK f \in {r, [Fresh EXCEPT !.closed = TRUE]}, d \in {{}, Durable(r.srv, q, s)} :
           o \in {[conn |-> Lost(f), res |-> "err", durable |-> d], [conn |-> f, res |-> "err", durable |-> d]}
    BY <1>4, Zenon DEF Unanswered
  <2>2. Sound(f) /\ Sound(Lost(f))  BY <2>1, FreshSound, LostSound, Zenon
  <2>3. o.conn \in {f, Lost(f)} /\ o.res = "err" /\ o.durable = d  BY <2>1
  <2> QED  BY <1>1, <2>1, <2>2, <2>3
<1> QED  BY <1>2, <1>3, <1>4, ExecCases

\* When dc.status shows neither a transaction nor autocommit off, there is none.
LEMMA TidyClean ==
    ASSUME NEW r, Sound(r), r.st.ac, ~r.st.tx
    PROVE  r.srv = Clean
<1>1. /\ r.net \in {"up", "broken"} /\ r.srv \in SrvType /\ Tidy(r)
  BY ConnParts DEF Sound, Tidy
<1>2. CASE r.net = "up"
  <2>1. r.srv.ac /\ ~r.srv.tx /\ r.srv.work = {}  BY <1>1, <1>2 DEF Tidy
  <2>2. r.srv = [ac |-> r.srv.ac, tx |-> r.srv.tx, work |-> r.srv.work]  BY <1>1 DEF SrvType
  <2>3. r.srv.ac = TRUE /\ r.srv.tx = FALSE  BY <1>1, <2>1 DEF SrvType
  <2> QED  BY <2>1, <2>2, <2>3, Zenon DEF Clean
<1>3. CASE r.net = "broken"  BY <1>1, <1>3 DEF Tidy
<1> QED  BY <1>1, <1>2, <1>3

\* ResetConnection cleans the server's session or fails.
LEMMA ResetFacts ==
    ASSUME Calm, NEW r, Sound(r), ~r.closed, NEW o \in ResetConnection(r)
    PROVE  /\ o.res \in {"ok", "err"} /\ o.durable \subseteq Sessions
           /\ o.res = "ok" => Sound(o.conn) /\ ~o.conn.closed /\ o.conn.srv = Clean
<1> DEFINE rolledBack == IF r.st.tx THEN Exec(r, "rollback", NoConn)
                         ELSE {[conn |-> r, res |-> "ok", durable |-> {}]}
<1>1. PICK x \in rolledBack :
        o \in IF x.res # "ok" \/ x.conn.st.ac THEN {x} ELSE Exec(x.conn, "ac1", NoConn)
  BY Zenon DEF ResetConnection
<1>2. /\ x.res \in {"ok", "err"} /\ x.durable \subseteq Sessions /\ Sound(x.conn)
      /\ x.res = "ok" => ~x.conn.closed /\ ~x.conn.st.tx
  <2>1. CASE r.st.tx
    <3>1. x \in Exec(r, "rollback", NoConn)  BY <1>1, <2>1
    <3> QED  BY <3>1, ExecFacts DEF Sql
  <2>2. CASE ~r.st.tx
    <3>1. x.conn = r /\ x.res = "ok" /\ x.durable = {}  BY <1>1, <2>2
    <3> QED  BY <2>2, <3>1
  <2> QED  BY <2>1, <2>2
<1> HIDE DEF rolledBack
<1>3. CASE x.res # "ok" \/ x.conn.st.ac
  <2>1. o = x  BY <1>1, <1>3
  <2> QED  BY <1>2, <1>3, <2>1, TidyClean
<1>4. CASE x.res = "ok" /\ ~x.conn.st.ac
  <2>1. o \in Exec(x.conn, "ac1", NoConn)  BY <1>1, <1>4
  <2>2. x.conn.net = "up" => ~x.conn.srv.ac  BY <1>2, <1>4 DEF Sound, Tidy
  <2>3. /\ Sound(o.conn) /\ o.res \in {"ok", "err"} /\ o.durable \subseteq Sessions
        /\ o.res = "ok" => o.conn.closed = x.conn.closed /\ x.conn.net = "up"
        /\ o.res = "ok" /\ ~x.conn.srv.ac => o.conn.srv = Clean
    BY <1>2, <2>1, ExecFacts DEF Sql
  <2> QED  BY <1>2, <1>4, <2>2, <2>3
<1> QED  BY <1>2, <1>3, <1>4

\* A connection that is recycled goes back to the pool clean, or is dropped
\* (Recycle, ConnectionPool.Put).
LEMMA RecycleFacts ==
    ASSUME Calm, NEW r, Sound(r), NEW k \in Recycle(r)
    PROVE  /\ k.to \in {"pool", "blank"} /\ k.durable \subseteq Sessions /\ k.conn \in ConnType
           /\ k.to = "pool" => Sound(k.conn) /\ ~k.conn.closed /\ k.conn.srv = Clean
           /\ k.to = "blank" => ~k.conn.live
<1>1. Dead \in ConnType /\ ~Dead.live  BY Zenon DEF Dead, Fresh, Clean, ConnType
<1>2. CASE r.closed
  <2>1. PICK n \in {"up", "none"} : k = [conn |-> [Dead EXCEPT !.net = n], to |-> "blank", durable |-> {}]
    BY <1>2 DEF Recycle
  <2>2. [Dead EXCEPT !.net = n] \in ConnType /\ ~[Dead EXCEPT !.net = n].live
    BY Zenon DEF Dead, Fresh, Clean, ConnType
  <2> QED  BY <2>1, <2>2, Zenon
<1>3. CASE ~r.closed
  <2>1. PICK o \in ResetConnection(r) :
          k = CASE o.res = "ok"    -> [conn |-> o.conn, to |-> "pool", durable |-> o.durable]
                [] o.res = "err"   -> [conn |-> Dead, to |-> "blank", durable |-> o.durable]
                [] o.res = "panic" -> [conn |-> o.conn, to |-> "lost", durable |-> o.durable]
    BY <1>3, Zenon DEF Recycle
  <2>2. /\ o.res \in {"ok", "err"} /\ o.durable \subseteq Sessions
        /\ o.res = "ok" => Sound(o.conn) /\ ~o.conn.closed /\ o.conn.srv = Clean
    BY <1>3, ResetFacts
  <2>3. CASE o.res = "ok"
    <3>1. k = [conn |-> o.conn, to |-> "pool", durable |-> o.durable]  BY <2>1, <2>3
    <3> QED  BY <2>2, <2>3, <3>1 DEF Sound
  <2>4. CASE o.res = "err"
    <3>1. k = [conn |-> Dead, to |-> "blank", durable |-> o.durable]  BY <2>1, <2>4
    <3> QED  BY <1>1, <2>2, <3>1
  <2> QED  BY <2>2, <2>3, <2>4
<1> QED  BY <1>2, <1>3

-----------------------------------------------------------------------------
(* One session and what it holds.                                          *)

Held(c) == \E s \in Sessions, sl \in Slices : Holds(s, sl, c)

Bits == [inTrans : BOOLEAN, autocommit : BOOLEAN]
Row == [Slices -> Conns \cup {NoConn}]
Fits(x) == x \in Row /\ \A sl \in Slices, c \in Conns : x[sl] = c => c[1] = sl

\* What a session has is of its type.
LEMMA Own ==
    ASSUME TypeOK, NEW s \in Sessions
    PROVE  /\ status[s] \in Bits /\ Fits(txConns[s]) /\ Fits(pcs[s]) /\ lock[s] \in Procs \cup {"free"}
           /\ closed[s] \in BOOLEAN /\ reply[s] \in {"ok", "err"}
           /\ status = [status EXCEPT ![s] = status[s]] /\ txConns = [txConns EXCEPT ![s] = txConns[s]]
           /\ pcs = [pcs EXCEPT ![s] = pcs[s]] /\ lock = [lock EXCEPT ![s] = lock[s]]
           /\ closed = [closed EXCEPT ![s] = closed[s]] /\ reply = [reply EXCEPT ![s] = reply[s]]
<1>1. status[s] \in Bits /\ status = [status EXCEPT ![s] = status[s]]  BY DEF TypeOK, Bits
<1>2. Fits(txConns[s]) /\ txConns = [txConns EXCEPT ![s] = txConns[s]]  BY DEF TypeOK, Fits, Row
<1>3. Fits(pcs[s]) /\ pcs = [pcs EXCEPT ![s] = pcs[s]]  BY DEF TypeOK, Fits, Row
<1>4. lock[s] \in Procs \cup {"free"} /\ lock = [lock EXCEPT ![s] = lock[s]]  BY DEF TypeOK
<1>5. closed[s] \in BOOLEAN /\ closed = [closed EXCEPT ![s] = closed[s]]  BY DEF TypeOK
<1>6. reply[s] \in {"ok", "err"} /\ reply = [reply EXCEPT ![s] = reply[s]]  BY DEF TypeOK
<1> QED  BY <1>1, <1>2, <1>3, <1>4, <1>5, <1>6

\* What a goroutine has, and that writing it back changes nothing.
LEMMA OwnGoroutine ==
    ASSUME TypeOK, NEW s \in Sessions, NEW p \in Procs
    PROVE  /\ at[s][p] \in Places /\ todo[s][p] \in SUBSET Slices /\ op[s][p] \in Commands
           /\ at = [at EXCEPT ![s][p] = at[s][p]] /\ todo = [todo EXCEPT ![s][p] = todo[s][p]]
           /\ op = [op EXCEPT ![s][p] = op[s][p]]
<1>1. at[s][p] \in Places /\ at = [at EXCEPT ![s][p] = at[s][p]]  BY DEF TypeOK
<1>2. todo[s][p] \in SUBSET Slices /\ todo = [todo EXCEPT ![s][p] = todo[s][p]]  BY DEF TypeOK
<1>3. op[s][p] \in Commands /\ op = [op EXCEPT ![s][p] = op[s][p]]  BY DEF TypeOK
<1> QED  BY <1>1, <1>2, <1>3

(* A session that a step leaves alone.                                     *)
Apart(t) ==
    /\ status'[t] = status[t] /\ txConns'[t] = txConns[t] /\ pcs'[t] = pcs[t] /\ lock'[t] = lock[t]
    /\ at'[t] = at[t] /\ todo'[t] = todo[t] /\ op'[t] = op[t]

\* What a session holds, by the places of its goroutines.
Letting(s, sl) == \E p \in Procs : at[s][p] = "finish" /\ sl \notin todo[s][p]

\* A connection of a transaction is released by the goroutine that has
\* txLock, so it is the same to ask any goroutine.
LEMMA ReleasedIs ==
    ASSUME NEW s, NEW sl
    PROVE  /\ Doing(s) /\ lock[s] \in Procs \cup {"free"} => (Released(s, sl) <=> Letting(s, sl))
           /\ Doing(s)' /\ lock'[s] \in Procs \cup {"free"} => (Released(s, sl)' <=> Letting(s, sl)')
<1>1. "free" \notin Procs  BY DEF Procs
<1> QED  BY <1>1, Zenon DEF Doing, Released, Letting

\* Inside a statement no transaction is being begun or ended.
LEMMA BusyFacts ==
    ASSUME NEW s \in Sessions, Shape(s), at[s]["cmd"] \in Busy
    PROVE  /\ at[s]["wheel"] = "idle" /\ (\A p \in Procs : at[s][p] \notin {"begin", "finish"})
           /\ ~IsInTransaction(s) => txConns[s] = NoConns
           /\ \A p \in Procs : lock[s] # p
<1>1. at[s]["wheel"] = "idle" /\ \A p \in Procs : at[s][p] \notin {"begin", "finish"}
  BY DEF Shape, Wheel, Busy, Closing, Procs
<1> QED  BY <1>1, Zenon DEF Shape, Transaction, Doing

\* A goroutine about to end a transaction, or doing so, is outside a statement.
LEMMA EndingFacts ==
    ASSUME NEW s \in Sessions, Shape(s), NEW p \in Procs, at[s][p] \in {"lock", "finish"}
    PROVE  at[s]["cmd"] \notin Busy /\ pcs[s] = NoConns
<1>1. at[s]["cmd"] \notin Busy
  <2>1. CASE p = "cmd"  BY <2>1 DEF Busy
  <2>2. CASE p = "wheel"  BY <2>2 DEF Shape, Wheel, Busy, Closing
  <2> QED  BY <2>1, <2>2 DEF Procs
<1> QED  BY <1>1 DEF Shape, Leasing

\* A connection that a session holds is sound.
LEMMA HeldSound ==
    ASSUME IInv, NEW s \in Sessions, NEW sl \in Slices, NEW c \in Conns, Holds(s, sl, c)
    PROVE  Sound(conn[c]) /\ c[1] \in Slices
<1>1. conn[c].live  BY Zenon DEF IInv, Pool, Leases
<1>2. conn[c] \in ConnType /\ c[1] \in Slices  BY DEF IInv, TypeOK, Conns
<1>3. Connected(c)  BY Zenon DEF IInv, Pool
<1> QED  BY <1>1, <1>2, <1>3, Zenon DEF Connected, Sound

\* A connection of a transaction.
LEMMA InTxConn ==
    ASSUME TypeOK, NEW s \in Sessions, NEW T, T \subseteq InTx(s), NEW sl \in T, NEW c, c = txConns[s][sl]
    PROVE  sl \in Slices /\ c \in Conns /\ c[1] = sl /\ \A tl \in Slices : txConns[s][tl] = c => tl = sl
<1>1. sl \in Slices /\ c # NoConn  BY DEF InTx
<1>2. Fits(txConns[s])  BY Own
<1>3. c \in Conns \cup {NoConn}  BY <1>1, <1>2 DEF Fits, Row
<1>4. c \in Conns  BY <1>1, <1>3
<1>5. \A tl \in Slices : txConns[s][tl] = c => c[1] = tl  BY <1>2, <1>4 DEF Fits
<1> QED  BY <1>1, <1>4, <1>5

\* Nobody holds a connection that the pool can hand out.
LEMMA AvailableFree ==
    ASSUME IInv, NEW c \in Conns, Available(c)
    PROVE  /\ ~Held(c) /\ pooled[c] \in {0, 1} /\ c[1] \in Slices /\ blank[c[1]] \in Nat
           /\ pooled[c] = 0 => blank[c[1]] > 0
           /\ Sound(Taken(c)) /\ Taken(c).srv = Clean /\ ~Taken(c).closed
<1>1. /\ TypeOK /\ c[1] \in Slices /\ Connected(c) /\ blank[c[1]] \in Nat /\ conn[c] \in ConnType
  BY DEF IInv, Pool, TypeOK, Conns
<1>2. pooled[c] \in {0, 1} /\ (pooled[c] = 0 => blank[c[1]] > 0 /\ ~conn[c].live)
  BY <1>1, SMTT(30) DEF Connected, Available
<1>3. ~Held(c)
  <2>1. \A s \in Sessions, sl \in Slices : Holds(s, sl, c) => pooled[c] = 0 /\ conn[c].live
    BY Zenon DEF IInv, Pool, Leases
  <2> QED  BY <1>2, <2>1, Zenon DEF Held
<1>4. Sound(Taken(c)) /\ Taken(c).srv = Clean /\ ~Taken(c).closed
  <2>1. CASE pooled[c] > 0
    <3>1. Taken(c) = conn[c] /\ pooled[c] = 1  BY <1>2, <2>1 DEF Taken
    <3> QED  BY <1>1, <3>1, Zenon DEF Connected, Sound
  <2>2. CASE ~(pooled[c] > 0)
    <3>1. Taken(c) = Fresh  BY <2>2 DEF Taken
    <3> QED  BY <3>1, FreshSound
  <2> QED  BY <2>1, <2>2
<1> QED  BY <1>1, <1>2, <1>3, <1>4, Zenon

-----------------------------------------------------------------------------
(* Sessions end, and the proxy does not.                                   *)

(* Close sets the flag before it rolls back, and a session whose flag is   *)
(* set either has a goroutine that still rolls back or no transaction, and *)
(* takes no further command.                                               *)
ClosingTx(s, p) == at[s][p] \in {"lock", "finish"} /\ op[s][p] = "close"

Over(s) ==
    /\ \A p \in Procs : at[s][p] = "done" \/ ClosingTx(s, p) => closed[s]
    /\ closed[s] => txConns[s] = NoConns \/ \E p \in Procs : ClosingTx(s, p)
    /\ closed[s] /\ at[s]["wheel"] = "idle" => at[s]["cmd"] = "done" \/ ClosingTx(s, "cmd")

Ends == ~crashed /\ \A s \in Sessions : Over(s)

\* No Recycle meets a connection whose dc.conn is nil.
LEMMA FinishStays ==
    ASSUME Calm, IInv, NEW s \in Sessions, NEW p \in Procs, FinishConn(s, p)
    PROVE  UNCHANGED <<crashed, at>>
<1>0. TypeOK /\ Shape(s)  BY DEF IInv
<1>1. PICK sl, o :
        /\ sl \in todo[s][p] /\ o \in Exec(conn[txConns[s][sl]], Statement(op[s][p]), s)
        /\ \E k \in IF o.res = "panic" THEN {[conn |-> o.conn, to |-> "lost", durable |-> {}]}
                    ELSE Recycle(o.conn) : k.to # "lost" => crashed' = crashed /\ at' = at
  BY SMTT(30) DEF FinishConn
<1>2. PICK c : c = txConns[s][sl]  OBVIOUS
<1>3. at[s][p] = "finish" /\ todo[s][p] \subseteq InTx(s)  BY <1>0 DEF FinishConn, At, Shape, Transaction
<1>4. sl \in Slices /\ c \in Conns  BY <1>0, <1>1, <1>2, <1>3, InTxConn
<1>5. Holds(s, sl, c)
  <2>1. \A q \in Procs : q # p => at[s][q] # "finish"  BY <1>0, <1>3 DEF Shape, Doing
  <2>2. ~Letting(s, sl)  BY <1>1, <2>1 DEF Letting
  <2>3. ~Released(s, sl)  BY <1>0, <2>2, Own, ReleasedIs DEF Shape
  <2> QED  BY <1>2, <2>3, Zenon DEF Holds
<1>6. Statement(op[s][p]) \in Sql
  <2>1. op[s][p] \in Enders
    <3>1. CASE p = "cmd"  BY <1>0, <1>3, <3>1 DEF Shape, Doing
    <3>2. CASE p = "wheel"  BY <1>0, <1>3, <3>2 DEF Shape, Wheel, Closing, Enders
    <3> QED  BY <3>1, <3>2 DEF Procs
  <2> QED  BY <2>1 DEF Statement, Enders, Sql
<1>7. Statement(op[s][p]) # "write"  BY <1>0, <1>3 DEF Shape, Wheel, Doing, Closing, Enders, Statement, Procs
<1>8. Sound(o.conn) /\ o.res \in {"ok", "err"}
  <2>1. Sound(conn[c])  BY <1>4, <1>5, HeldSound
  <2>2. o \in Exec(conn[c], Statement(op[s][p]), s)  BY <1>1, <1>2
  <2> QED  BY <1>6, <1>7, <2>1, <2>2, ExecFacts
<1>9. PICK k \in Recycle(o.conn) : k.to # "lost" => crashed' = crashed /\ at' = at  BY <1>1, <1>8
<1>10. k.to # "lost"  BY <1>8, <1>9, RecycleFacts
<1> QED  BY <1>9, <1>10

\* A panic needs a connection whose dc.conn is nil.
LEMMA NoPanic == ASSUME Calm, IInv, ~crashed, Next PROVE ~crashed'
<1>0. TypeOK  BY DEF IInv
<1>1. ASSUME NEW s \in Sessions, Execute(s) PROVE ~crashed'
  <2>0. PICK q : q = IF op[s]["cmd"] = "write" THEN "write" ELSE "read"  OBVIOUS
  <2>1. PICK sl, o : /\ sl \in todo[s]["cmd"]
                     /\ o \in Exec(conn[pcs[s][sl]], IF op[s]["cmd"] = "write" THEN "write" ELSE "read", s)
                     /\ crashed' = (o.res = "panic" /\ op[s]["cmd"] # "show")
    BY <1>1, Zenon DEF Execute
  <2>2. PICK c : c = pcs[s][sl]  OBVIOUS
  <2>3. sl \in Leased(s)  BY <1>1, <2>1 DEF Execute, At, IInv, Shape, Leasing
  <2>4. sl \in Slices /\ c # NoConn  BY <2>2, <2>3 DEF Leased
  <2>5. c \in Conns  BY <1>0, <2>2, <2>4 DEF TypeOK
  <2>6. Holds(s, sl, c)  BY <2>2, Zenon DEF Holds
  <2>7. Sound(conn[c])  BY <2>4, <2>5, <2>6, HeldSound
  <2>8. q \in Sql /\ o \in Exec(conn[c], q, s)  BY <2>0, <2>1, <2>2 DEF Sql
  <2>9. o.res \in {"ok", "err"}  BY <2>7, <2>8, ExecFacts
  <2> QED  BY <2>1, <2>9, Zenon
<1>2. ASSUME NEW s \in Sessions, NEW p \in Procs, FinishConn(s, p) PROVE ~crashed'
  BY <1>2, FinishStays
<1>3. ASSUME NEW s \in Sessions, Statements(s), ~Execute(s) PROVE UNCHANGED crashed
  BY <1>3 DEF Statements, GetBackendConn, GetFromPool, GetFails, GetTransactionConn, RecycleBackendConns, PutConn
<1>4. ASSUME NEW s \in Sessions, NEW p \in Procs, Ending(s, p), ~FinishConn(s, p) PROVE UNCHANGED crashed
  BY <1>4 DEF Ending, Rollback, Acquire, FinishDone, CloseCheck, CloseStore
<1>5. ASSUME NEW s \in Sessions, \/ Query(s) \/ Control(s) \/ Disconnect(s) \/ WheelFires(s) \/ Reply(s)
                                 \/ HandleBegin(s) \/ BeginConn(s) \/ BeginDone(s)
                                 \/ Commit(s) \/ SetAutoCommitOn(s) \/ SetAutoCommitOff(s)
      PROVE  UNCHANGED crashed
  BY <1>5, Zenon DEF Query, Control, Disconnect, WheelFires, Reply, HandleBegin, BeginConn, BeginDone, Commit,
     SetAutoCommitOn, SetAutoCommitOff, Acquire
<1>6. \A c : Break(c) => UNCHANGED crashed  BY DEF Break
<1>7. "cmd" \in Procs /\ "wheel" \in Procs  BY DEF Procs
<1>8. \A s \in Sessions : Statements(s) => ~crashed'  BY <1>1, <1>3, Zenon
<1>9. \A s \in Sessions, p \in Procs : Ending(s, p) => ~crashed'  BY <1>2, <1>4, Zenon
<1> QED  BY <1>5, <1>6, <1>7, <1>8, <1>9, Zenon DEF Next, Serve

\* A step of one goroutine that neither closes the session nor is part of it.
LEMMA OverSame ==
    ASSUME Ends, TypeOK, NEW s \in Sessions, NEW p \in Procs, ~crashed', UNCHANGED closed,
           \A t \in Sessions : t # s => at'[t] = at[t] /\ op'[t] = op[t] /\ txConns'[t] = txConns[t],
           \A q \in Procs : q # p => at'[s][q] = at[s][q] /\ op'[s][q] = op[s][q],
           txConns'[s] = txConns[s] \/ ~closed[s] \/ txConns'[s] = NoConns,
           at'[s][p] = "done" => closed[s],
           ClosingTx(s, p)' <=> ClosingTx(s, p),
           at[s][p] # "done", p = "wheel" => at'[s]["wheel"] # "idle"
    PROVE  Ends'
<1>1. ASSUME NEW t \in Sessions, t # s PROVE Over(t)'
  <2>1. at'[t] = at[t] /\ op'[t] = op[t] /\ txConns'[t] = txConns[t] /\ closed'[t] = closed[t]  BY <1>1
  <2>2. Over(t)  BY DEF Ends
  <2> QED  BY <2>1, <2>2 DEF Over, ClosingTx
<1>2. Over(s)'
  <2>1. Over(s) /\ closed'[s] = closed[s]  BY DEF Ends
  <2>2. \A q \in Procs : ClosingTx(s, q)' <=> ClosingTx(s, q)  BY DEF ClosingTx
  <2>3. \A q \in Procs : at'[s][q] = "done" => closed[s]  BY <2>1 DEF Over
  <2>4. at'[s]["wheel"] = "idle" /\ closed[s] => ClosingTx(s, "cmd") \/ at'[s]["cmd"] = "done"
    <3>1. CASE p = "cmd"  BY <2>1, <3>1 DEF Over, Procs
    <3>2. CASE p = "wheel"  BY <2>1, <3>2 DEF Over, Procs
    <3> QED  BY <3>1, <3>2 DEF Procs
  <2> QED  BY <2>1, <2>2, <2>3, <2>4 DEF Over, Procs
<1> QED  BY <1>1, <1>2 DEF Ends

\* A step of the session's own goroutine that takes no part in closing.
LEMMA OverOutside ==
    ASSUME Ends, TypeOK, NEW s \in Sessions, NEW there, NEW q, ~crashed', UNCHANGED closed,
           Goto(s, "cmd", there), op' = [op EXCEPT ![s]["cmd"] = q],
           at[s]["cmd"] # "done", ~ClosingTx(s, "cmd"),
           there # "done", there \notin {"lock", "finish"} \/ q # "close",
           \A t \in Sessions : t # s => txConns'[t] = txConns[t],
           txConns'[s] = txConns[s] \/ at[s]["wheel"] = "idle" \/ txConns'[s] = NoConns
    PROVE  Ends'
<1>1. "cmd" \in Procs /\ "cmd" # "wheel"  BY DEF Procs
<1>2. txConns'[s] = txConns[s] \/ ~closed[s] \/ txConns'[s] = NoConns  BY DEF Ends, Over
<1>3. at'[s]["cmd"] = there /\ \A x \in Procs : x # "cmd" => at'[s][x] = at[s][x] /\ op'[s][x] = op[s][x]
  BY <1>1 DEF Goto, TypeOK
<1>4. \A t \in Sessions : t # s => at'[t] = at[t] /\ op'[t] = op[t] /\ txConns'[t] = txConns[t]
  BY DEF Goto, TypeOK
<1>5. op'[s]["cmd"] = q  BY <1>1 DEF TypeOK
<1>6. ~ClosingTx(s, "cmd")'  BY <1>3, <1>5 DEF ClosingTx
<1> QED  BY <1>1, <1>2, <1>3, <1>4, <1>6, OverSame

\* A statement goes from one of its places to another, or to its reply.
LEMMA StatementMoves ==
    ASSUME TypeOK, NEW s \in Sessions, Statements(s)
    PROVE  /\ at[s]["cmd"] \in Busy /\ \E there \in Busy \cup {"reply"} : Goto(s, "cmd", there)
           /\ UNCHANGED <<closed, op>> /\ \A t \in Sessions : t # s => txConns'[t] = txConns[t]
<1> DEFINE Gone == \E there \in Busy \cup {"reply"} : Goto(s, "cmd", there)
<1>1. /\ at[s]["cmd"] \in Busy /\ UNCHANGED <<closed, op>>
  BY DEF Statements, GetBackendConn, GetFromPool, GetFails, GetTransactionConn, Execute,
     RecycleBackendConns, PutConn, At, Busy, sessionVars
<1>2. UNCHANGED at => Gone
  <2>1. UNCHANGED at => Goto(s, "cmd", at[s]["cmd"])  BY OwnGoroutine DEF Goto, Procs
  <2> QED  BY <1>1, <2>1
<1>3. \A there \in Busy \cup {"reply"} : Goto(s, "cmd", there) => Gone  OBVIOUS
<1> HIDE DEF Gone
<1>4. \A sl, c : Got(s, sl, c) => Gone  BY <1>3 DEF Got, Busy
<1>5. \A sl : Visit(s, "cmd", sl, "recycle") \/ Visit(s, "cmd", sl, "reply") => Gone  BY <1>2, <1>3 DEF Visit, Busy
<1>6. Refuse(s, "recycle") \/ Refuse(s, "reply") => Gone  BY <1>3 DEF Refuse, Busy
<1>7. CASE GetBackendConn(s)
  <2>1. Goto(s, "cmd", "getTx") \/ Goto(s, "cmd", "getPool")  BY <1>7 DEF GetBackendConn
  <2>2. Gone  BY <1>3, <2>1 DEF Busy
  <2>3. UNCHANGED txConns  BY <1>7 DEF GetBackendConn, sessionVars
  <2> QED  BY <1>1, <2>2, <2>3 DEF Gone
<1>8. CASE GetFromPool(s) \/ GetFails(s) \/ Execute(s)
  <2>1. Gone  BY <1>4, <1>5, <1>6, <1>8, Zenon DEF GetFromPool, GetFails, Execute
  <2>2. UNCHANGED txConns  BY <1>8, Zenon DEF GetFromPool, GetFails, Execute, sessionVars
  <2> QED  BY <1>1, <2>1, <2>2 DEF Gone
<1>9. CASE GetTransactionConn(s)
  <2>1. Gone  BY <1>4, <1>6, <1>9, Zenon DEF GetTransactionConn
  <2>2. UNCHANGED txConns \/ \E sl, c : txConns' = [txConns EXCEPT ![s][sl] = c]
    BY <1>9, Zenon DEF GetTransactionConn
  <2>3. \A t \in Sessions : t # s => txConns'[t] = txConns[t]  BY <2>2 DEF TypeOK
  <2> QED  BY <1>1, <2>1, <2>3 DEF Gone
<1>10. CASE RecycleBackendConns(s)
  <2>1. Goto(s, "cmd", "reply") \/ Goto(s, "cmd", "put")  BY <1>10 DEF RecycleBackendConns
  <2>2. Gone  BY <1>3, <2>1 DEF Busy
  <2>3. UNCHANGED txConns  BY <1>10 DEF RecycleBackendConns, sessionVars
  <2> QED  BY <1>1, <2>2, <2>3 DEF Gone
<1>11. CASE PutConn(s)
  <2>1. \E sl : Refuse(s, "reply") \/ Visit(s, "cmd", sl, "reply")  BY <1>11, Zenon DEF PutConn
  <2>2. Gone  BY <1>5, <1>6, <2>1, Zenon
  <2>3. UNCHANGED txConns  BY <1>11 DEF PutConn, sessionVars
  <2> QED  BY <1>1, <2>2, <2>3 DEF Gone
<1> QED  BY <1>7, <1>8, <1>9, <1>10, <1>11 DEF Statements

\* Every step keeps what is known of sessions that end.
LEMMA EndsStep == ASSUME Calm, IInv, Ends, Next PROVE Ends'
<1>0. TypeOK /\ ~crashed /\ ~crashed' /\ "cmd" \in Procs /\ "wheel" \in Procs
  BY NoPanic DEF IInv, Ends, Procs
<1>o. \A s \in Sessions : op = [op EXCEPT ![s]["cmd"] = op[s]["cmd"]]  BY <1>0, OwnGoroutine
<1>1. ASSUME NEW s \in Sessions, Query(s) \/ Control(s) \/ Disconnect(s) PROVE Ends'
  <2>1. PICK there, q : /\ Goto(s, "cmd", there) /\ op' = [op EXCEPT ![s]["cmd"] = q]
                        /\ there = "get" \/ (there = "lock" /\ q \in Controls) \/ there = "check"
    BY <1>1, Zenon DEF Query, Control, Disconnect
  <2>2. at[s]["cmd"] = "idle" /\ UNCHANGED <<closed, txConns>>
    BY <1>1 DEF Query, Control, Disconnect, Listening, At, sessionVars
  <2>3. there # "done" /\ (there \notin {"lock", "finish"} \/ q # "close")  BY <2>1 DEF Controls
  <2>4. ~ClosingTx(s, "cmd")  BY <2>2 DEF ClosingTx
  <2> QED  BY <1>0, <2>1, <2>2, <2>3, <2>4, OverOutside, Zenon
<1>2. ASSUME NEW s \in Sessions, Statements(s) PROVE Ends'
  <2>1. PICK there \in Busy \cup {"reply"} : Goto(s, "cmd", there)  BY <1>0, <1>2, StatementMoves
  <2>2. /\ at[s]["cmd"] \in Busy /\ UNCHANGED <<closed, op>>
        /\ \A t \in Sessions : t # s => txConns'[t] = txConns[t]
    BY <1>0, <1>2, StatementMoves
  <2>3. at[s]["wheel"] = "idle"  BY <2>2 DEF IInv, Shape, Wheel, Busy, Closing
  <2>4. op' = [op EXCEPT ![s]["cmd"] = op[s]["cmd"]]  BY <1>o, <2>2
  <2>5. there # "done" /\ there \notin {"lock", "finish"} /\ at[s]["cmd"] # "done"  BY <2>1, <2>2 DEF Busy
  <2>6. ~ClosingTx(s, "cmd")  BY <2>2 DEF ClosingTx, Busy
  <2> QED  BY <1>0, <2>1, <2>2, <2>3, <2>4, <2>5, <2>6, OverOutside, Zenon
<1>3. ASSUME NEW s \in Sessions, \/ HandleBegin(s) \/ Commit(s) \/ SetAutoCommitOn(s) \/ SetAutoCommitOff(s)
                                 \/ BeginConn(s) \/ BeginDone(s)
      PROVE  Ends'
  <2>1. op[s]["cmd"] # "close"
    BY <1>3 DEF HandleBegin, Commit, SetAutoCommitOn, SetAutoCommitOff, BeginConn, BeginDone, At, IInv, Shape, Doing
  <2>2. UNCHANGED <<closed, op, txConns>> /\ at[s]["cmd"] # "done"
    BY <1>3 DEF HandleBegin, Commit, SetAutoCommitOn, SetAutoCommitOff, BeginConn, BeginDone, Acquire, At
  <2>3. PICK there : Goto(s, "cmd", there) /\ there # "done"
    <3>1. UNCHANGED at => Goto(s, "cmd", at[s]["cmd"])  BY <1>0, OwnGoroutine DEF Goto
    <3>2. BeginConn(s) => UNCHANGED at \/ Refuse(s, "reply")  BY Zenon DEF BeginConn
    <3>3. Refuse(s, "reply") => Goto(s, "cmd", "reply")  BY DEF Refuse
    <3>4. "reply" # "done" /\ "begin" # "done" /\ "finish" # "done"  OBVIOUS
    <3> QED  BY <1>3, <2>2, <3>1, <3>2, <3>3, <3>4, Zenon DEF HandleBegin, Commit, SetAutoCommitOn, SetAutoCommitOff,
             BeginDone, Acquire
  <2>4. op' = [op EXCEPT ![s]["cmd"] = op[s]["cmd"]]  BY <1>o, <2>2
  <2>5. ~ClosingTx(s, "cmd")  BY <2>1 DEF ClosingTx
  <2> QED  BY <1>0, <2>1, <2>2, <2>3, <2>4, <2>5, OverOutside, Zenon
<1>4. ASSUME NEW s \in Sessions, Reply(s) PROVE Ends'
  <2>1. PICK there, q : /\ Goto(s, "cmd", there) /\ op' = [op EXCEPT ![s]["cmd"] = q]
                        /\ there \in {"idle", "check"}
    BY <1>4, Zenon DEF Reply
  <2>2. at[s]["cmd"] = "reply" /\ UNCHANGED <<closed, txConns>>  BY <1>4 DEF Reply, At, sessionVars
  <2>3. there # "done" /\ there \notin {"lock", "finish"} /\ ~ClosingTx(s, "cmd")  BY <2>1, <2>2 DEF ClosingTx
  <2> QED  BY <1>0, <2>1, <2>2, <2>3, OverOutside, Zenon
<1>5. ASSUME NEW s \in Sessions, WheelFires(s) PROVE Ends'
  <2>1. /\ at[s]["wheel"] = "idle" /\ at' = [at EXCEPT ![s]["wheel"] = "check"]
        /\ UNCHANGED <<op, closed, txConns>>
    BY <1>5 DEF WheelFires, At, Goto, sessionVars
  <2>2. /\ at'[s]["wheel"] = "check" /\ \A x \in Procs : x # "wheel" => at'[s][x] = at[s][x]
        /\ \A t \in Sessions : t # s => at'[t] = at[t]
    BY <1>0, <2>1 DEF TypeOK
  <2>3. ~ClosingTx(s, "wheel") /\ ~ClosingTx(s, "wheel")'  BY <2>1, <2>2 DEF ClosingTx
  <2> QED  BY <1>0, <2>1, <2>2, <2>3, OverSame
<1>6. ASSUME NEW s \in Sessions, NEW p \in Procs, Rollback(s, p) PROVE Ends'
  <2>1. /\ at[s][p] = "lock" /\ at' = [at EXCEPT ![s][p] = "finish"]
        /\ UNCHANGED <<op, closed, txConns>>
    BY <1>6 DEF Rollback, Acquire, At, Goto
  <2>2. /\ at'[s][p] = "finish" /\ \A x \in Procs : x # p => at'[s][x] = at[s][x]
        /\ \A t \in Sessions : t # s => at'[t] = at[t]
    BY <1>0, <2>1 DEF TypeOK
  <2>3. ClosingTx(s, p) <=> ClosingTx(s, p)'  BY <2>1, <2>2 DEF ClosingTx
  <2> QED  BY <1>0, <2>1, <2>2, <2>3, OverSame
<1>7. ASSUME NEW s \in Sessions, NEW p \in Procs, FinishConn(s, p) PROVE Ends'
  <2>1. UNCHANGED <<at, op, txConns, closed>>  BY <1>7, FinishStays, Zenon DEF FinishConn
  <2> QED  BY <1>0, <2>1 DEF Ends, Over, ClosingTx
<1>8. ASSUME NEW s \in Sessions, NEW p \in Procs, FinishDone(s, p) PROVE Ends'
  <2>1. CASE op[s][p] # "close"
    <3>1. at' = [at EXCEPT ![s][p] = "reply"] /\ at[s][p] = "finish"  BY <1>8, <2>1 DEF FinishDone, At, Goto
    <3>2. p = "cmd"  BY <2>1, <3>1 DEF IInv, Shape, Wheel, Closing, Procs
    <3>3. UNCHANGED <<op, closed>> /\ txConns' = [txConns EXCEPT ![s] = NoConns]  BY <1>8 DEF FinishDone
    <3>4. txConns'[s] = NoConns /\ \A t \in Sessions : t # s => txConns'[t] = txConns[t]
      BY <1>0, <3>3 DEF TypeOK
    <3>5. op' = [op EXCEPT ![s]["cmd"] = op[s]["cmd"]] /\ ~ClosingTx(s, "cmd")  BY <1>o, <2>1, <3>2, <3>3 DEF ClosingTx
    <3>6. Goto(s, "cmd", "reply") /\ at[s]["cmd"] # "done"  BY <3>1, <3>2 DEF Goto
    <3> QED  BY <1>0, <3>3, <3>4, <3>5, <3>6, OverOutside, Zenon
  <2>2. CASE op[s][p] = "close"
    <3>1. /\ at' = [at EXCEPT ![s][p] = "done"] /\ at[s][p] = "finish"
          /\ txConns' = [txConns EXCEPT ![s] = NoConns] /\ UNCHANGED <<op, closed>>
      BY <1>8, <2>2 DEF FinishDone, At, Goto
    <3>2. Over(s) /\ closed[s]  BY <2>2, <3>1 DEF Ends, Over, ClosingTx
    <3>3. ASSUME NEW t \in Sessions, t # s PROVE Over(t)'
      <4>1. at'[t] = at[t] /\ op'[t] = op[t] /\ txConns'[t] = txConns[t] /\ closed'[t] = closed[t]
        BY <1>0, <3>1, <3>3 DEF TypeOK
      <4>2. Over(t)  BY DEF Ends
      <4> QED  BY <4>1, <4>2 DEF Over, ClosingTx
    <3>4. Over(s)'
      <4>1. txConns'[s] = NoConns /\ closed'[s] /\ at'[s][p] = "done"  BY <1>0, <3>1, <3>2 DEF TypeOK
      <4>2. \A q \in Procs : q # p => at'[s][q] = at[s][q]  BY <1>0, <3>1 DEF TypeOK
      <4>3. at'[s]["wheel"] = "idle" => at'[s]["cmd"] = "done" \/ ClosingTx(s, "cmd")'
        BY <1>0, <4>1, <4>2 DEF Procs
      <4> QED  BY <4>1, <4>3 DEF Over
    <3> QED  BY <1>0, <3>3, <3>4 DEF Ends
  <2> QED  BY <2>1, <2>2
<1>9. ASSUME NEW s \in Sessions, NEW p \in Procs, CloseCheck(s, p) PROVE Ends'
  <2>1. PICK there : /\ at[s][p] = "check" /\ at' = [at EXCEPT ![s][p] = there]
                     /\ there = (IF closed[s] THEN "done" ELSE "store")
    BY <1>9, Zenon DEF CloseCheck, At, Goto
  <2>2. op' = [op EXCEPT ![s][p] = "close"] /\ UNCHANGED <<closed, txConns>>  BY <1>9 DEF CloseCheck, sessionVars
  <2>3. at'[s][p] = there /\ \A q \in Procs : q # p => at'[s][q] = at[s][q] /\ op'[s][q] = op[s][q]
    BY <1>0, <2>1, <2>2 DEF TypeOK
  <2>4. \A t \in Sessions : t # s => at'[t] = at[t] /\ op'[t] = op[t] /\ txConns'[t] = txConns[t]
    BY <1>0, <2>1, <2>2 DEF TypeOK
  <2>5. ~ClosingTx(s, p) /\ ~ClosingTx(s, p)'  BY <2>1, <2>3 DEF ClosingTx
  <2> QED  BY <1>0, <2>1, <2>2, <2>3, <2>4, <2>5, OverSame
<1>10. ASSUME NEW s \in Sessions, NEW p \in Procs, CloseStore(s, p) PROVE Ends'
  <2>1. /\ at[s][p] = "store" /\ at' = [at EXCEPT ![s][p] = "lock"]
        /\ closed' = [closed EXCEPT ![s] = TRUE] /\ UNCHANGED <<op, txConns>>
    BY <1>10 DEF CloseStore, At, Goto
  <2>2. op[s][p] = "close"  BY <2>1 DEF IInv, Shape, Wheel, Doing, Closing, Procs
  <2>3. ASSUME NEW t \in Sessions, t # s PROVE Over(t)'
    <3>1. at'[t] = at[t] /\ op'[t] = op[t] /\ txConns'[t] = txConns[t] /\ closed'[t] = closed[t]
      BY <1>0, <2>1, <2>3 DEF TypeOK
    <3>2. Over(t)  BY DEF Ends
    <3> QED  BY <3>1, <3>2 DEF Over, ClosingTx
  <2>4. Over(s)'
    <3>1. closed'[s] /\ at'[s][p] = "lock" /\ ClosingTx(s, p)'  BY <1>0, <2>1, <2>2 DEF TypeOK, ClosingTx
    <3>2. at'[s]["wheel"] = "idle" => ClosingTx(s, "cmd")'  BY <3>1 DEF Procs
    <3> QED  BY <3>1, <3>2 DEF Over
  <2> QED  BY <1>0, <2>3, <2>4 DEF Ends
<1>11. ASSUME NEW c, Break(c) PROVE Ends'
  <2>1. UNCHANGED <<at, op, txConns, closed>>  BY <1>11 DEF Break, sessionVars, controlVars
  <2> QED  BY <1>0, <2>1 DEF Ends, Over, ClosingTx
<1>12. \A s \in Sessions, p \in Procs : Ending(s, p) => Ends'
  BY <1>6, <1>7, <1>8, <1>9, <1>10, Zenon DEF Ending
<1>13. \A s \in Sessions : Serve(s) => Ends'
  BY <1>0, <1>1, <1>2, <1>3, <1>4, <1>12, Zenon DEF Serve
<1> QED  BY <1>0, <1>1, <1>5, <1>11, <1>12, <1>13, Zenon DEF Next
=============================================================================
