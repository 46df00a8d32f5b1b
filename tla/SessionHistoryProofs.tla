------------------------ MODULE SessionHistoryProofs ------------------------
(***************************************************************************)
(* What COMMIT and ROLLBACK promise, for any number of sessions, slices    *)
(* and connections: what the steps do to the history variables of          *)
(* SessionExecutor, on top of the invariant of SessionConnectionProofs.    *)
(***************************************************************************)
EXTENDS SessionConnectionProofs

(* Nothing but timeouts disturbs the sessions: no connection is lost, and  *)
(* no client sends SET autocommit = 1 between BEGIN and COMMIT.            *)
Quiet == Allowed \subseteq {"timeout"}

(* A goroutine ends the transaction, but not by SET autocommit = 1.        *)
Ended(s) == \E p \in Procs : at[s][p] = "finish" /\ op[s][p] # "ac1"

(* A connection of a transaction holds only writes of its session, would   *)
(* not make another one durable at once, and dc.status tells of the writes *)
(* it holds.                                                               *)
TxConn(s, r) ==
    /\ r.srv.work \subseteq {s}
    /\ r.srv.tx \/ ~r.srv.ac
    /\ r.srv.work # {} => r.st.tx

(* The connections of the transaction; one with autocommit on was begun by *)
(* BEGIN.                                                                  *)
Ours(s) ==
    \A sl \in Slices, c \in Conns : txConns[s][sl] = c /\ ~Released(s, sl) =>
        /\ TxConn(s, conn[c])
        /\ conn[c].srv.ac => status[s].inTrans \/ Ended(s)

(* The connections of a statement outside a transaction.                   *)
Plain(s) ==
    ~IsInTransaction(s) => \A sl \in Slices, c \in Conns : pcs[s][sl] = c => conn[c].srv = Clean

(* Nothing of an open transaction is durable.                              *)
Nothing(s) ==
    \/ op[s]["cmd"] \in {"none", "ac0", "rollback"}
    \/ op[s]["cmd"] \in Queries /\ IsInTransaction(s)
    => applied[s] = {}

(* The client and the proxy agree on whether there is a transaction.       *)
InStep(s) ==
    at[s]["wheel"] = "idle" =>
        /\ at[s]["cmd"] \in {"idle", "lock", "begin"} /\ op[s]["cmd"] # "close" => reply[s] = "ok"
        /\ \/ op[s]["cmd"] \in Queries \cup {"none", "ac0"}
           \/ op[s]["cmd"] \in Controls /\ at[s]["cmd"] \in {"lock", "begin"}
           \/ op[s]["cmd"] = "begin" /\ reply[s] = "err"
           => (clientTx[s] <=> status[s].inTrans)
        /\ op[s]["cmd"] = "begin" /\ at[s]["cmd"] = "reply" /\ reply[s] = "ok" => status[s].inTrans
        /\ op[s]["cmd"] \in {"commit", "rollback", "ac1"} /\ at[s]["cmd"] \in {"finish", "reply"} =>
             ~status[s].inTrans
        /\ op[s]["cmd"] = "ac1" => ~clientTx[s]
        /\ op[s]["cmd"] = "ac1" /\ at[s]["cmd"] \in {"finish", "reply"} => IsAutoCommit(s)

(* Every acknowledged write is durable, or waits on the server in the      *)
(* transaction that the session still holds.                               *)
Waiting(s, sl) ==
    \E c \in Conns : txConns[s][sl] = c /\ ~Released(s, sl) /\ s \in conn[c].srv.work

Keeping(s) ==
    /\ at[s]["wheel"] = "idle"
    /\ op[s]["cmd"] \notin {"rollback", "quit", "close"}
    /\ op[s]["cmd"] \in {"commit", "ac1"} => reply[s] = "ok"

Kept(s) == Keeping(s) => \A sl \in acked[s] : sl \in applied[s] \/ Waiting(s, sl)

(* COMMIT and SET autocommit = 1 have let go of all connections by the     *)
(* time they are answered.                                                 *)
LetGo(s) == at[s]["cmd"] = "reply" /\ op[s]["cmd"] \in {"commit", "ac1"} => txConns[s] = NoConns

(* BEGIN has committed what its connections held.                          *)
Begun(s) ==
    op[s]["cmd"] = "begin" =>
      \A sl \in Slices, c \in Conns :
        /\ txConns[s][sl] = c /\ ~Released(s, sl)
        /\ \/ at[s]["cmd"] = "begin" /\ sl \notin todo[s]["cmd"]
           \/ at[s]["cmd"] = "reply" /\ reply[s] = "ok"
        => conn[c].srv.work = {}

(* The command a session waits for is none, the one it answers is one the  *)
(* client sent.                                                            *)
Known(s) ==
    /\ at[s]["cmd"] = "idle" => op[s]["cmd"] = "none"
    /\ at[s]["cmd"] = "reply" => op[s]["cmd"] \in Queries \cup Controls

Client(s) == Known(s) /\ Nothing(s) /\ InStep(s) /\ LetGo(s)

History(s) == Ours(s) /\ Plain(s) /\ Kept(s) /\ Begun(s) /\ Client(s)

Up == \A c \in Conns : conn[c].live => conn[c].net = "up"

HInv == IInv /\ Up /\ \A s \in Sessions : History(s)


-----------------------------------------------------------------------------
(* What a step leaves alone.                                               *)

(* What the other sessions have stays as it is.                            *)
Elsewhere(s) ==
    \A t \in Sessions : t # s =>
        Apart(t) /\ reply'[t] = reply[t] /\ clientTx'[t] = clientTx[t] /\ acked'[t] = acked[t]

Frame(s) == Elsewhere(s) /\ \A t \in Sessions : t # s => applied'[t] = applied[t]

Untouched(s) ==
    \A t \in Sessions, sl \in Slices, c \in Conns : t # s /\ Holds(t, sl, c) => conn'[c] = conn[c]

\* A session that has no part in a step keeps its history.
LEMMA OtherKeeps ==
    ASSUME NEW t \in Sessions, History(t), acked[t] \subseteq Slices, Apart(t), reply'[t] = reply[t],
           clientTx'[t] = clientTx[t], acked'[t] = acked[t], applied'[t] = applied[t],
           \A sl \in Slices, c \in Conns : Holds(t, sl, c) => conn'[c] = conn[c]
    PROVE  History(t)'
<1>1. /\ status'[t] = status[t] /\ txConns'[t] = txConns[t] /\ pcs'[t] = pcs[t] /\ lock'[t] = lock[t]
      /\ at'[t] = at[t] /\ todo'[t] = todo[t] /\ op'[t] = op[t]
  BY DEF Apart
<1>2. /\ \A sl : Released(t, sl)' <=> Released(t, sl)
      /\ Ended(t)' <=> Ended(t)
      /\ IsInTransaction(t)' <=> IsInTransaction(t)
      /\ IsAutoCommit(t)' <=> IsAutoCommit(t)
  BY <1>1, Zenon DEF Released, Ended, IsInTransaction, IsAutoCommit
<1>3. \A sl \in Slices, c \in Conns :
        pcs[t][sl] = c \/ (txConns[t][sl] = c /\ ~Released(t, sl)) => conn'[c] = conn[c]
  BY DEF Holds
<1>4. Ours(t)'  BY <1>1, <1>2, <1>3, ZenonT(40) DEF History, Ours, TxConn
<1>5. Plain(t)'  BY <1>1, <1>2, <1>3 DEF History, Plain
<1>6. \A sl \in Slices : Waiting(t, sl) => Waiting(t, sl)'  BY <1>1, <1>2, <1>3 DEF Waiting
<1>7. Kept(t)'  BY <1>1, <1>6 DEF History, Kept, Keeping
<1>8. Begun(t)'  BY <1>1, <1>2, <1>3, SMTT(30) DEF History, Begun
<1>9. Client(t)'
  BY <1>1, <1>2 DEF History, Client, Known, Nothing, InStep, LetGo
<1> QED  BY <1>4, <1>5, <1>7, <1>8, <1>9 DEF History

\* A step of one session keeps the invariant when it keeps the history of
\* that session.
LEMMA FromOwn ==
    ASSUME HInv, IInv', NEW s \in Sessions, Frame(s), Untouched(s), Up', History(s)'
    PROVE  HInv'
<1>1. ASSUME NEW t \in Sessions PROVE History(t)'
  <2>1. CASE t = s  BY <2>1
  <2>2. CASE t # s
    <3>1. History(t) /\ \A sl \in Slices, c \in Conns : Holds(t, sl, c) => conn'[c] = conn[c]
      BY <2>2, Zenon DEF HInv, Untouched
    <3>2. acked[t] \subseteq Slices  BY DEF HInv, IInv, TypeOK
    <3> QED  BY <2>2, <3>1, <3>2, OtherKeeps, Zenon DEF Frame, Elsewhere
  <2> QED  BY <2>1, <2>2
<1> QED  BY <1>1, Zenon DEF HInv

\* A goroutine that is not ending a transaction, before and after.
LEMMA Outside ==
    ASSUME IInv, IInv', NEW s \in Sessions, NEW p \in Procs, at[s][p] # "finish", at'[s][p] # "finish",
           \A q \in Procs : q # p => at'[s][q] = at[s][q] /\ todo'[s][q] = todo[s][q] /\ op'[s][q] = op[s][q]
    PROVE  (\A sl : Released(s, sl)' <=> Released(s, sl)) /\ (Ended(s)' <=> Ended(s))
<1>1. \A sl : Letting(s, sl)' <=> Letting(s, sl)  BY Zenon DEF Letting
<1>2. /\ Doing(s) /\ lock[s] \in Procs \cup {"free"}
      /\ Doing(s)' /\ lock'[s] \in Procs \cup {"free"}
  BY DEF IInv, Shape, TypeOK
<1>3. \A sl : Released(s, sl)' <=> Released(s, sl)  BY <1>1, <1>2, ReleasedIs, Zenon
<1>4. Ended(s)' <=> Ended(s)  BY Zenon DEF Ended
<1> QED  BY <1>3, <1>4

\* A step that moves the session on with the connections as they are.
LEMMA OursStays ==
    ASSUME NEW s \in Sessions, Ours(s), Plain(s), conn' = conn, txConns'[s] = txConns[s],
           \A sl \in InTx(s) : Released(s, sl) => Released(s, sl)',
           status[s].inTrans \/ Ended(s) => status'[s].inTrans \/ Ended(s)',
           pcs'[s] = NoConns \/ (pcs'[s] = pcs[s] /\ (IsInTransaction(s) => IsInTransaction(s)'))
    PROVE  Ours(s)' /\ Plain(s)'
<1>1. \A sl \in Slices, c \in Conns : NoConns[sl] # c /\ (txConns[s][sl] = c => sl \in InTx(s))
  BY NoConnAssumption DEF NoConns, InTx
<1>2. Ours(s)'  BY <1>1 DEF Ours, TxConn
<1>3. Plain(s)'  BY <1>1 DEF Plain
<1> QED  BY <1>2, <1>3

\* Acknowledged writes stay where they are when the connections do.
LEMMA KeptStays ==
    ASSUME NEW s \in Sessions, Kept(s), acked[s] \subseteq Slices, conn' = conn, txConns'[s] = txConns[s],
           \A sl \in InTx(s) : Released(s, sl)' => Released(s, sl),
           acked'[s] = acked[s], applied'[s] = applied[s], Keeping(s)' => Keeping(s)
    PROVE  Kept(s)'
<1>1. \A sl \in Slices, c \in Conns : txConns[s][sl] = c => sl \in InTx(s)
  BY NoConnAssumption DEF InTx
<1>2. \A sl \in Slices : Waiting(s, sl) => Waiting(s, sl)'  BY <1>1 DEF Waiting
<1> QED  BY <1>2 DEF Kept

(* Such a step of one goroutine, seen from its session.                    *)
Rests(s) == conn' = conn /\ txConns'[s] = txConns[s] /\ acked'[s] = acked[s] /\ applied'[s] = applied[s]

Alone(s, p) ==
    \A q \in Procs : q # p => at'[s][q] = at[s][q] /\ todo'[s][q] = todo[s][q] /\ op'[s][q] = op[s][q]

\* A step that leaves the connections and the writes alone keeps the
\* invariant when it keeps what the client knows.
LEMMA PlainHistory ==
    ASSUME HInv, IInv', NEW s \in Sessions, NEW p \in Procs, Frame(s), Rests(s), Alone(s, p),
           at[s][p] # "finish", at'[s][p] # "finish", status[s].inTrans => status'[s].inTrans,
           pcs'[s] = NoConns \/ (pcs'[s] = pcs[s] /\ (IsInTransaction(s) => IsInTransaction(s)')),
           Keeping(s)' => Keeping(s), Begun(s)', Client(s)'
    PROVE  HInv'
<1>1. IInv /\ Up /\ History(s) /\ acked[s] \subseteq Slices  BY SMTT(30) DEF HInv, IInv, TypeOK
<1>2. (\A sl : Released(s, sl)' <=> Released(s, sl)) /\ (Ended(s)' <=> Ended(s))
  BY <1>1, Outside, Zenon DEF Alone
<1>3. Ours(s)' /\ Plain(s)'  BY <1>1, <1>2, OursStays, Zenon DEF Rests, History
<1>4. Kept(s)'  BY <1>1, <1>2, KeptStays, Zenon DEF Rests, History
<1>5. Up' /\ Untouched(s)  BY <1>1 DEF Rests, Up, Untouched
<1> QED  BY <1>3, <1>4, <1>5, FromOwn, Zenon DEF History

\* The client sends a statement (Query).
LEMMA QueryHistory ==
    ASSUME Quiet, HInv, IInv', NEW s \in Sessions, Query(s)
    PROVE  HInv'
<1>0. TypeOK /\ Shape(s) /\ History(s) /\ "cmd" \in Procs  BY DEF HInv, IInv, Procs
<1>1. at[s]["cmd"] = "idle" /\ at[s]["wheel"] = "idle"  BY DEF Query, Listening, At, Quiet
<1>2. /\ Frame(s) /\ Rests(s) /\ Alone(s, "cmd") /\ at'[s]["cmd"] = "get" /\ op'[s]["cmd"] \in Queries
      /\ UNCHANGED <<reply[s], clientTx[s], status[s], pcs[s], applied[s], at[s]["wheel"]>>
  BY <1>0 DEF Query, Goto, Frame, Elsewhere, Apart, Rests, Alone, TypeOK, sessionVars, poolVars, clientVars, Procs
<1>3. op[s]["cmd"] = "none"  BY <1>0, <1>1 DEF History, Client, Known
<1>4. Keeping(s)' => Keeping(s)  BY <1>1, <1>3 DEF Keeping
<1>5. Begun(s)' /\ Client(s)'
  BY <1>0, <1>1, <1>2, <1>3 DEF History, Client, Known, Nothing, InStep, LetGo, Begun, Queries, Controls,
     IsInTransaction, IsAutoCommit
<1> QED  BY <1>0, <1>1, <1>2, <1>4, <1>5, PlainHistory DEF IsInTransaction, IsAutoCommit

\* The client sends a command (Control).
LEMMA ControlHistory ==
    ASSUME Quiet, HInv, IInv', NEW s \in Sessions, Control(s)
    PROVE  HInv'
<1>0. TypeOK /\ Shape(s) /\ History(s) /\ "cmd" \in Procs  BY DEF HInv, IInv, Procs
<1>1. at[s]["cmd"] = "idle" /\ at[s]["wheel"] = "idle"  BY DEF Control, Listening, At, Quiet
<1>2. /\ Frame(s) /\ Rests(s) /\ Alone(s, "cmd") /\ at'[s]["cmd"] = "lock" /\ op'[s]["cmd"] \in Controls
      /\ op'[s]["cmd"] = "ac1" => ~clientTx[s]
      /\ UNCHANGED <<reply[s], clientTx[s], status[s], pcs[s], applied[s], at[s]["wheel"]>>
  BY <1>0 DEF Control, Quiet, Goto, Frame, Elsewhere, Apart, Rests, Alone, TypeOK, sessionVars, poolVars,
       clientVars, Procs
<1>3. op[s]["cmd"] = "none"  BY <1>0, <1>1 DEF History, Client, Known
<1>4. Keeping(s)' => Keeping(s)  BY <1>1, <1>3 DEF Keeping
<1>5. Begun(s)' /\ Client(s)'
  BY <1>0, <1>1, <1>2, <1>3, Zenon DEF History, Client, Known, Nothing, InStep, LetGo, Begun, Queries, Controls,
     IsInTransaction, IsAutoCommit
<1> QED  BY <1>0, <1>1, <1>2, <1>4, <1>5, PlainHistory DEF IsInTransaction, IsAutoCommit

\* The client goes away (Disconnect).
LEMMA DisconnectHistory ==
    ASSUME HInv, IInv', NEW s \in Sessions, Disconnect(s)
    PROVE  HInv'
<1>0. TypeOK /\ Shape(s) /\ History(s) /\ "cmd" \in Procs  BY DEF HInv, IInv, Procs
<1>1. at[s]["cmd"] = "idle"  BY DEF Disconnect, At
<1>2. /\ Frame(s) /\ Rests(s) /\ Alone(s, "cmd") /\ at'[s]["cmd"] = "check" /\ op'[s]["cmd"] = "close"
      /\ UNCHANGED <<status[s], pcs[s]>>
  BY <1>0 DEF Disconnect, Goto, Frame, Elsewhere, Apart, Rests, Alone, TypeOK, sessionVars, poolVars, clientVars
<1>4. ~Keeping(s)'  BY <1>2 DEF Keeping
<1>5. Begun(s)' /\ Client(s)'
  BY <1>2, Zenon DEF Client, Known, Nothing, InStep, LetGo, Begun, Queries, Controls
<1> QED  BY <1>0, <1>1, <1>2, <1>4, <1>5, PlainHistory DEF IsInTransaction, IsAutoCommit

\* The session times out (WheelFires).
LEMMA WheelFiresHistory ==
    ASSUME Quiet, HInv, IInv', NEW s \in Sessions, WheelFires(s)
    PROVE  HInv'
<1>0. TypeOK /\ Shape(s) /\ History(s) /\ "wheel" \in Procs  BY DEF HInv, IInv, Procs
<1>1. at[s]["cmd"] = "idle" /\ at[s]["wheel"] = "idle"  BY DEF WheelFires, At, Quiet
<1>2. /\ Frame(s) /\ Rests(s) /\ Alone(s, "wheel") /\ at'[s]["wheel"] = "check"
      /\ UNCHANGED <<status[s], pcs[s], applied[s], at[s]["cmd"], op[s]["cmd"]>>
  BY <1>0 DEF WheelFires, Goto, Frame, Elsewhere, Apart, Rests, Alone, TypeOK, sessionVars, poolVars,
       clientVars, Procs
<1>4. ~Keeping(s)'  BY <1>2 DEF Keeping
<1>5. Begun(s)' /\ Client(s)'
  BY <1>0, <1>1, <1>2, Zenon DEF History, Client, Known, Nothing, InStep, LetGo, Begun, IsInTransaction,
       IsAutoCommit
<1> QED  BY <1>0, <1>1, <1>2, <1>4, <1>5, PlainHistory, Zenon DEF IsInTransaction, IsAutoCommit

\* A step inside a statement.
LEMMA StatementHistory ==
    ASSUME HInv, IInv', NEW s \in Sessions, at[s]["cmd"] \in Busy, at'[s]["cmd"] \in Busy \cup {"reply"},
           op'[s]["cmd"] = op[s]["cmd"], status'[s] = status[s], clientTx'[s] = clientTx[s],
           at'[s]["wheel"] = at[s]["wheel"], applied'[s] = applied[s] \/ ~IsInTransaction(s)
    PROVE  Client(s)' /\ Begun(s)' /\ (Keeping(s)' <=> Keeping(s)) /\ at[s]["wheel"] = "idle" /\ Keeping(s)
<1>0. Shape(s) /\ History(s)  BY DEF HInv, IInv
<1>1. at[s]["wheel"] = "idle" /\ op[s]["cmd"] \in Queries  BY <1>0 DEF Shape, Wheel, Doing, Busy, Closing
<1>2. Begun(s)' /\ Known(s)' /\ Nothing(s)' /\ LetGo(s)'
  BY <1>0, <1>1 DEF History, Client, Known, Nothing, LetGo, Begun, Queries, Busy, IsInTransaction, IsAutoCommit
<1>3. InStep(s)'
  BY <1>0, <1>1 DEF History, Client, InStep, Queries, Controls, Busy, IsAutoCommit
<1>4. Keeping(s)' /\ Keeping(s)  BY <1>1 DEF Keeping, Queries
<1> QED  BY <1>1, <1>2, <1>3, <1>4, Zenon DEF Client

\* getBackendConn reads the status bits (GetBackendConn).
LEMMA GetBackendConnHistory ==
    ASSUME HInv, IInv', NEW s \in Sessions, GetBackendConn(s)
    PROVE  HInv'
<1>0. TypeOK /\ "cmd" \in Procs  BY DEF HInv, IInv, Procs
<1>1. at[s]["cmd"] \in Busy /\ at[s]["cmd"] # "finish"  BY DEF GetBackendConn, At, Busy
<1>2. /\ Frame(s) /\ Rests(s) /\ Alone(s, "cmd") /\ at'[s]["cmd"] \in Busy /\ at'[s]["cmd"] # "finish"
      /\ UNCHANGED <<op[s]["cmd"], clientTx[s], status[s], pcs[s], applied[s], at[s]["wheel"]>>
  BY <1>0 DEF GetBackendConn, Goto, Frame, Elsewhere, Apart, Rests, Alone, Busy, TypeOK, sessionVars, poolVars,
       clientVars, Procs
<1>3. Client(s)' /\ Begun(s)' /\ (Keeping(s)' <=> Keeping(s))  BY <1>1, <1>2, StatementHistory
<1> QED  BY <1>0, <1>1, <1>2, <1>3, PlainHistory DEF IsInTransaction, IsAutoCommit

\* No connection is to be had (GetFails).
LEMMA GetFailsHistory ==
    ASSUME HInv, IInv', NEW s \in Sessions, GetFails(s)
    PROVE  HInv'
<1>0. TypeOK /\ "cmd" \in Procs  BY DEF HInv, IInv, Procs
<1>1. at[s]["cmd"] \in Busy /\ at[s]["cmd"] # "finish"  BY DEF GetFails, At, Busy
<1>2. /\ Frame(s) /\ Rests(s) /\ Alone(s, "cmd") /\ at'[s]["cmd"] \in Busy /\ at'[s]["cmd"] # "finish"
      /\ UNCHANGED <<op[s]["cmd"], clientTx[s], status[s], pcs[s], applied[s], at[s]["wheel"]>>
  BY <1>0 DEF GetFails, Refuse, Goto, Frame, Elsewhere, Apart, Rests, Alone, Busy, TypeOK, sessionVars,
       poolVars, clientVars, Procs
<1>3. Client(s)' /\ Begun(s)' /\ (Keeping(s)' <=> Keeping(s))  BY <1>1, <1>2, StatementHistory
<1> QED  BY <1>0, <1>1, <1>2, <1>3, PlainHistory DEF IsInTransaction, IsAutoCommit

\* A statement is over (RecycleBackendConns).
LEMMA RecycleBackendConnsHistory ==
    ASSUME HInv, IInv', NEW s \in Sessions, RecycleBackendConns(s)
    PROVE  HInv'
<1>0. TypeOK /\ "cmd" \in Procs  BY DEF HInv, IInv, Procs
<1>1. at[s]["cmd"] \in Busy /\ at[s]["cmd"] # "finish"  BY DEF RecycleBackendConns, At, Busy
<1>2. /\ Frame(s) /\ Rests(s) /\ Alone(s, "cmd")
      /\ at'[s]["cmd"] \in Busy \cup {"reply"} /\ at'[s]["cmd"] # "finish"
      /\ pcs'[s] \in {pcs[s], NoConns}
      /\ UNCHANGED <<op[s]["cmd"], clientTx[s], status[s], applied[s], at[s]["wheel"]>>
  BY <1>0 DEF RecycleBackendConns, Goto, Frame, Elsewhere, Apart, Rests, Alone, Busy, TypeOK, sessionVars,
       poolVars, clientVars, Procs
<1>3. Client(s)' /\ Begun(s)' /\ (Keeping(s)' <=> Keeping(s))  BY <1>1, <1>2, StatementHistory, Zenon
<1> QED  BY <1>0, <1>1, <1>2, <1>3, PlainHistory, Zenon DEF IsInTransaction, IsAutoCommit

\* handleBegin takes the lock (HandleBegin).
LEMMA HandleBeginHistory ==
    ASSUME HInv, IInv', NEW s \in Sessions, HandleBegin(s)
    PROVE  HInv'
<1>0. TypeOK /\ Shape(s) /\ History(s) /\ "cmd" \in Procs  BY DEF HInv, IInv, Procs
<1>1. at[s]["cmd"] = "lock" /\ op[s]["cmd"] = "begin"  BY DEF HandleBegin, Acquire, At
<1>2. at[s]["wheel"] = "idle"  BY <1>0, <1>1 DEF Shape, Wheel, Closing
<1>3. /\ Frame(s) /\ Rests(s) /\ Alone(s, "cmd") /\ at'[s]["cmd"] = "begin" /\ todo'[s]["cmd"] = InTx(s)
      /\ UNCHANGED <<reply[s], clientTx[s], status[s], pcs[s], op[s]["cmd"], txConns[s], at[s]["wheel"]>>
  BY <1>0 DEF HandleBegin, Acquire, Goto, Frame, Elsewhere, Apart, Rests, Alone, TypeOK, poolVars, Procs
<1>4. Keeping(s)' => Keeping(s)  BY <1>2, <1>3, Zenon DEF Keeping
<1>5. Client(s)'
  BY <1>0, <1>1, <1>2, <1>3 DEF History, Client, Known, Nothing, InStep, LetGo, Queries, Controls
<1>6. Begun(s)'
  <2>1. \A sl \in Slices, c \in Conns : txConns'[s][sl] = c => sl \in InTx(s)
    BY <1>3, NoConnAssumption, SMTT(30) DEF InTx
  <2> QED  BY <1>3, <2>1 DEF Begun
<1> QED  BY <1>0, <1>1, <1>3, <1>4, <1>5, <1>6, PlainHistory, Zenon DEF IsInTransaction, IsAutoCommit

\* SET autocommit = 0 (SetAutoCommitOff).
LEMMA SetAutoCommitOffHistory ==
    ASSUME HInv, IInv', NEW s \in Sessions, SetAutoCommitOff(s)
    PROVE  HInv'
<1>0. TypeOK /\ Shape(s) /\ History(s) /\ "cmd" \in Procs  BY DEF HInv, IInv, Procs
<1>1. at[s]["cmd"] = "lock" /\ op[s]["cmd"] = "ac0"  BY DEF SetAutoCommitOff, At
<1>2. /\ Frame(s) /\ Rests(s) /\ Alone(s, "cmd") /\ at'[s]["cmd"] = "reply"
      /\ UNCHANGED <<reply[s], clientTx[s], pcs[s], op[s]["cmd"], applied[s], at[s]["wheel"]>>
  BY <1>0 DEF SetAutoCommitOff, Goto, Frame, Elsewhere, Apart, Rests, Alone, TypeOK, poolVars, clientVars, Procs
<1>3. status'[s].inTrans = status[s].inTrans /\ status'[s].autocommit = FALSE
  BY <1>0 DEF SetAutoCommitOff, TypeOK
<1>4. Keeping(s)' => Keeping(s)  BY <1>1, <1>2 DEF Keeping
<1>5. Begun(s)' /\ Client(s)'
  BY <1>0, <1>1, <1>2, <1>3, Zenon DEF History, Client, Known, Nothing, InStep, LetGo, Begun, Queries, Controls
<1> QED  BY <1>0, <1>1, <1>2, <1>3, <1>4, <1>5, PlainHistory, Zenon DEF IsInTransaction, IsAutoCommit

\* handleBegin sets its bit (BeginDone).
LEMMA BeginDoneHistory ==
    ASSUME HInv, IInv', NEW s \in Sessions, BeginDone(s)
    PROVE  HInv'
<1>0. TypeOK /\ Shape(s) /\ History(s) /\ "cmd" \in Procs  BY DEF HInv, IInv, Procs
<1>1. at[s]["cmd"] = "begin" /\ todo[s]["cmd"] = {}  BY DEF BeginDone, At
<1>2. op[s]["cmd"] = "begin" /\ at[s]["wheel"] = "idle"  BY <1>0, <1>1 DEF Shape, Doing, Wheel, Closing
<1>3. /\ Frame(s) /\ Rests(s) /\ Alone(s, "cmd") /\ at'[s]["cmd"] = "reply"
      /\ UNCHANGED <<reply[s], clientTx[s], pcs[s], op[s]["cmd"], txConns[s], at[s]["wheel"], conn>>
  BY <1>0 DEF BeginDone, Goto, Frame, Elsewhere, Apart, Rests, Alone, TypeOK, poolVars, clientVars, Procs
<1>4. status'[s].inTrans = TRUE  BY <1>0 DEF BeginDone, TypeOK
<1>5. Keeping(s)' => Keeping(s)  BY <1>2, <1>3, Zenon DEF Keeping
<1>6. Client(s)'
  BY <1>0, <1>1, <1>2, <1>3, <1>4, Zenon DEF History, Client, Known, Nothing, InStep, LetGo, Queries, Controls
<1>7. Begun(s)'
  <2>1. \A sl : Released(s, sl)' <=> Released(s, sl)  BY <1>0, <1>1, <1>3, Outside, Zenon DEF HInv, Alone
  <2> QED  BY <1>0, <1>1, <1>2, <1>3, <2>1, Zenon DEF History, Begun
<1> QED  BY <1>0, <1>1, <1>3, <1>4, <1>5, <1>6, <1>7, PlainHistory, Zenon DEF IsInTransaction, IsAutoCommit

\* Session.Close tests its flag (CloseCheck).
LEMMA CloseCheckHistory ==
    ASSUME HInv, IInv', NEW s \in Sessions, NEW p \in Procs, CloseCheck(s, p)
    PROVE  HInv'
<1>0. TypeOK /\ Shape(s) /\ History(s)  BY DEF HInv, IInv
<1>1. at[s][p] = "check"  BY DEF CloseCheck, At
<1>2. /\ Frame(s) /\ Rests(s) /\ Alone(s, p) /\ at'[s][p] \in {"done", "store"} /\ op'[s][p] = "close"
      /\ UNCHANGED <<status[s], pcs[s], applied[s], clientTx[s], reply[s], txConns[s]>>
  BY <1>0 DEF CloseCheck, Goto, Frame, Elsewhere, Apart, Rests, Alone, TypeOK, sessionVars, poolVars, clientVars
<1>3. p = "wheel" => /\ at[s]["cmd"] \notin {"begin", "reply"} /\ at'[s]["wheel"] # "idle"
                     /\ at'[s]["cmd"] = at[s]["cmd"] /\ op'[s]["cmd"] = op[s]["cmd"]
  BY <1>0, <1>1, <1>2 DEF Shape, Wheel, Closing, Alone, Procs
<1>4. ~Keeping(s)'  BY <1>2, <1>3 DEF Keeping, Procs
<1>5. Begun(s)' /\ Client(s)'
  <2>1. CASE p = "cmd"
    BY <1>2, <2>1 DEF Client, Known, Nothing, InStep, LetGo, Begun, Queries, Controls
  <2>2. CASE p = "wheel"
    BY <1>0, <1>2, <1>3, <2>2, Zenon DEF History, Client, Known, Nothing, InStep, LetGo, Begun,
         IsInTransaction, IsAutoCommit
  <2> QED  BY <2>1, <2>2 DEF Procs
<1> QED  BY <1>0, <1>1, <1>2, <1>4, <1>5, PlainHistory, Zenon DEF IsInTransaction, IsAutoCommit

\* Session.Close sets its flag (CloseStore).
LEMMA CloseStoreHistory ==
    ASSUME HInv, IInv', NEW s \in Sessions, NEW p \in Procs, CloseStore(s, p)
    PROVE  HInv'
<1>0. TypeOK /\ Shape(s) /\ History(s)  BY DEF HInv, IInv
<1>1. at[s][p] = "store" /\ (p = "cmd" => op[s]["cmd"] = "close")  BY <1>0, Zenon DEF CloseStore, At, Shape, Doing
<1>2. /\ Frame(s) /\ Rests(s) /\ Alone(s, p) /\ at'[s][p] = "lock"
      /\ UNCHANGED <<status[s], pcs[s], applied[s], clientTx[s], reply[s], txConns[s], op[s]["cmd"]>>
  BY <1>0 DEF CloseStore, Goto, Frame, Elsewhere, Apart, Rests, Alone, TypeOK, poolVars, clientVars
<1>3. p = "wheel" => /\ at[s]["cmd"] \notin {"begin", "reply"} /\ at'[s]["wheel"] # "idle"
                     /\ at'[s]["cmd"] = at[s]["cmd"]
  BY <1>0, <1>1, <1>2, Zenon DEF Shape, Wheel, Closing, Alone, Procs
<1>4. ~Keeping(s)'  BY <1>1, <1>2, <1>3 DEF Keeping, Procs
<1>5. Begun(s)' /\ Client(s)'
  <2>1. CASE p = "cmd"
    BY <1>1, <1>2, <2>1, Zenon DEF Client, Known, Nothing, InStep, LetGo, Begun, Queries, Controls
  <2>2. CASE p = "wheel"
    BY <1>0, <1>2, <1>3, <2>2, Zenon DEF History, Client, Known, Nothing, InStep, LetGo, Begun,
         IsInTransaction, IsAutoCommit
  <2> QED  BY <2>1, <2>2 DEF Procs
<1> QED  BY <1>0, <1>1, <1>2, <1>4, <1>5, PlainHistory, Zenon DEF IsInTransaction, IsAutoCommit

\* COMMIT, ROLLBACK, SET autocommit = 1, quit and Close take the lock.
LEMMA AcquireHistory ==
    ASSUME HInv, IInv', NEW s \in Sessions, NEW p \in Procs, NEW bits \in Bits, ~bits.inTrans,
           Acquire(s, p, bits, "finish"), op[s][p] = "ac1" => ~status[s].inTrans,
           \A t \in Sessions : t # s => clientTx'[t] = clientTx[t],
           Keeping(s)' => Keeping(s), Client(s)'
    PROVE  HInv'
<1>0. IInv /\ TypeOK /\ Shape(s) /\ History(s) /\ acked[s] \subseteq Slices  BY SMTT(30) DEF HInv, IInv, TypeOK
<1>1. at[s][p] = "lock" /\ lock[s] = "free"  BY DEF Acquire, At
<1>2. /\ Frame(s) /\ Rests(s) /\ Alone(s, p) /\ at'[s][p] = "finish" /\ todo'[s][p] = InTx(s)
      /\ lock'[s] = p
      /\ UNCHANGED <<pcs[s], op[s][p]>>
  BY <1>0 DEF Acquire, Goto, Frame, Elsewhere, Apart, Rests, Alone, TypeOK, poolVars
<1>3. pcs'[s] = NoConns  BY <1>0, <1>1, <1>2, EndingFacts, Zenon
<1>4. \A q \in Procs : at[s][q] # "finish"  BY <1>0, <1>1, Zenon DEF Shape, Doing, Procs
<1>5. ~Ended(s) /\ \A sl : ~Released(s, sl)  BY <1>1, <1>4, Zenon DEF Ended, Released
<1>6. \A sl \in InTx(s) : ~Released(s, sl)'  BY <1>2, Zenon DEF Released
<1>7. status[s].inTrans => Ended(s)'  BY <1>2 DEF Ended
<1>8. Ours(s)' /\ Plain(s)'  BY <1>0, <1>2, <1>3, <1>5, <1>7, OursStays, Zenon DEF Rests, History
<1>9. Kept(s)'  BY <1>0, <1>2, <1>6, KeptStays, Zenon DEF Rests, History
<1>10. Begun(s)'
  <2>1. at'[s]["cmd"] \notin {"begin", "reply"}
    <3>1. CASE p = "cmd"  BY <1>2, <3>1
    <3>2. CASE p = "wheel"
      BY <1>0, <1>1, <1>2, <3>2 DEF Shape, Wheel, Closing, Alone, Procs
    <3> QED  BY <3>1, <3>2 DEF Procs
  <2> QED  BY <2>1, Zenon DEF Begun
<1>11. Up' /\ Untouched(s)  BY <1>2, Zenon DEF HInv, Rests, Up, Untouched
<1> QED  BY <1>2, <1>8, <1>9, <1>10, <1>11, FromOwn, Zenon DEF History

\* What the commands that end a transaction find when they take the lock.
LEMMA EnderFacts ==
    ASSUME IInv, NEW s \in Sessions, at[s]["cmd"] = "lock", op[s]["cmd"] \in Controls
    PROVE  at[s]["wheel"] = "idle" /\ status[s] \in Bits
<1>1. TypeOK /\ Shape(s)  BY DEF IInv
<1> QED  BY <1>1 DEF Shape, Wheel, Closing, Controls, TypeOK, Bits

\* COMMIT takes the lock (Commit).
LEMMA CommitHistory ==
    ASSUME HInv, IInv', NEW s \in Sessions, Commit(s)
    PROVE  HInv'
<1>0. IInv /\ TypeOK /\ History(s) /\ "cmd" \in Procs  BY DEF HInv, IInv, Procs
<1>1. at[s]["cmd"] = "lock" /\ op[s]["cmd"] = "commit"  BY DEF Commit, Acquire, At
<1>2. at[s]["wheel"] = "idle" /\ status[s] \in Bits  BY <1>0, <1>1, EnderFacts, Zenon DEF Controls
<1>3. PICK bits : bits = [status[s] EXCEPT !.inTrans = FALSE]  BY Zenon
<1>4. bits \in Bits /\ ~bits.inTrans  BY <1>2, <1>3, Zenon DEF Bits
<1>5. Acquire(s, "cmd", bits, "finish")  BY <1>3 DEF Commit
<1>6. /\ at'[s]["cmd"] = "finish" /\ status'[s] = bits
      /\ UNCHANGED <<reply[s], clientTx, op[s]["cmd"], at[s]["wheel"]>>
  BY <1>0, <1>5 DEF Commit, Acquire, Goto, TypeOK, Procs
<1>7. Keeping(s)' => Keeping(s)  BY <1>1, <1>2, <1>6 DEF Keeping
<1>8. Client(s)'
  BY <1>1, <1>4, <1>6, Zenon DEF Client, Known, Nothing, InStep, LetGo, Queries, Controls
<1> QED  BY <1>0, <1>1, <1>4, <1>5, <1>6, <1>7, <1>8, AcquireHistory, Zenon

\* SET autocommit = 1 takes the lock (SetAutoCommitOn).
LEMMA SetAutoCommitOnHistory ==
    ASSUME HInv, IInv', NEW s \in Sessions, SetAutoCommitOn(s)
    PROVE  HInv'
<1>0. IInv /\ TypeOK /\ History(s) /\ "cmd" \in Procs  BY DEF HInv, IInv, Procs
<1>1. at[s]["cmd"] = "lock" /\ op[s]["cmd"] = "ac1"  BY DEF SetAutoCommitOn, Acquire, At
<1>2. at[s]["wheel"] = "idle" /\ status[s] \in Bits  BY <1>0, <1>1, EnderFacts, Zenon DEF Controls
<1>3. PICK bits : bits = [inTrans |-> FALSE, autocommit |-> TRUE]  BY Zenon
<1>4. bits \in Bits /\ ~bits.inTrans /\ bits.autocommit  BY <1>3 DEF Bits
<1>5. Acquire(s, "cmd", bits, "finish")  BY <1>3 DEF SetAutoCommitOn
<1>6. ~clientTx[s] /\ ~status[s].inTrans
  BY <1>0, <1>1, <1>2, Zenon DEF History, Client, InStep, Controls
<1>7. /\ at'[s]["cmd"] = "finish" /\ status'[s] = bits /\ ~clientTx'[s]
      /\ \A t \in Sessions : t # s => clientTx'[t] = clientTx[t]
      /\ UNCHANGED <<reply[s], op[s]["cmd"], at[s]["wheel"]>>
  BY <1>0, <1>5, <1>6 DEF SetAutoCommitOn, Acquire, Goto, TypeOK, Procs
<1>8. Keeping(s)' => Keeping(s)  BY <1>1, <1>2, <1>7, Zenon DEF Keeping
<1>9. Client(s)'
  BY <1>1, <1>4, <1>7, Zenon DEF Client, Known, Nothing, InStep, LetGo, Queries, Controls, IsAutoCommit
<1> QED  BY <1>0, <1>1, <1>4, <1>5, <1>6, <1>7, <1>8, <1>9, AcquireHistory, Zenon

\* rollback takes the lock, for ROLLBACK, quit and Close (Rollback).
LEMMA RollbackHistory ==
    ASSUME HInv, IInv', NEW s \in Sessions, NEW p \in Procs, Rollback(s, p)
    PROVE  HInv'
<1>0. IInv /\ TypeOK /\ Shape(s) /\ History(s) /\ status[s] \in Bits
  BY Zenon DEF HInv, IInv, TypeOK, Bits
<1>1. at[s][p] = "lock" /\ op[s][p] \in {"rollback", "quit", "close"}  BY DEF Rollback, Acquire, At
<1>2. PICK bits : bits = [status[s] EXCEPT !.inTrans = FALSE]  BY Zenon
<1>3. bits \in Bits /\ ~bits.inTrans /\ bits.autocommit = status[s].autocommit  BY <1>0, <1>2, Zenon DEF Bits
<1>4. Acquire(s, p, bits, "finish")  BY <1>2 DEF Rollback
<1>5. /\ at'[s][p] = "finish" /\ status'[s] = bits
      /\ UNCHANGED <<clientTx, op[s]["cmd"], applied[s], txConns[s]>>
      /\ p = "wheel" => at'[s]["cmd"] = at[s]["cmd"]
  BY <1>0, <1>4 DEF Rollback, Acquire, Goto, TypeOK, Procs
<1>6. ~Keeping(s)'  BY <1>1, <1>5, Zenon DEF Keeping, Procs
<1>7. Client(s)'
  <2>1. CASE p = "cmd"
    <3>1. Known(s)' /\ LetGo(s)' /\ InStep(s)'
      BY <1>1, <1>3, <1>5, <2>1, Zenon DEF Known, InStep, LetGo, Queries, Controls
    <3>2. Nothing(s)'  BY <1>0, <1>1, <1>5, <2>1, Zenon DEF History, Client, Nothing, Queries
    <3> QED  BY <3>1, <3>2 DEF Client
  <2>2. CASE p = "wheel"
    <3>1. Known(s)' /\ LetGo(s)' /\ InStep(s)'
      BY <1>0, <1>5, <2>2, Zenon DEF History, Client, Known, InStep, LetGo
    <3>2. Nothing(s)'
      BY <1>0, <1>3, <1>5, Zenon DEF History, Client, Nothing, IsInTransaction, IsAutoCommit
    <3> QED  BY <3>1, <3>2 DEF Client
  <2> QED  BY <2>1, <2>2 DEF Procs
<1> QED  BY <1>1, <1>3, <1>4, <1>5, <1>6, <1>7, AcquireHistory, Zenon

\* The end of those commands (FinishDone).
LEMMA FinishDoneHistory ==
    ASSUME HInv, IInv', NEW s \in Sessions, NEW p \in Procs, FinishDone(s, p)
    PROVE  HInv'
<1>0. IInv /\ TypeOK /\ Shape(s) /\ History(s)  BY DEF HInv, IInv
<1>1. at[s][p] = "finish" /\ todo[s][p] = {} /\ lock[s] = p  BY <1>0, Zenon DEF FinishDone, At, Shape, Doing
<1>2. /\ Frame(s) /\ Alone(s, p) /\ conn' = conn /\ txConns'[s] = NoConns
      /\ at'[s][p] = IF op[s][p] = "close" THEN "done" ELSE "reply"
      /\ UNCHANGED <<status[s], pcs[s], reply[s], clientTx[s], acked[s], applied[s], op[s]["cmd"]>>
  BY <1>0 DEF FinishDone, Goto, Frame, Elsewhere, Apart, Alone, TypeOK, poolVars, clientVars
<1>3. pcs'[s] = NoConns  BY <1>0, <1>1, <1>2, EndingFacts, Zenon
<1>4. \A sl \in Slices, c \in Conns : NoConns[sl] # c  BY NoConnAssumption DEF NoConns
<1>5. Ours(s)' /\ Plain(s)' /\ Begun(s)'  BY <1>2, <1>3, <1>4, Zenon DEF Ours, Plain, Begun
<1>6. p = "wheel" => at'[s]["wheel"] # "idle" /\ at'[s]["cmd"] = at[s]["cmd"]
  BY <1>2, Zenon DEF Alone, Procs
<1>7. p = "cmd" => at[s]["cmd"] = "finish" /\ at'[s]["wheel"] = at[s]["wheel"] /\ op[s]["cmd"] \in Enders
  BY <1>0, <1>1, <1>2, Zenon DEF Alone, Procs, Shape, Doing
<1>8. Kept(s)'
  <2>1. Keeping(s)' => Keeping(s)  BY <1>2, <1>6, <1>7, Zenon DEF Keeping, Procs
  <2>2. \A sl : ~Waiting(s, sl)  BY <1>1 DEF Waiting, Released, Procs
  <2> QED  BY <1>0, <1>2, <2>1, <2>2, Zenon DEF History, Kept
<1>9. Client(s)'
  <2>1. CASE p = "cmd"
    <3>1. Known(s)' /\ LetGo(s)' /\ Nothing(s)'
      BY <1>0, <1>2, <1>7, <2>1, Zenon DEF History, Client, Known, LetGo, Nothing, Controls, Enders,
           IsInTransaction, IsAutoCommit
    <3>2. InStep(s)'
      BY <1>0, <1>2, <1>7, <2>1, Zenon DEF History, Client, InStep, Queries, Controls, Enders, IsAutoCommit
    <3> QED  BY <3>1, <3>2 DEF Client
  <2>2. CASE p = "wheel"
    BY <1>0, <1>2, <1>6, <2>2, Zenon DEF History, Client, Known, LetGo, Nothing, InStep, IsInTransaction,
         IsAutoCommit
  <2> QED  BY <2>1, <2>2 DEF Procs
<1>10. Up' /\ Untouched(s)  BY <1>2, Zenon DEF HInv, Up, Untouched
<1> QED  BY <1>2, <1>5, <1>8, <1>9, <1>10, FromOwn, Zenon DEF History

\* The client is answered (Reply).
LEMMA ReplyHistory ==
    ASSUME HInv, IInv', NEW s \in Sessions, Reply(s)
    PROVE  HInv'
<1>0. IInv /\ TypeOK /\ Shape(s) /\ History(s) /\ "cmd" \in Procs  BY DEF HInv, IInv, Procs
<1>1. at[s]["cmd"] = "reply" /\ at[s]["wheel"] = "idle" /\ op[s]["cmd"] \in Queries \cup Controls
  BY <1>0 DEF Reply, At, Shape, Wheel, Closing, History, Client, Known
<1> DEFINE q == op[s]["cmd"]
           tx == CASE q = "begin" /\ reply[s] = "ok" -> TRUE
                   [] q \in {"commit", "rollback", "quit"} -> FALSE
                   [] OTHER -> clientTx[s]
           over == q \in {"begin", "commit", "rollback", "quit"} \/ (~tx /\ IsAutoCommit(s))
<1>2. /\ Frame(s) /\ Alone(s, "cmd") /\ UNCHANGED <<conn, txConns[s], status[s], pcs[s], at[s]["wheel"]>>
  BY <1>0 DEF Reply, Goto, Frame, Elsewhere, Apart, Alone, TypeOK, sessionVars, poolVars, Procs
<1>3. /\ clientTx'[s] = tx
      /\ acked'[s] = IF over THEN {} ELSE acked[s]
      /\ applied'[s] = IF over THEN {} ELSE applied[s]
      /\ reply'[s] = "ok"
  BY <1>0 DEF Reply, TypeOK
<1>4. \/ at'[s]["cmd"] = "check" /\ op'[s]["cmd"] = "close"
      \/ at'[s]["cmd"] = "idle" /\ op'[s]["cmd"] = "none" /\ q # "quit"
  BY <1>0 DEF Reply, Goto, TypeOK
<1>5. /\ q \in Queries \cup {"ac0"} => (clientTx[s] <=> status[s].inTrans)
      /\ q = "begin" => \/ reply[s] = "ok" /\ status[s].inTrans
                        \/ reply[s] = "err" /\ (clientTx[s] <=> status[s].inTrans)
      /\ q \in {"commit", "rollback", "ac1"} => ~status[s].inTrans
      /\ q = "ac1" => ~clientTx[s] /\ IsAutoCommit(s)
  <2>1. reply[s] \in {"ok", "err"}  BY <1>0 DEF TypeOK
  <2> QED  BY <1>0, <1>1, <2>1, Zenon DEF History, Client, InStep
<1>6. q # "quit" => (tx <=> status[s].inTrans)
  <2>0. status[s].inTrans \in BOOLEAN /\ clientTx[s] \in BOOLEAN  BY <1>0 DEF TypeOK
  <2> QED  BY <1>1, <1>5, <2>0 DEF Queries, Controls
<1>7. ~over => q \in Queries \cup {"ac0"}  BY <1>1, <1>5 DEF Queries, Controls
<1>8. ~over => applied[s] = {}
  BY <1>0, <1>1, <1>5, <1>6, <1>7 DEF History, Client, Nothing, IsInTransaction, IsAutoCommit, Queries
<1> HIDE DEF q, tx, over
<1>9. Client(s)'
  BY <1>2, <1>3, <1>4, <1>6, <1>8, Zenon DEF Client, Known, Nothing, InStep, LetGo, Queries, Controls
<1>10. (\A sl : Released(s, sl)' <=> Released(s, sl)) /\ (Ended(s)' <=> Ended(s))
  BY <1>0, <1>1, <1>2, <1>4, Outside, Zenon DEF Alone
<1>11. Ours(s)' /\ Plain(s)'
  BY <1>0, <1>2, <1>10, OursStays, Zenon DEF History, IsInTransaction, IsAutoCommit
<1>12. Kept(s)'
  <2>1. CASE over  BY <1>3, <2>1 DEF Kept
  <2>2. CASE ~over
    <3>1. acked[s] \subseteq Slices  BY <1>0 DEF TypeOK
    <3>2. Keeping(s)' => Keeping(s)  BY <1>1, <1>2, <1>7, <2>2 DEF Keeping, Queries, q
    <3> QED  BY <1>0, <1>2, <1>3, <1>10, <2>2, <3>1, <3>2, KeptStays DEF History
  <2> QED  BY <2>1, <2>2
<1>13. Begun(s)'  BY <1>4 DEF Begun
<1>14. Up' /\ Untouched(s)  BY <1>2 DEF HInv, Up, Untouched
<1> QED  BY <1>2, <1>9, <1>11, <1>12, <1>13, <1>14, FromOwn, Zenon DEF History

-----------------------------------------------------------------------------
(* One connection, when no connection is lost.                             *)

(* A statement is answered, with the writes it makes durable, or refused.  *)
Done(r, q, s, o) ==
    /\ o.res = "ok" /\ o.conn.net = "up" /\ o.conn.srv \in Server(r.srv, q, s)
    /\ o.durable = Durable(r.srv, q, s)

Failed(r, q, o) ==
    /\ o.res = "err" /\ o.durable = {} /\ o.conn.st = r.st
    /\ q \in {"ac0", "ac1"} => o.conn.net = "broken"
    /\ q \notin {"ac0", "ac1"} =>
         /\ o.conn.net = "up" /\ o.conn.srv.work = r.srv.work /\ o.conn.srv.ac = r.srv.ac
         /\ r.srv.tx => o.conn.srv.tx
         /\ r.srv.ac => o.conn.srv = r.srv

\* Without a lost connection there is no other outcome.
LEMMA QuietExec ==
    ASSUME Quiet, NEW r, Sound(r), r.net = "up", NEW q \in Sql, NEW s, q = "write" => s \in Sessions,
           NEW o \in Exec(r, q, s)
    PROVE  /\ Sound(o.conn)
           /\ Failed(r, q, o) \/ (Done(r, q, s, o) /\ (o.conn.st.tx <=> o.conn.srv.tx))
<1>1. Calm /\ "break" \notin Allowed  BY DEF Quiet, Calm
<1>2. Answered(r, q, s, o) \/ Refused(r, q, o)
  <2>1. ~Unanswered(r, q, s, o)  BY <1>1 DEF Unanswered
  <2> QED  BY <1>1, <2>1, ExecCases
<1>3. Sound(o.conn) /\ o.res \in {"ok", "err"}  BY <1>1, ExecFacts
<1>4. CASE Answered(r, q, s, o)
  <2>1. PICK v \in Server(r.srv, q, s) :
          o = [conn |-> HandleOKPacket(r, v), res |-> "ok", durable |-> Durable(r.srv, q, s)]
    BY <1>4 DEF Answered
  <2>2. r.srv \in SrvType /\ (~r.srv.tx => r.srv.work = {})  BY ConnParts DEF Sound, Tidy
  <2>3. v \in SrvType /\ (~v.tx => v.work = {})  BY <2>2, ServerFacts
  <2>4. o.conn = HandleOKPacket(r, v) /\ o.res = "ok" /\ o.durable = Durable(r.srv, q, s)  BY <2>1
  <2>5. o.conn.net = "up" /\ o.conn.srv = v /\ (o.conn.st.tx <=> v.tx)  BY <2>3, <2>4, OKSound
  <2> QED  BY <1>3, <2>4, <2>5, Zenon DEF Done
<1>5. CASE Refused(r, q, o)
  <2>1. PICK f \in HandleErrorPacket(r) :
          \/ q \in {"ac0", "ac1"} /\ o = [conn |-> Lost(f), res |-> "err", durable |-> {}]
          \/ q \notin {"ac0", "ac1"} /\ o = [conn |-> f, res |-> "err", durable |-> {}]
    BY <1>5, Zenon DEF Refused
  <2>2. /\ Sound(f) /\ f.net = "up" /\ f.st = r.st /\ f.srv.work = r.srv.work /\ f.srv.ac = r.srv.ac
        /\ (r.srv.tx => f.srv.tx) /\ (r.srv.ac => f = r)
    BY ErrorSound
  <2>3. CASE q \in {"ac0", "ac1"}
    <3>1. o.conn = Lost(f) /\ o.res = "err" /\ o.durable = {}  BY <2>1, <2>3
    <3>2. Lost(f).net = "broken" /\ Lost(f).st = r.st  BY <2>2, LostSound
    <3> QED  BY <1>3, <2>3, <3>1, <3>2, Zenon DEF Failed
  <2>4. CASE q \notin {"ac0", "ac1"}
    <3>1. o.conn = f /\ o.res = "err" /\ o.durable = {}  BY <2>1, <2>4
    <3> QED  BY <1>3, <2>2, <2>4, <3>1, Zenon DEF Failed
  <2> QED  BY <2>3, <2>4, Zenon
<1> QED  BY <1>2, <1>4, <1>5, Zenon

\* A statement on a connection that is lost fails.
LEMMA LostExec ==
    ASSUME Quiet, NEW r, Sound(r), r.net = "broken", NEW q \in Sql, NEW s, NEW o \in Exec(r, q, s)
    PROVE  o.res = "err" /\ o.durable = {}
<1>1. Calm  BY DEF Quiet, Calm
<1>2. Unanswered(r, q, s, o)  BY <1>1, ExecCases DEF Answered, Refused
<1> QED  BY <1>2 DEF Unanswered

\* Recycle makes no write durable, and keeps no connection that is lost.
LEMMA QuietRecycle ==
    ASSUME Quiet, NEW r, Sound(r), NEW k \in Recycle(r), r.srv.work # {} => r.st.tx,
           r.net = "up" \/ (r.net = "broken" /\ ~r.st.ac)
    PROVE  k.durable = {} /\ (k.conn.live => k.conn.net = "up")
<1>1. Calm /\ ~Dead.live  BY DeadFacts DEF Quiet, Calm
<1>2. CASE r.closed
  <2>1. k.durable = {} /\ k.conn = [Dead EXCEPT !.net = IF r.net = "up" THEN "up" ELSE "none"]
    BY <1>2 DEF Recycle
  <2>2. k.conn.live = Dead.live  BY <2>1 DEF Dead, Fresh
  <2> QED  BY <1>1, <2>1, <2>2
<1>3. CASE ~r.closed
  <2>1. PICK o \in ResetConnection(r) :
          k = CASE o.res = "ok"    -> [conn |-> o.conn, to |-> "pool", durable |-> o.durable]
                [] o.res = "err"   -> [conn |-> Dead, to |-> "blank", durable |-> o.durable]
                [] o.res = "panic" -> [conn |-> o.conn, to |-> "lost", durable |-> o.durable]
    BY <1>3, Zenon DEF Recycle
  <2>2. o.res \in {"ok", "err"}  BY <1>1, <1>3, ResetFacts
  <2>3. /\ k.durable = o.durable
        /\ o.res = "ok" => k.conn = o.conn
        /\ o.res = "err" => k.conn = Dead
    BY <2>1, <2>2
  <2> DEFINE rolledBack == IF r.st.tx THEN Exec(r, "rollback", NoConn)
                           ELSE {[conn |-> r, res |-> "ok", durable |-> {}]}
  <2>4. PICK x \in rolledBack :
          o \in IF x.res # "ok" \/ x.conn.st.ac THEN {x} ELSE Exec(x.conn, "ac1", NoConn)
    BY Zenon DEF ResetConnection
  <2>5. /\ x.durable = {} /\ (x.res = "ok" => Sound(x.conn) /\ x.conn.srv.work = {})
        /\ x.res = "ok" => x.conn.net = "up" \/ (x.conn.net = "broken" /\ ~x.conn.st.ac)
    <3>1. CASE r.st.tx
      <4>1. x \in Exec(r, "rollback", NoConn) /\ "rollback" \in Sql  BY <2>4, <3>1 DEF Sql
      <4>2. CASE r.net = "up"
        <5>1. Durable(r.srv, "rollback", NoConn) = {}  BY DEF Durable
        <5>2. \A w \in Server(r.srv, "rollback", NoConn) : w.work = {}
          BY ConnParts, Zenon DEF Server, Sound, SrvType
        <5>3. Sound(x.conn) /\ (Failed(r, "rollback", x) \/ Done(r, "rollback", NoConn, x))
          BY <4>1, <4>2, QuietExec, Zenon
        <5> QED  BY <5>1, <5>2, <5>3, Zenon DEF Done, Failed
      <4>3. CASE r.net = "broken"
        <5>1. x.res = "err" /\ x.durable = {}  BY <4>1, <4>3, LostExec
        <5> QED  BY <5>1, Zenon
      <4> QED  BY <4>2, <4>3
    <3>2. CASE ~r.st.tx
      <4>1. x = [conn |-> r, res |-> "ok", durable |-> {}]  BY <2>4, <3>2
      <4> QED  BY <3>2, <4>1
    <3> QED  BY <3>1, <3>2
  <2>6. o.durable = {} /\ (o.res = "ok" => o.conn.net = "up")
    <3>1. CASE x.res # "ok" \/ x.conn.st.ac
      <4>1. o = x  BY <2>4, <3>1, Zenon
      <4> QED  BY <2>5, <3>1, <4>1
    <3>2. CASE x.res = "ok" /\ ~x.conn.st.ac
      <4>1. o \in Exec(x.conn, "ac1", NoConn) /\ "ac1" \in Sql  BY <2>4, <3>2 DEF Sql
      <4>2. CASE x.conn.net = "up"
        <5>1. Durable(x.conn.srv, "ac1", NoConn) = {}  BY <2>5, <3>2 DEF Durable
        <5>2. Failed(x.conn, "ac1", o) \/ Done(x.conn, "ac1", NoConn, o)
          BY <2>5, <3>2, <4>1, <4>2, QuietExec, Zenon
        <5> QED  BY <5>1, <5>2, Zenon DEF Done, Failed
      <4>3. CASE x.conn.net = "broken"
        <5>1. o.res = "err" /\ o.durable = {}  BY <2>5, <3>2, <4>1, <4>3, LostExec
        <5> QED  BY <5>1, Zenon
      <4> QED  BY <2>5, <3>2, <4>2, <4>3
    <3> QED  BY <3>1, <3>2
  <2> QED  BY <1>1, <2>2, <2>3, <2>6
<1> QED  BY <1>2, <1>3

-----------------------------------------------------------------------------
(* The steps that use, take and give back a connection.                    *)

\* A goroutine of a session goes on to another place.
LEMMA Goes ==
    ASSUME TypeOK, NEW s \in Sessions, NEW w, Goto(s, "cmd", w)
    PROVE  /\ at'[s]["cmd"] = w /\ at'[s]["wheel"] = at[s]["wheel"]
           /\ \A t \in Sessions : t # s => at'[t] = at[t]
<1>1. at \in [Sessions -> [Procs -> Places]] /\ "cmd" \in Procs /\ "wheel" \in Procs  BY DEF TypeOK, Procs
<1> QED  BY <1>1 DEF Goto

\* ... with another set of slices to visit.
LEMMA Tells ==
    ASSUME TypeOK, NEW s \in Sessions, NEW S, todo' = [todo EXCEPT ![s]["cmd"] = S]
    PROVE  /\ todo'[s]["cmd"] = S /\ todo'[s]["wheel"] = todo[s]["wheel"]
           /\ \A t \in Sessions : t # s => todo'[t] = todo[t]
<1>1. todo \in [Sessions -> [Procs -> SUBSET Slices]] /\ "cmd" \in Procs /\ "wheel" \in Procs
  BY DEF TypeOK, Procs
<1> QED  BY <1>1

\* It visits one of its slices, and goes on after the last.
LEMMA Visits ==
    ASSUME TypeOK, NEW s \in Sessions, NEW sl, NEW w, Visit(s, "cmd", sl, w)
    PROVE  /\ at'[s]["cmd"] \in {at[s]["cmd"], w} /\ at'[s]["wheel"] = at[s]["wheel"]
           /\ todo'[s]["wheel"] = todo[s]["wheel"]
           /\ \A t \in Sessions : t # s => at'[t] = at[t] /\ todo'[t] = todo[t]
<1>1. /\ todo'[s]["wheel"] = todo[s]["wheel"]
      /\ \A t \in Sessions : t # s => todo'[t] = todo[t]
  BY Tells DEF Visit
<1>2. Goto(s, "cmd", w) \/ UNCHANGED at  BY Zenon DEF Visit
<1> QED  BY <1>1, <1>2, Goes, Zenon

\* Only one session's row of a table changes.
LEMMA RowOnly ==
    ASSUME NEW V, NEW f \in [Sessions -> V], NEW s \in Sessions, NEW v
    PROVE  /\ [f EXCEPT ![s] = v][s] = v
           /\ \A t \in Sessions : t # s => [f EXCEPT ![s] = v][t] = f[t]
OBVIOUS

\* Only one entry of one session changes.
LEMMA EntryOnly ==
    ASSUME NEW V, NEW f \in [Sessions -> [Slices -> V]], NEW s \in Sessions, NEW sl \in Slices, NEW v
    PROVE  /\ \A tl \in Slices : [f EXCEPT ![s][sl] = v][s][tl] = IF tl = sl THEN v ELSE f[s][tl]
           /\ \A t \in Sessions : t # s => [f EXCEPT ![s][sl] = v][t] = f[t]
           /\ v = f[s][sl] => [f EXCEPT ![s][sl] = v] = f
OBVIOUS

\* A connection that no other session holds.
LEMMA OnlyOne ==
    ASSUME HInv, NEW s \in Sessions, NEW c \in Conns, NEW r, conn' = [conn EXCEPT ![c] = r],
           r.live => r.net = "up", \A t \in Sessions, sl \in Slices : t # s => ~Holds(t, sl, c)
    PROVE  Up' /\ Untouched(s) /\ conn'[c] = r /\ \A d \in Conns : d # c => conn'[d] = conn[d]
<1>1. conn \in [Conns -> ConnType]  BY DEF HInv, IInv, TypeOK
<1>2. conn'[c] = r /\ \A d \in Conns : d # c => conn'[d] = conn[d]  BY <1>1
<1>3. Up'  BY <1>2 DEF HInv, Up
<1>4. Untouched(s)  BY <1>2, Zenon DEF Untouched
<1> QED  BY <1>2, <1>3, <1>4

\* A connection that a session holds is no other session's.
LEMMA HeldAlone ==
    ASSUME IInv, NEW s \in Sessions, NEW sl \in Slices, NEW c \in Conns, Holds(s, sl, c)
    PROVE  \A t \in Sessions, tl \in Slices : t # s => ~Holds(t, tl, c)
BY Zenon DEF IInv, Pool, Leases

\* What a statement makes durable is a write of its session.
LEMMA DurableOwn ==
    ASSUME NEW who, NEW sl, MakeDurable(who, sl), NEW s \in Sessions, who \subseteq {s}
    PROVE  /\ \A t \in Sessions : t # s => applied'[t] = applied[t]
           /\ applied'[s] = IF s \in who THEN applied[s] \cup {sl} ELSE applied[s]
BY DEF MakeDurable

\* Outside a transaction every acknowledged write is durable.
LEMMA Settled ==
    ASSUME IInv, NEW s \in Sessions, History(s), txConns[s] = NoConns, Keeping(s)
    PROVE  acked[s] \subseteq applied[s]
<1>1. acked[s] \subseteq Slices  BY DEF IInv, TypeOK
<1>2. \A sl \in Slices : ~Waiting(s, sl)  BY NoConnAssumption DEF Waiting, NoConns
<1> QED  BY <1>1, <1>2 DEF History, Kept

\* A statement takes a connection outside a transaction (GetFromPool).
LEMMA GetFromPoolHistory ==
    ASSUME HInv, IInv', NEW s \in Sessions, GetFromPool(s)
    PROVE  HInv'
<1>0. IInv /\ Up /\ TypeOK /\ Shape(s) /\ History(s) /\ "cmd" \in Procs  BY DEF HInv, IInv, Procs
<1>1. at[s]["cmd"] = "getPool" /\ at[s]["cmd"] \in Busy  BY DEF GetFromPool, At, Busy
<1>2. ~IsInTransaction(s) /\ txConns[s] = NoConns  BY <1>0, <1>1, BusyFacts, Zenon DEF Shape, Leasing
<1>3. PICK c \in Conns : Available(c) /\ conn' = [conn EXCEPT ![c] = Taken(c)] /\ Got(s, c[1], c)
  BY Zenon DEF GetFromPool
<1>4. ~Held(c) /\ c[1] \in Slices /\ Sound(Taken(c)) /\ Taken(c).srv = Clean
  BY <1>0, <1>3, AvailableFree, Zenon
<1>5. Taken(c).net = "up"
  <2>1. CASE pooled[c] > 0  BY <1>0, <1>4, <2>1 DEF Taken, Up, Sound
  <2>2. CASE ~(pooled[c] > 0)  BY <2>2 DEF Taken, Fresh
  <2> QED  BY <2>1, <2>2
<1>6. \A t \in Sessions, sl \in Slices : t # s => ~Holds(t, sl, c)  BY <1>4 DEF Held
<1>7. Up' /\ Untouched(s) /\ conn'[c] = Taken(c) /\ \A d \in Conns : d # c => conn'[d] = conn[d]
  BY <1>3, <1>5, <1>6, OnlyOne, Zenon
<1>8. /\ Frame(s)
      /\ UNCHANGED <<op[s]["cmd"], clientTx[s], status[s], applied[s], acked[s], at[s]["wheel"], txConns[s]>>
      /\ at'[s]["cmd"] \in Busy
  BY <1>0, <1>3 DEF GetFromPool, Got, Goto, Frame, Elsewhere, Apart, Busy, TypeOK, sessionVars, clientVars, Procs
<1>9. \A sl \in Slices : sl # c[1] => pcs'[s][sl] = pcs[s][sl]  BY <1>0, <1>3 DEF Got, TypeOK
<1>10. pcs'[s][c[1]] = c  BY <1>0, <1>3, <1>4 DEF Got, TypeOK
<1>11. Client(s)' /\ Begun(s)' /\ (Keeping(s)' <=> Keeping(s))  BY <1>1, <1>8, StatementHistory, Zenon
<1>12. \A sl \in Slices, d \in Conns : NoConns[sl] # d  BY NoConnAssumption DEF NoConns
<1>13. Ours(s)'  BY <1>2, <1>8, <1>12, Zenon DEF Ours
<1>14. Plain(s)'
  <2>1. \A sl \in Slices, d \in Conns : pcs[s][sl] = d => conn[d].srv = Clean
    BY <1>0, <1>2, Zenon DEF History, Plain
  <2> QED  BY <1>4, <1>7, <1>9, <1>10, <2>1, ZenonT(40) DEF Plain
<1>15. Kept(s)'  BY <1>0, <1>2, <1>8, <1>11, Settled, Zenon DEF Kept
<1> QED  BY <1>7, <1>8, <1>11, <1>13, <1>14, <1>15, FromOwn DEF History

\* A statement on a connection of the transaction.
LEMMA ExecInTx ==
    ASSUME Quiet, NEW s \in Sessions, NEW r, Sound(r), r.net = "up", TxConn(s, r), NEW q \in {"read", "write"},
           NEW o \in Exec(r, q, s)
    PROVE  /\ o.res \in {"ok", "err"} /\ TxConn(s, o.conn) /\ (o.conn.srv.ac <=> r.srv.ac)
           /\ o.conn.net = "up" /\ o.durable = {}
           /\ s \in r.srv.work \/ (q = "write" /\ o.res = "ok") => s \in o.conn.srv.work
<1>1. /\ r.srv \in SrvType /\ (~r.srv.tx => r.srv.work = {}) /\ q \in Sql
      /\ r.srv.work \subseteq {s} /\ (r.srv.tx \/ ~r.srv.ac) /\ (r.srv.work # {} => r.st.tx)
  BY ConnParts, Zenon DEF Sound, Tidy, Sql, TxConn
<1>2. /\ Sound(o.conn) /\ o.res \in {"ok", "err"}
      /\ o.res = "ok" => /\ o.conn.net = "up" /\ o.conn.srv \in Server(r.srv, q, s)
                         /\ o.durable = Durable(r.srv, q, s) /\ (o.conn.st.tx <=> o.conn.srv.tx)
      /\ o.res = "err" => /\ o.durable = {} /\ o.conn.st = r.st
                          /\ o.conn.net = "up" /\ o.conn.srv.work = r.srv.work /\ o.conn.srv.ac = r.srv.ac
                          /\ r.srv.tx => o.conn.srv.tx
  <2>1. /\ Sound(o.conn)
        /\ Failed(r, q, o) \/ (Done(r, q, s, o) /\ (o.conn.st.tx <=> o.conn.srv.tx))
    BY <1>1, QuietExec, Zenon
  <2>2. q \notin {"ac0", "ac1"}  OBVIOUS
  <2> QED  BY <2>1, <2>2, Zenon DEF Done, Failed
<1>3. CASE o.res = "ok"
  <2>1. Durable(r.srv, q, s) = {}  BY <1>1 DEF Durable
  <2>2. \A w \in Server(r.srv, q, s) :
          /\ w.work \subseteq {s} /\ (w.tx \/ ~w.ac) /\ (w.work # {} => w.tx) /\ (w.ac <=> r.srv.ac)
          /\ s \in r.srv.work \/ q = "write" => s \in w.work
    <3>1. CASE q = "write"
      <4>1. \A w \in Server(r.srv, q, s) : w = [r.srv EXCEPT !.tx = TRUE, !.work = @ \cup {s}]
        BY <1>1, <3>1 DEF Server
      <4>2. \A w \in Server(r.srv, q, s) : w.tx = TRUE /\ w.work = r.srv.work \cup {s} /\ w.ac = r.srv.ac
        BY <1>1, <4>1, Zenon DEF SrvType
      <4> QED  BY <1>1, <4>2, Zenon
    <3>2. CASE q = "read"
      <4>1. \A w \in Server(r.srv, q, s) : w = [r.srv EXCEPT !.tx = @ \/ ~r.srv.ac]
        BY <3>2 DEF Server
      <4> QED  BY <1>1, <3>2, <4>1 DEF SrvType
    <3> QED  BY <3>1, <3>2, Zenon
  <2> QED  BY <1>2, <1>3, <2>1, <2>2, Zenon DEF TxConn
<1>4. CASE o.res = "err"
  BY <1>1, <1>2, <1>4, Zenon DEF TxConn
<1> QED  BY <1>2, <1>3, <1>4, Zenon

\* A statement outside a transaction.
LEMMA ExecPlain ==
    ASSUME Quiet, NEW s \in Sessions, NEW r, Sound(r), r.net = "up", r.srv = Clean, NEW q \in {"read", "write"},
           NEW o \in Exec(r, q, s)
    PROVE  /\ o.conn.srv = Clean /\ o.conn.net = "up"
           /\ o.durable \subseteq {s} /\ (q = "write" /\ o.res = "ok" => o.durable = {s})
<1>1. q \in Sql /\ Clean.ac = TRUE /\ Clean.tx = FALSE  BY DEF Sql, Clean
<1>2. /\ o.res \in {"ok", "err"}
      /\ o.res = "ok" => /\ o.conn.net = "up" /\ o.conn.srv \in Server(Clean, q, s)
                         /\ o.durable = Durable(Clean, q, s)
      /\ o.res = "err" => o.durable = {} /\ o.conn.net = "up" /\ o.conn.srv = Clean
  <2>1. Failed(r, q, o) \/ Done(r, q, s, o)  BY <1>1, QuietExec, Zenon
  <2>2. q \notin {"ac0", "ac1"}  OBVIOUS
  <2> QED  BY <1>1, <2>1, <2>2, Zenon DEF Done, Failed
<1>3. Durable(Clean, q, s) = IF q = "write" THEN {s} ELSE {}  BY <1>1 DEF Durable
<1>4. \A w \in Server(Clean, q, s) : w = Clean
  <2>1. CASE q = "write"  BY <1>1, <2>1 DEF Server
  <2>2. CASE q = "read"
    <3>1. \A w \in Server(Clean, q, s) : w = [Clean EXCEPT !.tx = @ \/ ~Clean.ac]  BY <2>2 DEF Server
    <3>2. (Clean.tx \/ ~Clean.ac) = FALSE  BY <1>1
    <3>3. Clean \in SrvType  BY DEF Clean, SrvType
    <3>4. [Clean EXCEPT !.tx = FALSE] = Clean  BY <1>1, <3>3 DEF SrvType
    <3> QED  BY <3>1, <3>2, <3>4, Zenon
  <2> QED  BY <2>1, <2>2
<1> QED  BY <1>2, <1>3, <1>4

\* One of the statement's connections runs it (Execute).
LEMMA ExecuteHistory ==
    ASSUME Quiet, HInv, IInv', NEW s \in Sessions, Execute(s)
    PROVE  HInv'
<1>0. IInv /\ Up /\ TypeOK /\ Shape(s) /\ History(s) /\ "cmd" \in Procs  BY DEF HInv, IInv, Procs
<1>1. at[s]["cmd"] = "exec" /\ at[s]["cmd"] \in Busy  BY DEF Execute, At, Busy
<1>2. PICK q, sl, o :
        /\ q \in {"read", "write"} /\ sl \in todo[s]["cmd"] /\ o \in Exec(conn[pcs[s][sl]], q, s)
        /\ conn' = [conn EXCEPT ![pcs[s][sl]] = o.conn]
        /\ MakeDurable(o.durable, sl)
        /\ acked' = IF q = "write" /\ o.res = "ok" THEN [acked EXCEPT ![s] = @ \cup {sl}] ELSE acked
        /\ reply' = IF o.res = "ok" THEN reply ELSE [reply EXCEPT ![s] = "err"]
        /\ Visit(s, "cmd", sl, "recycle")
  <2>1. PICK q : q = IF op[s]["cmd"] = "write" THEN "write" ELSE "read"  OBVIOUS
  <2>2. q \in {"read", "write"}  BY <2>1
  <2> QED  BY <2>1, <2>2, Zenon DEF Execute
<1>3. PICK c : c = pcs[s][sl]  OBVIOUS
<1>4. sl \in Slices /\ c \in Conns /\ c[1] = sl
  <2>1. sl \in Leased(s)  BY <1>0, <1>1, <1>2, Zenon DEF Shape, Leasing
  <2>2. sl \in Slices /\ c # NoConn  BY <1>3, <2>1 DEF Leased
  <2> QED  BY <1>0, <1>3, <2>2 DEF TypeOK
<1>5. Holds(s, sl, c)  BY <1>3, Zenon DEF Holds
<1>6. Sound(conn[c]) /\ conn[c].net = "up"  BY <1>0, <1>4, <1>5, HeldSound, Zenon DEF Up, Sound
<1>7. conn' = [conn EXCEPT ![c] = o.conn] /\ o \in Exec(conn[c], q, s)  BY <1>2, <1>3
<1>8. /\ UNCHANGED <<op[s]["cmd"], clientTx[s], status[s], pcs[s], at[s]["wheel"], txConns[s]>>
      /\ at'[s]["cmd"] \in Busy \cup {"reply"} /\ at'[s]["cmd"] # "finish" /\ Alone(s, "cmd")
      /\ Elsewhere(s)
  <2>1. UNCHANGED <<status, txConns, lock, pcs, op, clientTx>>  BY Zenon DEF Execute, sessionVars
  <2>2. /\ at'[s]["cmd"] \in {"exec", "recycle"} /\ at'[s]["wheel"] = at[s]["wheel"]
        /\ todo'[s]["wheel"] = todo[s]["wheel"]
        /\ \A t \in Sessions : t # s => at'[t] = at[t] /\ todo'[t] = todo[t]
    BY <1>0, <1>1, <1>2, Visits, Zenon
  <2>3. \A t \in Sessions : t # s => reply'[t] = reply[t] /\ acked'[t] = acked[t]
    <3>1. reply \in [Sessions -> {"ok", "err"}] /\ acked \in [Sessions -> SUBSET Slices]  BY <1>0 DEF TypeOK
    <3> QED  BY <1>2, <3>1, RowOnly, Zenon
  <2>4. at'[s]["cmd"] \in Busy \cup {"reply"} /\ at'[s]["cmd"] # "finish"  BY <2>2 DEF Busy
  <2>5. Alone(s, "cmd")  BY <2>1, <2>2 DEF Alone, Procs
  <2>6. Elsewhere(s)  BY <2>1, <2>2, <2>3, Zenon DEF Elsewhere, Apart
  <2> QED  BY <2>1, <2>2, <2>4, <2>5, <2>6, Zenon
<1>9. acked'[s] = IF q = "write" /\ o.res = "ok" THEN acked[s] \cup {sl} ELSE acked[s]
  BY <1>0, <1>2 DEF TypeOK
<1>10. IsInTransaction(s)' <=> IsInTransaction(s)  BY <1>8, Zenon DEF IsInTransaction, IsAutoCommit
<1>11. (\A tl : Released(s, tl)' <=> Released(s, tl)) /\ (Ended(s)' <=> Ended(s))
  BY <1>0, <1>1, <1>8, Outside, Zenon DEF Alone, Busy
<1>12. acked[s] \subseteq Slices /\ \A tl \in Slices, d \in Conns : txConns[s][tl] = d => d[1] = tl
  BY <1>0 DEF TypeOK
<1>13. CASE IsInTransaction(s)
  <2>1. txConns[s][sl] = c /\ ~Released(s, sl)
    <3>1. pcs[s][sl] = txConns[s][sl]
      BY <1>0, <1>1, <1>2, <1>13, Zenon DEF Shape, Leasing
    <3>2. ~Letting(s, sl) /\ lock[s] \in Procs \cup {"free"}  BY <1>0, <1>1, BusyFacts DEF Letting, TypeOK
    <3> QED  BY <1>0, <1>3, <3>1, <3>2, ReleasedIs, Zenon DEF Shape
  <2>2. TxConn(s, conn[c]) /\ (conn[c].srv.ac => status[s].inTrans \/ Ended(s))
    BY <1>0, <1>4, <2>1, Zenon DEF History, Ours
  <2>3. /\ TxConn(s, o.conn) /\ (o.conn.srv.ac <=> conn[c].srv.ac) /\ o.conn.net = "up" /\ o.durable = {}
        /\ s \in conn[c].srv.work \/ (q = "write" /\ o.res = "ok") => s \in o.conn.srv.work
    BY <1>2, <1>6, <1>7, <2>2, ExecInTx, Zenon
  <2>4. Up' /\ Untouched(s) /\ conn'[c] = o.conn /\ \A d \in Conns : d # c => conn'[d] = conn[d]
    <3>1. \A t \in Sessions, tl \in Slices : t # s => ~Holds(t, tl, c)  BY <1>0, <1>4, <1>5, HeldAlone, Zenon
    <3> QED  BY <1>4, <1>7, <2>3, <3>1, OnlyOne, Zenon
  <2>5. applied'[s] = applied[s] /\ \A t \in Sessions : t # s => applied'[t] = applied[t]
    BY <1>2, <2>3, DurableOwn, Zenon
  <2>6. Client(s)' /\ Begun(s)' /\ Keeping(s)  BY <1>1, <1>8, <2>5, StatementHistory, Zenon
  <2>7. Frame(s)  BY <1>8, <2>5, Zenon DEF Frame
  <2>8. Ours(s)'  BY <1>0, <1>8, <1>11, <2>2, <2>3, <2>4, Zenon DEF History, Ours
  <2>9. Plain(s)'  BY <1>10, <1>13 DEF Plain
  <2>10. ASSUME NEW tl \in Slices, Waiting(s, tl) \/ (tl = sl /\ q = "write" /\ o.res = "ok")
         PROVE  Waiting(s, tl)'
    <3>1. CASE tl = sl
      <4>1. s \in conn'[c].srv.work  BY <2>1, <2>3, <2>4, <2>10, <3>1, Zenon DEF Waiting
      <4> QED  BY <1>4, <1>8, <1>11, <2>1, <3>1, <4>1, Zenon DEF Waiting
    <3>2. CASE tl # sl
      <4>1. PICK d \in Conns : txConns[s][tl] = d /\ ~Released(s, tl) /\ s \in conn[d].srv.work
        BY <2>10, <3>2 DEF Waiting
      <4>2. d # c  BY <1>4, <1>12, <3>2, <4>1
      <4> QED  BY <1>8, <1>11, <2>4, <4>1, <4>2, Zenon DEF Waiting
    <3> QED  BY <3>1, <3>2
  <2>11. Kept(s)'
    <3>1. \A tl \in acked[s] : tl \in applied[s] \/ Waiting(s, tl)  BY <1>0, <2>6, Zenon DEF History, Kept
    <3>2. \A tl \in acked'[s] : tl \in acked[s] \/ (tl = sl /\ q = "write" /\ o.res = "ok")  BY <1>9
    <3> QED  BY <1>4, <1>12, <2>5, <2>10, <3>1, <3>2 DEF Kept
  <2> QED  BY <2>4, <2>6, <2>7, <2>8, <2>9, <2>11, FromOwn DEF History
<1>14. CASE ~IsInTransaction(s)
  <2>1. txConns[s] = NoConns  BY <1>0, <1>1, <1>14, BusyFacts, Zenon
  <2>2. conn[c].srv = Clean  BY <1>0, <1>3, <1>4, <1>14 DEF History, Plain
  <2>3. /\ o.conn.srv = Clean /\ o.conn.net = "up"
        /\ o.durable \subseteq {s} /\ (q = "write" /\ o.res = "ok" => o.durable = {s})
    <3>1. q \in {"read", "write"} /\ o \in Exec(conn[c], q, s)  BY <1>2, <1>7, Zenon
    <3> QED  BY <1>6, <2>2, <3>1, ExecPlain
  <2>4. Up' /\ Untouched(s) /\ conn'[c] = o.conn /\ \A d \in Conns : d # c => conn'[d] = conn[d]
    <3>1. \A t \in Sessions, tl \in Slices : t # s => ~Holds(t, tl, c)  BY <1>0, <1>4, <1>5, HeldAlone, Zenon
    <3> QED  BY <1>4, <1>7, <2>3, <3>1, OnlyOne, Zenon
  <2>5. /\ applied'[s] = IF s \in o.durable THEN applied[s] \cup {sl} ELSE applied[s]
        /\ \A t \in Sessions : t # s => applied'[t] = applied[t]
    <3>1. MakeDurable(o.durable, sl) /\ o.durable \subseteq {s}  BY <1>2, <2>3
    <3> QED  BY <3>1, DurableOwn, Zenon
  <2>6. Client(s)' /\ Begun(s)' /\ Keeping(s)  BY <1>1, <1>8, <1>14, StatementHistory, Zenon
  <2>7. Frame(s)  BY <1>8, <2>5, Zenon DEF Frame
  <2>8. Ours(s)'
    <3>1. \A tl \in Slices : txConns'[s][tl] = NoConn  BY <1>8, <2>1 DEF NoConns
    <3> QED  BY <3>1, NoConnAssumption, Zenon DEF Ours
  <2>9. Plain(s)'  BY <1>0, <1>8, <1>14, <2>3, <2>4, Zenon DEF History, Plain
  <2>10. Kept(s)'
    <3>1. acked[s] \subseteq applied[s]  BY <1>0, <2>1, <2>6, Settled, Zenon
    <3> QED  BY <1>9, <2>3, <2>5, <3>1, Zenon DEF Kept
  <2> QED  BY <2>4, <2>6, <2>7, <2>8, <2>9, <2>10, FromOwn DEF History
<1> QED  BY <1>13, <1>14

\* A statement outside a transaction gives a connection back (PutConn).
LEMMA PutConnHistory ==
    ASSUME Quiet, HInv, IInv', NEW s \in Sessions, PutConn(s)
    PROVE  HInv'
<1>0. IInv /\ Up /\ TypeOK /\ Shape(s) /\ History(s) /\ "cmd" \in Procs  BY DEF HInv, IInv, Procs
<1>1. at[s]["cmd"] = "put" /\ at[s]["cmd"] \in Busy  BY DEF PutConn, At, Busy
<1>2. ~IsInTransaction(s) /\ txConns[s] = NoConns  BY <1>0, <1>1, BusyFacts, Zenon DEF Shape, Leasing
<1>3. PICK sl, k :
        /\ sl \in todo[s]["cmd"] /\ k \in Recycle(conn[pcs[s][sl]])
        /\ conn' = [conn EXCEPT ![pcs[s][sl]] = k.conn]
        /\ MakeDurable(k.durable, sl)
        /\ k.to # "lost" => /\ Visit(s, "cmd", sl, "reply")
                            /\ pcs' = [pcs EXCEPT ![s][sl] = NoConn]
                            /\ UNCHANGED reply
  BY Zenon DEF PutConn
<1>4. PICK c : c = pcs[s][sl]  OBVIOUS
<1>5. sl \in Slices /\ c \in Conns
  <2>1. sl \in Leased(s)  BY <1>0, <1>1, <1>3 DEF Shape, Leasing
  <2>2. sl \in Slices /\ c # NoConn  BY <1>4, <2>1 DEF Leased
  <2> QED  BY <1>0, <1>4, <2>2 DEF TypeOK
<1>6. Holds(s, sl, c)  BY <1>4, Zenon DEF Holds
<1>7. Sound(conn[c]) /\ conn[c].net = "up"  BY <1>0, <1>5, <1>6, HeldSound, Zenon DEF Up, Sound
<1>8. conn' = [conn EXCEPT ![c] = k.conn] /\ k \in Recycle(conn[c])  BY <1>3, <1>4
<1>9. k.durable = {} /\ (k.conn.live => k.conn.net = "up") /\ k.to # "lost"
  <2>1. conn[c].srv.work = {}  BY <1>0, <1>2, <1>4, <1>5 DEF History, Plain, Clean
  <2>2. Calm  BY DEF Quiet, Calm
  <2>3. k.to # "lost"  BY <1>7, <1>8, <2>2, RecycleFacts
  <2> QED  BY <1>7, <1>8, <2>1, <2>3, QuietRecycle
<1>10. /\ UNCHANGED <<op[s]["cmd"], clientTx[s], status[s], acked[s], at[s]["wheel"], txConns[s]>>
       /\ at'[s]["cmd"] \in Busy \cup {"reply"}
       /\ \A tl \in Slices : pcs'[s][tl] = IF tl = sl THEN NoConn ELSE pcs[s][tl]
       /\ Elsewhere(s)
  <2>1. Visit(s, "cmd", sl, "reply") /\ pcs' = [pcs EXCEPT ![s][sl] = NoConn] /\ UNCHANGED reply
    BY <1>3, <1>9
  <2>2. UNCHANGED <<status, txConns, lock, op, clientTx, acked>>  BY Zenon DEF PutConn, sessionVars
  <2>3. /\ at'[s]["cmd"] \in {"put", "reply"} /\ at'[s]["wheel"] = at[s]["wheel"]
        /\ \A t \in Sessions : t # s => at'[t] = at[t] /\ todo'[t] = todo[t]
    BY <1>0, <1>1, <2>1, Visits, Zenon
  <2>4. at'[s]["cmd"] \in Busy \cup {"reply"}  BY <2>3 DEF Busy
  <2>5. /\ \A tl \in Slices : pcs'[s][tl] = IF tl = sl THEN NoConn ELSE pcs[s][tl]
        /\ \A t \in Sessions : t # s => pcs'[t] = pcs[t]
    <3>1. pcs \in [Sessions -> [Slices -> Conns \cup {NoConn}]]  BY <1>0 DEF TypeOK
    <3>2. pcs' = [pcs EXCEPT ![s][sl] = NoConn]  BY <2>1, Zenon
    <3> QED  BY <1>5, <3>1, <3>2
  <2>6. Elsewhere(s)  BY <2>1, <2>2, <2>3, <2>5, Zenon DEF Elsewhere, Apart
  <2> QED  BY <2>2, <2>3, <2>4, <2>5, <2>6, Zenon
<1>11. applied'[s] = applied[s] /\ \A t \in Sessions : t # s => applied'[t] = applied[t]
  BY <1>3, <1>9, DurableOwn, ZenonT(40)
<1>12. Up' /\ Untouched(s) /\ conn'[c] = k.conn /\ \A d \in Conns : d # c => conn'[d] = conn[d]
  <2>1. \A t \in Sessions, tl \in Slices : t # s => ~Holds(t, tl, c)  BY <1>0, <1>5, <1>6, HeldAlone, Zenon
  <2> QED  BY <1>5, <1>8, <1>9, <2>1, OnlyOne, Zenon
<1>13. Client(s)' /\ Begun(s)' /\ Keeping(s)  BY <1>1, <1>10, <1>11, StatementHistory, Zenon
<1>14. Frame(s)  BY <1>10, <1>11, Zenon DEF Frame
<1>15. Ours(s)'
  <2>1. \A tl \in Slices : txConns'[s][tl] = NoConn  BY <1>2, <1>10 DEF NoConns
  <2> QED  BY <2>1, NoConnAssumption, Zenon DEF Ours
<1>16. Plain(s)'
  <2>1. \A tl \in Slices, d \in Conns : pcs[s][tl] = d => conn[d].srv = Clean /\ d[1] = tl
    <3>1. \A tl \in Slices, d \in Conns : pcs[s][tl] = d => conn[d].srv = Clean
      BY <1>0, <1>2, Zenon DEF History, Plain
    <3>2. \A tl \in Slices, d \in Conns : pcs[s][tl] = d => d[1] = tl  BY <1>0, Own, Zenon DEF Fits
    <3> QED  BY <3>1, <3>2
  <2>2. \A tl \in Slices, d \in Conns : pcs'[s][tl] = d => tl # sl /\ pcs[s][tl] = d
    BY <1>10, NoConnAssumption, Zenon
  <2>3. \A tl \in Slices, d \in Conns : pcs'[s][tl] = d => d # c /\ conn[d].srv = Clean
    BY <1>4, <1>5, <2>1, <2>2
  <2> QED  BY <1>12, <2>3, Zenon DEF Plain
<1>17. Kept(s)'  BY <1>0, <1>2, <1>10, <1>11, <1>13, Settled, Zenon DEF Kept
<1> QED  BY <1>12, <1>13, <1>14, <1>15, <1>16, <1>17, FromOwn DEF History

\* BEGIN, or SET autocommit = 0, on a connection that comes from the pool.
LEMMA OpenTx ==
    ASSUME Quiet, NEW s \in Sessions, NEW r, Sound(r), r.net = "up", r.srv = Clean, NEW q \in {"begin", "ac0"},
           NEW o \in Exec(r, q, s)
    PROVE  /\ o.res \in {"ok", "err"} /\ o.durable = {}
           /\ o.res = "ok" => /\ o.conn.net = "up" /\ TxConn(s, o.conn)
                              /\ o.conn.srv.ac => q = "begin"
<1>1. q \in Sql /\ Clean.ac = TRUE /\ Clean.tx = FALSE /\ Clean.work = {} /\ Clean \in SrvType
  BY Zenon DEF Sql, Clean, SrvType
<1>2. /\ o.res \in {"ok", "err"}
      /\ o.res = "ok" => /\ o.conn.net = "up" /\ o.conn.srv \in Server(Clean, q, s)
                         /\ o.durable = Durable(Clean, q, s)
      /\ o.res = "err" => o.durable = {}
  <2>1. Failed(r, q, o) \/ Done(r, q, s, o)  BY <1>1, QuietExec, Zenon
  <2> QED  BY <2>1, Zenon DEF Done, Failed
<1>3. Durable(Clean, q, s) = {}  BY <1>1 DEF Durable
<1>4. \A w \in Server(Clean, q, s) : w.work = {} /\ (w.tx \/ ~w.ac) /\ (w.ac => q = "begin")
  <2>1. CASE q = "begin"
    <3>1. \A w \in Server(Clean, q, s) : w = [Clean EXCEPT !.tx = TRUE, !.work = {}]  BY <2>1 DEF Server
    <3> QED  BY <1>1, <2>1, <3>1, Zenon DEF SrvType
  <2>2. CASE q = "ac0"
    <3>1. \A w \in Server(Clean, q, s) : w = [Clean EXCEPT !.ac = FALSE]  BY <2>2 DEF Server
    <3> QED  BY <1>1, <2>2, <3>1 DEF SrvType
  <2> QED  BY <2>1, <2>2, Zenon
<1> QED  BY <1>2, <1>3, <1>4, Zenon DEF TxConn

\* A connection taken from the pool.
LEMMA TakenUp ==
    ASSUME HInv, NEW s \in Sessions, NEW c \in Conns, Available(c)
    PROVE  /\ Sound(Taken(c)) /\ Taken(c).srv = Clean /\ Taken(c).net = "up" /\ c[1] \in Slices
           /\ \A t \in Sessions, sl \in Slices : ~Holds(t, sl, c)
<1>1. ~Held(c) /\ c[1] \in Slices /\ Sound(Taken(c)) /\ Taken(c).srv = Clean  BY AvailableFree DEF HInv
<1>2. Taken(c).net = "up"
  <2>1. CASE pooled[c] > 0  BY <1>1, <2>1 DEF Taken, HInv, Up, Sound
  <2>2. CASE ~(pooled[c] > 0)  BY <2>2, Zenon DEF Taken, Fresh
  <2> QED  BY <2>1, <2>2
<1>3. \A t \in Sessions, sl \in Slices : ~Holds(t, sl, c)  BY <1>1, Zenon DEF Held
<1> QED  BY <1>1, <1>2, <1>3

\* A statement in a transaction gets the connection of the transaction, or a
\* new one on which a transaction is begun (GetTransactionConn).
LEMMA GetTransactionConnHistory ==
    ASSUME Quiet, HInv, IInv', NEW s \in Sessions, GetTransactionConn(s)
    PROVE  HInv'
<1>0. IInv /\ Up /\ TypeOK /\ Shape(s) /\ History(s) /\ "cmd" \in Procs  BY DEF HInv, IInv, Procs
<1>1. at[s]["cmd"] = "getTx" /\ at[s]["cmd"] \in Busy /\ at[s]["cmd"] # "finish" /\ at[s]["wheel"] = "idle"
  BY <1>0, BusyFacts, Zenon DEF GetTransactionConn, At, Busy
<1>2. UNCHANGED <<status, lock, closed, op, clientTx, acked, crashed>>  BY Zenon DEF GetTransactionConn
<1>3. IsInTransaction(s) /\ (IsInTransaction(s)' <=> IsInTransaction(s))
  BY <1>0, <1>1, <1>2, Zenon DEF Shape, Leasing, IsInTransaction, IsAutoCommit
<1>4. \A sl \in Slices : ~Released(s, sl)
  <2>1. \A sl : ~Letting(s, sl)  BY <1>0, <1>1, BusyFacts, Zenon DEF Letting
  <2>2. lock[s] \in Procs \cup {"free"}  BY <1>0 DEF TypeOK
  <2> QED  BY <1>0, <2>1, <2>2, ReleasedIs, Zenon DEF Shape
<1>5. ASSUME NEW sl \in Slices, NEW c, Got(s, sl, c), UNCHANGED reply, NEW d,
             txConns' = [txConns EXCEPT ![s][sl] = d]
      PROVE  /\ Alone(s, "cmd") /\ at'[s]["cmd"] \in Busy
             /\ Elsewhere(s)
  <2>1. PICK S, w : /\ w \in {"exec", "get"} /\ Goto(s, "cmd", w) /\ todo' = [todo EXCEPT ![s]["cmd"] = S]
                    /\ pcs' = [pcs EXCEPT ![s][sl] = c]
    BY <1>5, Zenon DEF Got
  <2>2. /\ at'[s]["cmd"] = w /\ at'[s]["wheel"] = at[s]["wheel"] /\ todo'[s]["wheel"] = todo[s]["wheel"]
        /\ \A t \in Sessions : t # s => at'[t] = at[t] /\ todo'[t] = todo[t]
    <3>1. Goto(s, "cmd", w) /\ todo' = [todo EXCEPT ![s]["cmd"] = S]  BY <2>1, Zenon
    <3>2. at'[s]["cmd"] = w /\ at'[s]["wheel"] = at[s]["wheel"] /\ \A t \in Sessions : t # s => at'[t] = at[t]
      BY <1>0, <3>1, Goes, Zenon
    <3>3. todo'[s]["wheel"] = todo[s]["wheel"] /\ \A t \in Sessions : t # s => todo'[t] = todo[t]
      BY <1>0, <3>1, Tells
    <3> QED  BY <3>2, <3>3, Zenon
  <2>3. \A t \in Sessions : t # s => pcs'[t] = pcs[t] /\ txConns'[t] = txConns[t]
    <3>1. /\ pcs \in [Sessions -> [Slices -> Conns \cup {NoConn}]]
          /\ txConns \in [Sessions -> [Slices -> Conns \cup {NoConn}]]
      BY <1>0 DEF TypeOK
    <3> QED  BY <1>5, <2>1, <3>1, EntryOnly, Zenon
  <2>4. Alone(s, "cmd") /\ at'[s]["cmd"] \in Busy  BY <1>2, <2>1, <2>2 DEF Alone, Procs, Busy
  <2>5. Elsewhere(s)  BY <1>2, <1>5, <2>2, <2>3, Zenon DEF Elsewhere, Apart
  <2> QED  BY <2>4, <2>5
<1>6. ASSUME Refuse(s, "recycle"), UNCHANGED <<txConns, pcs>>
      PROVE  /\ Alone(s, "cmd") /\ at'[s]["cmd"] \in Busy
             /\ Elsewhere(s)
  <2>1. /\ at'[s]["cmd"] = "recycle" /\ at'[s]["wheel"] = at[s]["wheel"] /\ todo'[s]["wheel"] = todo[s]["wheel"]
        /\ \A t \in Sessions : t # s => at'[t] = at[t] /\ todo'[t] = todo[t]
    <3>1. Goto(s, "cmd", "recycle") /\ todo' = [todo EXCEPT ![s]["cmd"] = {}]  BY <1>6, Zenon DEF Refuse
    <3>2. /\ at'[s]["cmd"] = "recycle" /\ at'[s]["wheel"] = at[s]["wheel"]
          /\ \A t \in Sessions : t # s => at'[t] = at[t]
      BY <1>0, <3>1, Goes, Zenon
    <3>3. todo'[s]["wheel"] = todo[s]["wheel"] /\ \A t \in Sessions : t # s => todo'[t] = todo[t]
      BY <1>0, <3>1, Tells
    <3> QED  BY <3>2, <3>3, Zenon
  <2>2. \A t \in Sessions : t # s => reply'[t] = reply[t]
    <3>1. reply \in [Sessions -> {"ok", "err"}]  BY <1>0 DEF TypeOK
    <3> QED  BY <1>6, <3>1, RowOnly, Zenon DEF Refuse
  <2>3. Alone(s, "cmd") /\ at'[s]["cmd"] \in Busy  BY <1>2, <2>1 DEF Alone, Procs, Busy
  <2>4. Elsewhere(s)  BY <1>2, <1>6, <2>1, <2>2, Zenon DEF Elsewhere, Apart
  <2> QED  BY <2>3, <2>4
<1>7. ASSUME Alone(s, "cmd"), at'[s]["cmd"] \in Busy, applied'[s] = applied[s]
      PROVE  /\ Client(s)' /\ Begun(s)' /\ Keeping(s) /\ Plain(s)'
             /\ (\A tl : Released(s, tl)' <=> Released(s, tl)) /\ (Ended(s)' <=> Ended(s))
  <2>1. at'[s]["wheel"] = at[s]["wheel"] /\ at'[s]["cmd"] # "finish"  BY <1>7, Zenon DEF Alone, Procs, Busy
  <2>2. Client(s)' /\ Begun(s)' /\ Keeping(s)  BY <1>1, <1>2, <1>7, <2>1, StatementHistory, Zenon
  <2>3. Plain(s)'  BY <1>3, Zenon DEF Plain
  <2>4. (\A tl : Released(s, tl)' <=> Released(s, tl)) /\ (Ended(s)' <=> Ended(s))
    BY <1>0, <1>1, <1>7, <2>1, Outside, Zenon DEF Alone
  <2> QED  BY <2>2, <2>3, <2>4
<1>8. /\ acked[s] \subseteq Slices /\ todo[s]["cmd"] \subseteq Slices
      /\ txConns \in [Sessions -> [Slices -> Conns \cup {NoConn}]]
  BY <1>0 DEF TypeOK
<1>9. ASSUME NEW sl \in todo[s]["cmd"], Got(s, sl, txConns[s][sl]), UNCHANGED <<txConns, reply, poolVars, applied>>
      PROVE  HInv'
  <2>1. sl \in Slices /\ txConns' = [txConns EXCEPT ![s][sl] = txConns[s][sl]]
    BY <1>8, <1>9
  <2>2. /\ Alone(s, "cmd") /\ at'[s]["cmd"] \in Busy
        /\ Elsewhere(s)
    BY <1>5, <1>9, <2>1, Zenon
  <2>3. /\ Client(s)' /\ Begun(s)' /\ Keeping(s) /\ Plain(s)'
        /\ (\A tl : Released(s, tl)' <=> Released(s, tl)) /\ (Ended(s)' <=> Ended(s))
    BY <1>7, <1>9, <2>2, Zenon
  <2>4. conn' = conn /\ txConns' = txConns /\ applied' = applied  BY <1>9, Zenon DEF poolVars
  <2>5. Frame(s) /\ Up' /\ Untouched(s)  BY <1>0, <2>2, <2>4, Zenon DEF Frame, Up, Untouched
  <2>6. Ours(s)'  BY <1>0, <1>2, <2>3, <2>4, Zenon DEF History, Ours
  <2>7. Kept(s)'
    <3>1. \A tl : Waiting(s, tl)' <=> Waiting(s, tl)  BY <2>3, <2>4, Zenon DEF Waiting
    <3> QED  BY <1>0, <1>2, <2>3, <2>4, <3>1, Zenon DEF History, Kept
  <2> QED  BY <2>3, <2>5, <2>6, <2>7, FromOwn, Zenon DEF History
<1> DEFINE q == IF IsAutoCommit(s) THEN "begin" ELSE "ac0"
<1>10. q \in {"begin", "ac0"} /\ (q = "begin" => status[s].inTrans)
  BY <1>3, Zenon DEF IsInTransaction
<1> HIDE DEF q
<1>11. ASSUME NEW c \in Conns, c[1] \in todo[s]["cmd"], txConns[s][c[1]] = NoConn, Available(c),
              NEW o \in Exec(Taken(c), q, s), MakeDurable(o.durable, c[1]),
              \/ /\ o.res = "ok" /\ conn' = [conn EXCEPT ![c] = o.conn]
                 /\ txConns' = [txConns EXCEPT ![s][c[1]] = c] /\ Got(s, c[1], c) /\ UNCHANGED reply
              \/ /\ o.res = "err" /\ conn' = [conn EXCEPT ![c] = Dead]
                 /\ Refuse(s, "recycle") /\ UNCHANGED <<txConns, pcs>>
              \/ o.res = "panic"
       PROVE  HInv'
  <2>1. /\ Sound(Taken(c)) /\ Taken(c).srv = Clean /\ Taken(c).net = "up" /\ c[1] \in Slices
        /\ \A t \in Sessions, sl \in Slices : ~Holds(t, sl, c)
    BY <1>11, TakenUp
  <2>2. /\ o.res \in {"ok", "err"} /\ o.durable = {}
        /\ o.res = "ok" => o.conn.net = "up" /\ TxConn(s, o.conn) /\ (o.conn.srv.ac => q = "begin")
    BY <1>10, <1>11, <2>1, OpenTx, Zenon
  <2>3. applied'[s] = applied[s] /\ \A t \in Sessions : t # s => applied'[t] = applied[t]
    BY <1>11, <2>2, DurableOwn, Zenon
  <2>4. \A tl \in Slices, d \in Conns : txConns[s][tl] = d => d # c
    BY <1>4, <2>1, Zenon DEF Holds
  <2>5. PICK r, e : /\ conn' = [conn EXCEPT ![c] = r] /\ (r.live => r.net = "up")
                    /\ e = c => TxConn(s, r) /\ (r.srv.ac => status[s].inTrans)
                    /\ e \in {c, NoConn} /\ txConns' = [txConns EXCEPT ![s][c[1]] = e]
                    /\ Alone(s, "cmd") /\ at'[s]["cmd"] \in Busy
                    /\ Elsewhere(s)
    <3>1. CASE o.res = "ok"
      <4>1. /\ conn' = [conn EXCEPT ![c] = o.conn] /\ txConns' = [txConns EXCEPT ![s][c[1]] = c]
            /\ Got(s, c[1], c) /\ UNCHANGED reply
        BY <1>11, <3>1
      <4>2. /\ Alone(s, "cmd") /\ at'[s]["cmd"] \in Busy
            /\ Elsewhere(s)
        BY <1>5, <2>1, <4>1, Zenon
      <4> QED  BY <1>10, <2>2, <3>1, <4>1, <4>2, Zenon
    <3>2. CASE o.res = "err"
      <4>1. conn' = [conn EXCEPT ![c] = Dead] /\ Refuse(s, "recycle") /\ UNCHANGED <<txConns, pcs>>
        BY <1>11, <3>2
      <4>2. /\ Alone(s, "cmd") /\ at'[s]["cmd"] \in Busy
            /\ Elsewhere(s)
        BY <1>6, <4>1, Zenon
      <4>3. txConns' = [txConns EXCEPT ![s][c[1]] = NoConn]
        <5>1. txConns' = txConns /\ c[1] \in Slices /\ txConns[s][c[1]] = NoConn  BY <1>11, <2>1, <4>1, Zenon
        <5> QED  BY <1>8, <5>1
      <4>4. ~Dead.live /\ NoConn # c  BY DeadFacts, NoConnAssumption
      <4> QED  BY <4>1, <4>2, <4>3, <4>4, Zenon
    <3> QED  BY <2>2, <3>1, <3>2, Zenon
  <2>6. /\ Client(s)' /\ Begun(s)' /\ Keeping(s) /\ Plain(s)'
        /\ (\A tl : Released(s, tl)' <=> Released(s, tl)) /\ (Ended(s)' <=> Ended(s))
    BY <1>7, <2>3, <2>5, Zenon
  <2>7. Up' /\ Untouched(s) /\ conn'[c] = r /\ \A d \in Conns : d # c => conn'[d] = conn[d]
    <3>1. \A t \in Sessions, tl \in Slices : t # s => ~Holds(t, tl, c)  BY <2>1
    <3> QED  BY <2>5, <3>1, OnlyOne, Zenon
  <2>8. Frame(s)  BY <2>3, <2>5 DEF Frame
  <2>9. \A tl \in Slices : txConns'[s][tl] = IF tl = c[1] THEN e ELSE txConns[s][tl]
    BY <1>0, <2>5, ZenonT(40) DEF TypeOK
  <2>10. Ours(s)'
    <3>1. ASSUME NEW tl \in Slices, NEW d \in Conns, txConns'[s][tl] = d, ~Released(s, tl)'
          PROVE  TxConn(s, conn'[d]) /\ (conn'[d].srv.ac => status'[s].inTrans \/ Ended(s)')
      <4>1. CASE tl = c[1]
        <5>1. e = d /\ e = c  BY <2>5, <2>9, <3>1, <4>1, NoConnAssumption
        <5> QED  BY <1>2, <2>5, <2>7, <5>1
      <4>2. CASE tl # c[1]
        <5>1. txConns[s][tl] = d /\ d # c  BY <2>4, <2>9, <3>1, <4>2, Zenon
        <5>2. conn'[d] = conn[d]  BY <2>7, <5>1, Zenon
        <5>3. TxConn(s, conn[d]) /\ (conn[d].srv.ac => status[s].inTrans \/ Ended(s))
          BY <1>0, <1>4, <5>1, Zenon DEF History, Ours
        <5> QED  BY <1>2, <2>6, <5>2, <5>3, Zenon
      <4> QED  BY <4>1, <4>2, Zenon
    <3> QED  BY <3>1, Zenon DEF Ours, TxConn
  <2>11. Kept(s)'
    <3>1. ASSUME NEW tl \in Slices, Waiting(s, tl) PROVE Waiting(s, tl)'
      <4>1. PICK d \in Conns : txConns[s][tl] = d /\ s \in conn[d].srv.work  BY <3>1, Zenon DEF Waiting
      <4>2. d # c /\ tl # c[1]  BY <1>11, <2>4, <4>1, NoConnAssumption
      <4>3. txConns'[s][tl] = d /\ conn'[d] = conn[d]  BY <2>7, <2>9, <4>1, <4>2, Zenon
      <4> QED  BY <1>4, <2>6, <4>1, <4>3, Zenon DEF Waiting
    <3> QED  BY <1>0, <1>2, <1>8, <2>3, <2>6, <3>1, Zenon DEF History, Kept
  <2> QED  BY <2>6, <2>7, <2>8, <2>10, <2>11, FromOwn, Zenon DEF History
<1>12. CASE \E sl \in todo[s]["cmd"] :
              /\ txConns[s][sl] # NoConn
              /\ Got(s, sl, txConns[s][sl])
              /\ UNCHANGED <<txConns, reply, poolVars, applied>>
  BY <1>9, <1>12, Zenon
<1> QED  BY <1>11, <1>12, ZenonT(40) DEF GetTransactionConn, q

\* BEGIN on a connection of the transaction commits what it holds.
LEMMA BeginAgain ==
    ASSUME Quiet, NEW s \in Sessions, NEW r, Sound(r), r.net = "up", TxConn(s, r), NEW o \in Exec(r, "begin", s)
    PROVE  /\ o.res \in {"ok", "err"} /\ TxConn(s, o.conn) /\ (o.conn.srv.ac <=> r.srv.ac) /\ o.conn.net = "up"
           /\ o.durable \subseteq {s}
           /\ o.res = "ok" => o.conn.srv.work = {} /\ o.durable = r.srv.work
           /\ o.res = "err" => o.conn.srv.work = r.srv.work
<1>1. r.srv \in SrvType /\ "begin" \in Sql /\ r.srv.work \subseteq {s}  BY ConnParts DEF Sound, Sql, TxConn
<1>2. /\ o.res \in {"ok", "err"}
      /\ o.res = "ok" => /\ o.conn.net = "up" /\ o.conn.srv \in Server(r.srv, "begin", s)
                         /\ o.durable = Durable(r.srv, "begin", s)
      /\ o.res = "err" => /\ o.durable = {} /\ o.conn.st = r.st
                          /\ o.conn.net = "up" /\ o.conn.srv.work = r.srv.work /\ o.conn.srv.ac = r.srv.ac
                          /\ r.srv.tx => o.conn.srv.tx
  <2>1. Failed(r, "begin", o) \/ Done(r, "begin", s, o)  BY <1>1, QuietExec, Zenon
  <2>2. "begin" \notin {"ac0", "ac1"}  OBVIOUS
  <2> QED  BY <2>1, <2>2, Zenon DEF Done, Failed
<1>3. CASE o.res = "ok"
  <2>1. Durable(r.srv, "begin", s) = r.srv.work  BY DEF Durable
  <2>2. o.conn.srv = [r.srv EXCEPT !.tx = TRUE, !.work = {}]  BY <1>2, <1>3 DEF Server
  <2>3. o.conn.srv.tx /\ o.conn.srv.work = {} /\ o.conn.srv.ac = r.srv.ac  BY <1>1, <2>2 DEF SrvType
  <2> QED  BY <1>1, <1>2, <1>3, <2>1, <2>3, Zenon DEF TxConn
<1>4. CASE o.res = "err"  BY <1>2, <1>4, Zenon DEF TxConn
<1> QED  BY <1>2, <1>3, <1>4, Zenon

\* BEGIN on one of a transaction's connections (BeginConn).
LEMMA BeginConnHistory ==
    ASSUME Quiet, HInv, IInv', NEW s \in Sessions, BeginConn(s)
    PROVE  HInv'
<1>0. IInv /\ Up /\ TypeOK /\ Shape(s) /\ History(s) /\ "cmd" \in Procs  BY DEF HInv, IInv, Procs
<1>1. /\ at[s]["cmd"] = "begin" /\ at[s]["wheel"] = "idle" /\ todo[s]["cmd"] \subseteq InTx(s)
      /\ op[s]["cmd"] = "begin" /\ pcs[s] = NoConns
  BY <1>0, Zenon DEF BeginConn, At, Shape, Wheel, Doing, Leasing, Transaction, Closing, Busy
<1>2. PICK sl, o :
        /\ sl \in todo[s]["cmd"] /\ o \in Exec(conn[txConns[s][sl]], "begin", s)
        /\ conn' = [conn EXCEPT ![txConns[s][sl]] = o.conn]
        /\ MakeDurable(o.durable, sl)
        /\ o.res = "ok" => todo' = [todo EXCEPT ![s]["cmd"] = @ \ {sl}] /\ UNCHANGED <<lock, at, reply>>
        /\ o.res # "ok" => Refuse(s, "reply") /\ lock' = [lock EXCEPT ![s] = "free"]
  BY Zenon DEF BeginConn
<1>3. PICK c : c = txConns[s][sl]  OBVIOUS
<1>4. UNCHANGED <<status, txConns, closed, pcs, op, pooled, blank, clientTx, acked, crashed>>
  BY DEF BeginConn
<1>5. sl \in Slices /\ c \in Conns
  <2>1. sl \in Slices /\ c # NoConn  BY <1>1, <1>2, <1>3 DEF InTx
  <2> QED  BY <1>0, <1>3, <2>1 DEF TypeOK
<1>6. \A tl : ~Released(s, tl)
  <2>1. \A tl : ~Letting(s, tl)  BY <1>1 DEF Letting, Procs
  <2>2. lock[s] \in Procs \cup {"free"}  BY <1>0 DEF TypeOK
  <2> QED  BY <1>0, <2>1, <2>2, ReleasedIs, Zenon DEF Shape
<1>7. Holds(s, sl, c)  BY <1>3, <1>6, Zenon DEF Holds
<1>8. Sound(conn[c]) /\ conn[c].net = "up"  BY <1>0, <1>5, <1>7, HeldSound, Zenon DEF Up, Sound
<1>9. TxConn(s, conn[c]) /\ (conn[c].srv.ac => status[s].inTrans \/ Ended(s))
  BY <1>0, <1>3, <1>5, <1>6, Zenon DEF History, Ours
<1>10. conn' = [conn EXCEPT ![c] = o.conn] /\ o \in Exec(conn[c], "begin", s)  BY <1>2, <1>3
<1>11. /\ o.res \in {"ok", "err"} /\ TxConn(s, o.conn) /\ (o.conn.srv.ac <=> conn[c].srv.ac) /\ o.conn.net = "up"
       /\ o.durable \subseteq {s}
       /\ o.res = "ok" => o.conn.srv.work = {} /\ o.durable = conn[c].srv.work
       /\ o.res = "err" => o.conn.srv.work = conn[c].srv.work
  BY <1>8, <1>9, <1>10, BeginAgain, Zenon
<1>12. /\ Alone(s, "cmd") /\ at'[s]["cmd"] \in {"begin", "reply"}
       /\ at'[s]["cmd"] = "reply" => reply'[s] = "err"
       /\ at'[s]["cmd"] = "begin" => o.res = "ok" /\ todo'[s]["cmd"] = todo[s]["cmd"] \ {sl} /\ reply'[s] = reply[s]
       /\ \A t \in Sessions : t # s => Apart(t) /\ reply'[t] = reply[t]
  <2>1. CASE o.res = "ok"
    <3>1. todo' = [todo EXCEPT ![s]["cmd"] = @ \ {sl}] /\ UNCHANGED <<lock, at, reply>>  BY <1>2, <2>1
    <3> QED  BY <1>0, <1>1, <1>4, <2>1, <3>1, ZenonT(40) DEF Apart, Alone, TypeOK, Procs
  <2>2. CASE o.res = "err"
    <3>1. Refuse(s, "reply") /\ lock' = [lock EXCEPT ![s] = "free"]  BY <1>2, <2>2
    <3> QED  BY <1>0, <1>4, <3>1, ZenonT(40) DEF Refuse, Goto, Apart, Alone, TypeOK, Procs
  <2> QED  BY <1>11, <2>1, <2>2, Zenon
<1>13. /\ applied'[s] = IF s \in o.durable THEN applied[s] \cup {sl} ELSE applied[s]
       /\ \A t \in Sessions : t # s => applied'[t] = applied[t]
  <2>1. MakeDurable(o.durable, sl) /\ o.durable \subseteq {s}  BY <1>2, <1>11
  <2> QED  BY <2>1, DurableOwn, Zenon
<1>14. Up' /\ Untouched(s) /\ conn'[c] = o.conn /\ \A d \in Conns : d # c => conn'[d] = conn[d]
  <2>1. \A t \in Sessions, tl \in Slices : t # s => ~Holds(t, tl, c)  BY <1>0, <1>5, <1>7, HeldAlone, Zenon
  <2> QED  BY <1>5, <1>10, <1>11, <2>1, OnlyOne, Zenon
<1>15. at'[s]["wheel"] = "idle" /\ (\A tl : ~Released(s, tl)') /\ (Ended(s)' <=> Ended(s))
  <2>1. at'[s]["wheel"] = "idle" /\ at[s]["cmd"] # "finish" /\ at'[s]["cmd"] # "finish"
    BY <1>1, <1>12, Zenon DEF Alone, Procs
  <2>2. (\A tl : Released(s, tl)' <=> Released(s, tl)) /\ (Ended(s)' <=> Ended(s))
    BY <1>0, <1>12, <2>1, Outside, Zenon DEF Alone
  <2> QED  BY <1>6, <2>1, <2>2, Zenon
<1>16. Frame(s)  BY <1>4, <1>12, <1>13, Zenon DEF Frame, Elsewhere
<1>17. \A tl \in Slices, d \in Conns : txConns[s][tl] = d => (d = c <=> tl = sl)
  <2>1. \A tl \in Slices, d \in Conns : txConns[s][tl] = d => d[1] = tl  BY <1>0, Own DEF Fits
  <2> QED  BY <1>3, <1>5, <2>1
<1>18. Ours(s)'  BY <1>0, <1>4, <1>6, <1>9, <1>11, <1>14, <1>15, Zenon DEF History, Ours
<1>19. Plain(s)'  BY <1>1, <1>4, NoConnAssumption, Zenon DEF Plain, NoConns
<1>20. Kept(s)'
  <2>1. acked[s] \subseteq Slices /\ acked'[s] = acked[s]  BY <1>0, <1>4 DEF TypeOK
  <2>2. Keeping(s)  BY <1>1 DEF Keeping
  <2>3. ASSUME NEW tl \in Slices, Waiting(s, tl) PROVE tl \in applied'[s] \/ Waiting(s, tl)'
    <3>1. PICK d \in Conns : txConns[s][tl] = d /\ s \in conn[d].srv.work  BY <2>3 DEF Waiting
    <3>2. CASE d = c
      <4>1. o.res = "ok" => tl \in applied'[s]  BY <1>11, <1>13, <1>17, <3>1, <3>2, Zenon
      <4>2. o.res = "err" => s \in conn'[d].srv.work  BY <1>11, <1>14, <3>1, <3>2, Zenon
      <4> QED  BY <1>4, <1>11, <1>15, <3>1, <4>1, <4>2, Zenon DEF Waiting
    <3>3. CASE d # c  BY <1>4, <1>14, <1>15, <3>1, <3>3, Zenon DEF Waiting
    <3> QED  BY <3>2, <3>3
  <2> QED  BY <1>0, <1>13, <2>1, <2>2, <2>3, Zenon DEF History, Kept
<1>21. Begun(s)'
  <2>1. ASSUME NEW tl \in Slices, NEW d \in Conns, txConns'[s][tl] = d,
               \/ at'[s]["cmd"] = "begin" /\ tl \notin todo'[s]["cmd"]
               \/ at'[s]["cmd"] = "reply" /\ reply'[s] = "ok"
        PROVE  conn'[d].srv.work = {}
    <3>1. at'[s]["cmd"] = "begin" /\ o.res = "ok" /\ (tl = sl \/ tl \notin todo[s]["cmd"])  BY <1>12, <2>1
    <3>2. CASE d = c  BY <1>11, <1>14, <3>1, <3>2, Zenon
    <3>3. CASE d # c
      <4>1. txConns[s][tl] = d /\ tl \notin todo[s]["cmd"]  BY <1>4, <1>17, <2>1, <3>1, <3>3
      <4>2. conn[d].srv.work = {}  BY <1>0, <1>1, <1>6, <4>1, Zenon DEF History, Begun
      <4> QED  BY <1>14, <3>3, <4>2
    <3> QED  BY <3>2, <3>3
  <2> QED  BY <2>1, Zenon DEF Begun
<1>22. Client(s)'
  <2>1. Known(s)' /\ Nothing(s)' /\ LetGo(s)'
    BY <1>1, <1>4, <1>12, Zenon DEF Known, Nothing, LetGo, Queries, Controls
  <2>2. InStep(s)'
    BY <1>0, <1>1, <1>4, <1>12, <1>15, Zenon DEF History, Client, InStep, Queries, Controls, IsAutoCommit
  <2> QED  BY <2>1, <2>2 DEF Client
<1> QED  BY <1>14, <1>16, <1>18, <1>19, <1>20, <1>21, <1>22, FromOwn DEF History

\* COMMIT, ROLLBACK or SET autocommit = 1 on a connection of the transaction,
\* and its Recycle.
LEMMA EndTx ==
    ASSUME Quiet, NEW s \in Sessions, NEW r, Sound(r), r.net = "up", TxConn(s, r),
           NEW q \in {"commit", "rollback", "ac1"}, q = "ac1" => ~r.srv.ac,
           NEW o \in Exec(r, q, s), NEW k, o.res # "panic" => k \in Recycle(o.conn)
    PROVE  /\ o.res \in {"ok", "err"} /\ k.to # "lost" /\ (k.conn.live => k.conn.net = "up")
           /\ k.durable = {} /\ o.durable \subseteq {s}
           /\ q = "rollback" => o.durable = {}
           /\ q # "rollback" /\ o.res = "ok" => o.durable = r.srv.work
<1>1. /\ r.srv \in SrvType /\ q \in Sql /\ r.srv.work \subseteq {s} /\ (r.srv.work # {} => r.st.tx)
      /\ Calm /\ (r.srv.ac <=> r.st.ac)
  BY ConnParts, Zenon DEF Sound, Sql, TxConn, Tidy, Quiet, Calm
<1>2. /\ o.res \in {"ok", "err"} /\ Sound(o.conn)
      /\ o.res = "ok" => /\ o.conn.net = "up" /\ o.conn.srv \in Server(r.srv, q, s)
                         /\ o.durable = Durable(r.srv, q, s)
      /\ o.res = "err" => o.durable = {} /\ o.conn.st = r.st
      /\ o.res = "err" /\ q # "ac1" => o.conn.net = "up" /\ o.conn.srv.work = r.srv.work
      /\ o.res = "err" /\ q = "ac1" => o.conn.net = "broken"
  <2>1. Sound(o.conn) /\ (Failed(r, q, o) \/ Done(r, q, s, o))  BY <1>1, QuietExec, Zenon
  <2>2. q # "ac1" => q \notin {"ac0", "ac1"}  OBVIOUS
  <2> QED  BY <2>1, <2>2, Zenon DEF Done, Failed
<1>3. Durable(r.srv, q, s) = IF q = "rollback" THEN {} ELSE r.srv.work
  <2>1. CASE q = "commit"  BY <2>1 DEF Durable
  <2>2. CASE q = "rollback"  BY <2>2 DEF Durable
  <2>3. CASE q = "ac1"  BY <2>3 DEF Durable
  <2> QED  BY <2>1, <2>2, <2>3, Zenon
<1>4. o.res = "ok" => o.conn.srv.work = {}
  <2>1. CASE q \in {"commit", "rollback"}
    <3>1. o.res = "ok" => o.conn.srv = [r.srv EXCEPT !.tx = FALSE, !.work = {}]  BY <1>2, <2>1 DEF Server
    <3> QED  BY <1>1, <3>1, Zenon DEF SrvType
  <2>2. CASE q = "ac1"
    <3>1. o.res = "ok" => o.conn.srv = Clean  BY <1>2, <2>2 DEF Server
    <3>2. Clean.work = {}  BY DEF Clean
    <3> QED  BY <3>1, <3>2, Zenon
  <2> QED  BY <2>1, <2>2, Zenon
<1>5. /\ o.conn.srv.work # {} => o.conn.st.tx
      /\ o.conn.net = "up" \/ (o.conn.net = "broken" /\ ~o.conn.st.ac)
  <2>1. CASE o.res = "ok"  BY <1>2, <1>4, <2>1, Zenon
  <2>2. CASE o.res = "err" /\ q # "ac1"  BY <1>1, <1>2, <2>2, Zenon
  <2>3. CASE o.res = "err" /\ q = "ac1"
    <3>1. o.conn.net = "broken" /\ o.conn.st = r.st  BY <1>2, <2>3, Zenon
    <3>2. o.conn.srv.work = {}
      <4>1. Clean.work = {}  BY DEF Clean
      <4> QED  BY <1>2, <3>1, <4>1, Zenon DEF Sound, Tidy
    <3> QED  BY <1>1, <2>3, <3>1, <3>2, Zenon
  <2> QED  BY <1>2, <2>1, <2>2, <2>3, Zenon
<1>6. k \in Recycle(o.conn)  BY <1>2, Zenon
<1>7. k.durable = {} /\ (k.conn.live => k.conn.net = "up")  BY <1>2, <1>5, <1>6, QuietRecycle, Zenon
<1>8. k.to # "lost"  BY <1>1, <1>2, <1>6, RecycleFacts, Zenon
<1> QED  BY <1>1, <1>2, <1>3, <1>7, <1>8, Zenon

\* One of a transaction's connections is released (FinishConn).
LEMMA FinishConnHistory ==
    ASSUME Quiet, HInv, IInv', NEW s \in Sessions, NEW p \in Procs, FinishConn(s, p)
    PROVE  HInv'
<1>0. IInv /\ Up /\ TypeOK /\ Shape(s) /\ History(s) /\ "cmd" \in Procs  BY DEF HInv, IInv, Procs
<1>1. at[s][p] = "finish" /\ todo[s][p] \subseteq InTx(s)  BY <1>0 DEF FinishConn, At, Shape, Transaction
<1>2. /\ p = "cmd" => op[s]["cmd"] \in Enders /\ at[s]["cmd"] = "finish"
      /\ p = "wheel" => op[s]["wheel"] = "close" /\ at[s]["wheel"] # "idle"
      /\ at[s]["cmd"] \notin {"begin", "reply"} /\ pcs[s] = NoConns
      /\ at[s]["wheel"] # "idle" /\ at[s]["cmd"] = "finish" => op[s]["cmd"] = "close"
  <2>1. at[s]["cmd"] \notin {"begin", "reply"} /\ at[s]["cmd"] \notin Busy
    <3>1. CASE p = "cmd"  BY <1>1, <3>1 DEF Busy
    <3>2. CASE p = "wheel"  BY <1>0, <1>1, <3>2, Zenon DEF Shape, Wheel, Busy, Closing
    <3> QED  BY <3>1, <3>2 DEF Procs
  <2>2. pcs[s] = NoConns  BY <1>0, <2>1, Zenon DEF Shape, Leasing
  <2>3. /\ p = "cmd" => op[s]["cmd"] \in Enders /\ at[s]["cmd"] = "finish"
        /\ p = "wheel" => op[s]["wheel"] = "close" /\ at[s]["wheel"] # "idle"
        /\ at[s]["wheel"] # "idle" /\ at[s]["cmd"] = "finish" => op[s]["cmd"] = "close"
    BY <1>0, <1>1, Zenon DEF Shape, Wheel, Doing, Closing
  <2> QED  BY <2>1, <2>2, <2>3, Zenon
<1>3. PICK q : q = Statement(op[s][p])  OBVIOUS
<1>4. /\ q \in {"commit", "rollback", "ac1"}
      /\ q # "rollback" => p = "cmd" /\ op[s]["cmd"] = q /\ at[s]["wheel"] = "idle"
      /\ p = "cmd" => op[s]["cmd"] \in Enders
  BY <1>2, <1>3, Zenon DEF Statement, Enders, Procs
<1>5. PICK sl, o, k :
        /\ sl \in todo[s][p] /\ o \in Exec(conn[txConns[s][sl]], q, s)
        /\ o.res # "panic" => k \in Recycle(o.conn)
        /\ conn' = [conn EXCEPT ![txConns[s][sl]] = k.conn]
        /\ MakeDurable(o.durable \cup k.durable, sl)
        /\ reply' = IF o.res = "ok" /\ k.to # "lost" THEN reply ELSE [reply EXCEPT ![s] = "err"]
        /\ k.to # "lost" => todo' = [todo EXCEPT ![s][p] = @ \ {sl}] /\ UNCHANGED <<crashed, lock, at>>
  <2>1. PICK sl, o :
          /\ sl \in todo[s][p] /\ o \in Exec(conn[txConns[s][sl]], q, s)
          /\ \E k \in IF o.res = "panic" THEN {[conn |-> o.conn, to |-> "lost", durable |-> {}]}
                      ELSE Recycle(o.conn) :
               /\ conn' = [conn EXCEPT ![txConns[s][sl]] = k.conn]
               /\ MakeDurable(o.durable \cup k.durable, sl)
               /\ reply' = IF o.res = "ok" /\ k.to # "lost" THEN reply ELSE [reply EXCEPT ![s] = "err"]
               /\ k.to # "lost" => todo' = [todo EXCEPT ![s][p] = @ \ {sl}] /\ UNCHANGED <<crashed, lock, at>>
    BY <1>3, ZenonT(40) DEF FinishConn
  <2>2. PICK k \in IF o.res = "panic" THEN {[conn |-> o.conn, to |-> "lost", durable |-> {}]}
                   ELSE Recycle(o.conn) :
          /\ conn' = [conn EXCEPT ![txConns[s][sl]] = k.conn]
          /\ MakeDurable(o.durable \cup k.durable, sl)
          /\ reply' = IF o.res = "ok" /\ k.to # "lost" THEN reply ELSE [reply EXCEPT ![s] = "err"]
          /\ k.to # "lost" => todo' = [todo EXCEPT ![s][p] = @ \ {sl}] /\ UNCHANGED <<crashed, lock, at>>
    BY <2>1, Zenon
  <2>3. o.res # "panic" => k \in Recycle(o.conn)  BY <2>2
  <2> QED  BY <2>1, <2>2, <2>3, Zenon
<1>6. PICK c : c = txConns[s][sl]  OBVIOUS
<1>7. UNCHANGED <<status, txConns, closed, pcs, op, clientTx, acked>>  BY DEF FinishConn
<1>8. sl \in Slices /\ c \in Conns
  <2>1. sl \in Slices /\ c # NoConn  BY <1>1, <1>5, <1>6 DEF InTx
  <2> QED  BY <1>0, <1>6, <2>1 DEF TypeOK
<1>9. \A tl : Released(s, tl) <=> tl \notin todo[s][p]
  <2>1. \A v \in Procs : v # p => at[s][v] # "finish"  BY <1>0, <1>1, Zenon DEF Shape, Doing
  <2>2. \A tl : Letting(s, tl) <=> tl \notin todo[s][p]  BY <1>1, <2>1, Zenon DEF Letting
  <2> QED  BY <1>0, <2>2, Own, ReleasedIs DEF Shape
<1>10. Holds(s, sl, c)  BY <1>5, <1>6, <1>9, Zenon DEF Holds
<1>11. Sound(conn[c]) /\ conn[c].net = "up"  BY <1>0, <1>8, <1>10, HeldSound, Zenon DEF Up, Sound
<1>12. TxConn(s, conn[c]) /\ (conn[c].srv.ac => status[s].inTrans \/ Ended(s))
  BY <1>0, <1>5, <1>6, <1>8, <1>9 DEF History, Ours
<1>13. q = "ac1" => ~conn[c].srv.ac
  <2>1. q = "ac1" => ~status[s].inTrans  BY <1>0, <1>2, <1>4, Zenon DEF History, Client, InStep
  <2>2. q = "ac1" => ~Ended(s)  BY <1>4, Zenon DEF Ended, Procs
  <2> QED  BY <1>12, <2>1, <2>2
<1>14. conn' = [conn EXCEPT ![c] = k.conn] /\ o \in Exec(conn[c], q, s)  BY <1>5, <1>6
<1>15. /\ o.res \in {"ok", "err"} /\ k.to # "lost" /\ (k.conn.live => k.conn.net = "up")
       /\ k.durable = {} /\ o.durable \subseteq {s}
       /\ q = "rollback" => o.durable = {}
       /\ q # "rollback" /\ o.res = "ok" => o.durable = conn[c].srv.work
  BY <1>4, <1>5, <1>11, <1>12, <1>13, <1>14, EndTx
<1>16. /\ at' = at /\ lock' = lock /\ todo' = [todo EXCEPT ![s][p] = todo[s][p] \ {sl}]
       /\ reply' = IF o.res = "ok" THEN reply ELSE [reply EXCEPT ![s] = "err"]
  BY <1>5, <1>15
<1>17. /\ todo'[s][p] = todo[s][p] \ {sl}
       /\ o.res = "err" => reply'[s] = "err"
       /\ o.res = "ok" => reply'[s] = reply[s]
       /\ \A t \in Sessions : t # s => Apart(t) /\ reply'[t] = reply[t]
  BY <1>0, <1>7, <1>15, <1>16, ZenonT(40) DEF TypeOK, Apart
<1>18. /\ applied'[s] = IF s \in o.durable THEN applied[s] \cup {sl} ELSE applied[s]
       /\ \A t \in Sessions : t # s => applied'[t] = applied[t]
  <2>1. MakeDurable(o.durable, sl) /\ o.durable \subseteq {s}
    <3>1. o.durable \cup k.durable = o.durable  BY <1>15
    <3> QED  BY <1>5, <1>15, <3>1
  <2> QED  BY <2>1, DurableOwn, Zenon
<1>19. Up' /\ Untouched(s) /\ conn'[c] = k.conn /\ \A d \in Conns : d # c => conn'[d] = conn[d]
  <2>1. \A t \in Sessions, tl \in Slices : t # s => ~Holds(t, tl, c)  BY <1>0, <1>8, <1>10, HeldAlone, Zenon
  <2> QED  BY <1>8, <1>14, <1>15, <2>1, OnlyOne, Zenon
<1>20. Frame(s)  BY <1>7, <1>17, <1>18, Zenon DEF Frame, Elsewhere
<1>21. (\A tl : Released(s, tl)' <=> Released(s, tl) \/ tl = sl) /\ (Ended(s)' <=> Ended(s))
  <2>1. \A v \in Procs : v # p => at'[s][v] # "finish"  BY <1>0, <1>1, <1>16 DEF Shape, Doing
  <2>2. \A tl : Letting(s, tl)' <=> tl \notin todo'[s][p]  BY <1>1, <1>16, <2>1 DEF Letting
  <2>3. Doing(s)' /\ lock'[s] \in Procs \cup {"free"}  BY DEF IInv, Shape, TypeOK
  <2>4. \A tl : Released(s, tl)' <=> Released(s, tl) \/ tl = sl
    BY <1>9, <1>17, <2>2, <2>3, ReleasedIs, Zenon
  <2> QED  BY <1>7, <1>16, <2>4 DEF Ended
<1>22. \A tl \in Slices, d \in Conns : txConns[s][tl] = d => (d = c <=> tl = sl)
  <2>1. \A tl \in Slices, d \in Conns : txConns[s][tl] = d => d[1] = tl  BY <1>0, Own DEF Fits
  <2> QED  BY <1>6, <1>8, <2>1
<1>23. Ours(s)'
  <2>1. ASSUME NEW tl \in Slices, NEW d \in Conns, txConns'[s][tl] = d, ~Released(s, tl)'
        PROVE  TxConn(s, conn'[d]) /\ (conn'[d].srv.ac => status'[s].inTrans \/ Ended(s)')
    <3>1. tl # sl /\ ~Released(s, tl) /\ txConns[s][tl] = d  BY <1>7, <1>21, <2>1
    <3>2. conn'[d] = conn[d]  BY <1>19, <1>22, <3>1, Zenon
    <3>3. TxConn(s, conn[d]) /\ (conn[d].srv.ac => status[s].inTrans \/ Ended(s))
      BY <1>0, <3>1, Zenon DEF History, Ours
    <3> QED  BY <1>7, <1>21, <3>2, <3>3
  <2> QED  BY <2>1 DEF Ours, TxConn
<1>24. Plain(s)'  BY <1>2, <1>7, NoConnAssumption DEF Plain, NoConns
<1>25. Kept(s)'
  <2>1. acked[s] \subseteq Slices /\ acked'[s] = acked[s]  BY <1>0, <1>7 DEF TypeOK
  <2>2. ASSUME Keeping(s)' PROVE Keeping(s) /\ q # "rollback" /\ o.res = "ok"
    <3>1. at[s]["wheel"] = "idle" /\ op[s]["cmd"] \notin {"rollback", "quit", "close"}
      BY <1>7, <1>16, <2>2 DEF Keeping
    <3>2. p = "cmd" /\ op[s]["cmd"] \in {"commit", "ac1"}  BY <1>2, <1>4, <3>1 DEF Enders, Procs
    <3>3. reply'[s] = "ok"  BY <1>7, <2>2, <3>2 DEF Keeping
    <3>4. o.res = "ok" /\ reply[s] = "ok"  BY <1>15, <1>17, <3>3
    <3>5. q # "rollback"  BY <1>3, <3>2 DEF Statement
    <3> QED  BY <3>1, <3>4, <3>5 DEF Keeping
  <2>3. ASSUME NEW tl \in Slices, Waiting(s, tl), q # "rollback", o.res = "ok"
        PROVE  tl \in applied'[s] \/ Waiting(s, tl)'
    <3>1. PICK d \in Conns : txConns[s][tl] = d /\ ~Released(s, tl) /\ s \in conn[d].srv.work
      BY <2>3 DEF Waiting
    <3>2. CASE d = c  BY <1>15, <1>18, <1>22, <2>3, <3>1, <3>2, Zenon
    <3>3. CASE d # c
      <4>1. tl # sl /\ conn'[d] = conn[d]  BY <1>19, <1>22, <3>1, <3>3, Zenon
      <4> QED  BY <1>7, <1>21, <3>1, <4>1, Zenon DEF Waiting
    <3> QED  BY <3>2, <3>3
  <2> QED  BY <1>0, <1>18, <2>1, <2>2, <2>3, Zenon DEF History, Kept
<1>26. Begun(s)'  BY <1>2, <1>16 DEF Begun
<1>27. Client(s)'
  <2>1. at'[s] = at[s] /\ op'[s] = op[s] /\ status'[s] = status[s] /\ clientTx'[s] = clientTx[s]
    BY <1>7, <1>16
  <2>2. Known(s)' /\ LetGo(s)'  BY <1>0, <1>2, <2>1, Zenon DEF History, Client, Known, LetGo
  <2>3. Nothing(s)'
    <3>1. q = "rollback" => applied'[s] = applied[s]  BY <1>15, <1>18, Zenon
    <3>2. q # "rollback" => op[s]["cmd"] \in {"commit", "ac1"}  BY <1>4
    <3> QED  BY <1>0, <2>1, <3>1, <3>2, Zenon DEF History, Client, Nothing, Queries, IsInTransaction, IsAutoCommit
  <2>4. InStep(s)'
    <3>1. CASE at[s]["wheel"] = "idle"
      <4>1. p = "cmd" /\ at[s]["cmd"] = "finish" /\ op[s]["cmd"] \in Enders  BY <1>2, <3>1, Zenon DEF Procs
      <4> QED  BY <1>0, <2>1, <3>1, <4>1, Zenon DEF History, Client, InStep, Queries, Controls, Enders, IsAutoCommit
    <3>2. CASE at[s]["wheel"] # "idle"  BY <2>1, <3>2 DEF InStep
    <3> QED  BY <3>1, <3>2
  <2> QED  BY <2>2, <2>3, <2>4 DEF Client
<1> QED  BY <1>19, <1>20, <1>23, <1>24, <1>25, <1>26, <1>27, FromOwn, Zenon DEF History
=============================================================================
