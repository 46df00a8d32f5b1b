------------------------- MODULE SessionStepProofs -------------------------
(***************************************************************************)
(* What a step of one goroutine of one session does to the invariant of    *)
(* SessionExecutor: every action keeps it, and passes at most one token    *)
(* between a pool and the sessions.                                        *)
(***************************************************************************)
EXTENDS SessionConnectionProofs

-----------------------------------------------------------------------------
(* The pools: a step that changes one connection, who holds it and its     *)
(* token, keeps them in order.                                             *)

Bit(b) == IF b THEN 1 ELSE 0

(* A step passes at most one token on: connection c is put in its wrapper, *)
(* taken out of it, or held or let go of, and the blank wrappers make up   *)
(* for it.                                                                 *)
Transfer(c, n, b) ==
    /\ pooled' = [pooled EXCEPT ![c] = n]
    /\ blank' = [blank EXCEPT ![c[1]] = b]
    /\ \A d \in Conns : d # c => (Held(d)' <=> Held(d))
    /\ n + b + Bit(Held(c)') = pooled[c] + blank[c[1]] + Bit(Held(c))

Balanced ==
    \/ pooled' = pooled /\ blank' = blank /\ \A c \in Conns : Held(c)' <=> Held(c)
    \/ \E c \in Conns, n \in {0, 1}, b \in Nat : Transfer(c, n, b)

Keeps == IInv' /\ Balanced

(* A step that changes connection c and its token.                         *)
Change(c, r, n, b) ==
    /\ c \in Conns /\ r \in ConnType /\ n \in {0, 1} /\ b \in Nat
    /\ conn' = [conn EXCEPT ![c] = r]
    /\ pooled' = [pooled EXCEPT ![c] = n]
    /\ blank' = [blank EXCEPT ![c[1]] = b]
    /\ r.live => Tidy(r)
    /\ n = 1 => r.live /\ ~r.closed /\ r.srv = Clean
    /\ \A d \in Conns : d # c => \A s \in Sessions, sl \in Slices : Holds(s, sl, d)' <=> Holds(s, sl, d)
    /\ \A s, t \in Sessions, sl, tl \in Slices :
         /\ Holds(s, sl, c)' => n = 0 /\ r.live
         /\ Holds(s, sl, c)' /\ Holds(t, tl, c)' => s = t
    /\ n + b + Bit(Held(c)') = pooled[c] + blank[c[1]] + Bit(Held(c))

\* A change of one connection, its holders and its token keeps the pools in
\* order when the tokens add up.
LEMMA ChangeKeeps ==
    ASSUME TypeOK, Pool, NEW c, NEW r, NEW n, NEW b, Change(c, r, n, b)
    PROVE  /\ Pool' /\ Balanced
           /\ conn' \in [Conns -> ConnType] /\ pooled' \in [Conns -> Nat] /\ blank' \in [Slices -> Nat]
<1>1. /\ c \in Conns /\ r \in ConnType /\ n \in {0, 1} /\ b \in Nat
      /\ conn' = [conn EXCEPT ![c] = r] /\ pooled' = [pooled EXCEPT ![c] = n]
      /\ blank' = [blank EXCEPT ![c[1]] = b]
      /\ \A d \in Conns : d # c => \A s \in Sessions, sl \in Slices : Holds(s, sl, d)' <=> Holds(s, sl, d)
  BY Zenon DEF Change
<1>2. c[1] \in Slices  BY <1>1 DEF Conns
<1>3. conn' \in [Conns -> ConnType] /\ pooled' \in [Conns -> Nat] /\ blank' \in [Slices -> Nat]
  BY <1>1, <1>2 DEF TypeOK
<1>4. conn'[c] = r /\ pooled'[c] = n /\ blank'[c[1]] = b  BY <1>1, <1>2 DEF TypeOK
<1>5. \A d \in Conns : d # c => conn'[d] = conn[d] /\ pooled'[d] = pooled[d]  BY <1>1 DEF TypeOK
<1>6. \A sl \in Slices : sl # c[1] => blank'[sl] = blank[sl]  BY <1>1 DEF TypeOK
<1>7. \A d \in Conns : Connected(d)'
  <2> SUFFICES ASSUME NEW d \in Conns PROVE Connected(d)'  OBVIOUS
  <2>1. CASE d = c  BY <1>1, <1>4, <2>1, Zenon DEF Connected, Change
  <2>2. CASE d # c
    <3>1. Connected(d)  BY Zenon DEF Pool
    <3>2. conn'[d] = conn[d] /\ pooled'[d] = pooled[d]  BY <1>5, <2>2
    <3> QED  BY <3>1, <3>2, Zenon DEF Connected
  <2> QED  BY <2>1, <2>2
<1>8. Leases'
  <2> SUFFICES ASSUME NEW s \in Sessions, NEW t \in Sessions, NEW sl \in Slices, NEW tl \in Slices,
                      NEW d \in Conns
               PROVE  /\ Holds(s, sl, d)' => pooled'[d] = 0 /\ conn'[d].live
                      /\ Holds(s, sl, d)' /\ Holds(t, tl, d)' => s = t
    BY Zenon DEF Leases
  <2>1. CASE d = c  BY <1>4, <2>1, Zenon DEF Change
  <2>2. CASE d # c
    <3>1. conn'[d] = conn[d] /\ pooled'[d] = pooled[d]  BY <1>5, <2>2
    <3>2. (Holds(s, sl, d)' <=> Holds(s, sl, d)) /\ (Holds(t, tl, d)' <=> Holds(t, tl, d))
      BY <1>1, <2>2, Zenon
    <3> QED  BY <3>1, <3>2, Zenon DEF Pool, Leases
  <2> QED  BY <2>1, <2>2
<1>9. Balanced
  <2>1. \A d \in Conns : d # c => (Held(d)' <=> Held(d))  BY <1>1, Zenon DEF Held
  <2>2. n + b + Bit(Held(c)') = pooled[c] + blank[c[1]] + Bit(Held(c))  BY Zenon DEF Change
  <2>3. Transfer(c, n, b)  BY <1>1, <2>1, <2>2, Zenon DEF Transfer
  <2> QED  BY <1>1, <2>3, Zenon DEF Balanced
<1> QED  BY <1>3, <1>7, <1>8, <1>9, Zenon DEF Pool

\* A step that leaves the pools alone, and everyone the connections it holds.
LEMMA SameKeeps ==
    ASSUME TypeOK, Pool, UNCHANGED poolVars,
           \A s \in Sessions, sl \in Slices, c \in Conns : Holds(s, sl, c)' <=> Holds(s, sl, c)
    PROVE  /\ Pool' /\ Balanced
           /\ conn' \in [Conns -> ConnType] /\ pooled' \in [Conns -> Nat] /\ blank' \in [Slices -> Nat]
<1>1. conn' = conn /\ pooled' = pooled /\ blank' = blank  BY DEF poolVars
<1>2. conn' \in [Conns -> ConnType] /\ pooled' \in [Conns -> Nat] /\ blank' \in [Slices -> Nat]
  BY <1>1 DEF TypeOK
<1>3. \A c \in Conns : Connected(c)'  BY <1>1, Zenon DEF Pool, Connected
<1>4. Leases'  BY <1>1, ZenonT(40) DEF Pool, Leases
<1>5. \A c \in Conns : Held(c)' <=> Held(c)  BY Zenon DEF Held
<1> QED  BY <1>1, <1>2, <1>3, <1>4, <1>5, Zenon DEF Pool, Balanced

-----------------------------------------------------------------------------
(* A step of one goroutine of one session.                                 *)

Moves(s, p, st, tx, pc, lk, cl, place, td, cmd, rp) ==
    /\ st \in Bits /\ Fits(tx) /\ Fits(pc) /\ lk \in Procs \cup {"free"} /\ cl \in BOOLEAN
    /\ place \in Places /\ td \in SUBSET Slices /\ cmd \in Commands /\ rp \in {"ok", "err"}
    /\ status' = [status EXCEPT ![s] = st] /\ txConns' = [txConns EXCEPT ![s] = tx]
    /\ pcs' = [pcs EXCEPT ![s] = pc] /\ lock' = [lock EXCEPT ![s] = lk]
    /\ closed' = [closed EXCEPT ![s] = cl] /\ reply' = [reply EXCEPT ![s] = rp]
    /\ at' = [at EXCEPT ![s][p] = place] /\ todo' = [todo EXCEPT ![s][p] = td]
    /\ op' = [op EXCEPT ![s][p] = cmd]

(* The session as that step leaves it, and the other sessions.             *)
Moved(s, p, st, tx, pc, lk, place, td, cmd) ==
    /\ status'[s] = st /\ txConns'[s] = tx /\ pcs'[s] = pc /\ lock'[s] = lk
    /\ at'[s][p] = place /\ todo'[s][p] = td /\ op'[s][p] = cmd
    /\ \A q \in Procs : q # p => at'[s][q] = at[s][q] /\ todo'[s][q] = todo[s][q] /\ op'[s][q] = op[s][q]

Histories ==
    /\ crashed \in BOOLEAN /\ clientTx \in [Sessions -> BOOLEAN]
    /\ acked \in [Sessions -> SUBSET Slices] /\ applied \in [Sessions -> SUBSET Slices]

PoolTypes == conn \in [Conns -> ConnType] /\ pooled \in [Conns -> Nat] /\ blank \in [Slices -> Nat]

\* A step of one goroutine that writes what fits keeps the types.
LEMMA MovesTyped ==
    ASSUME TypeOK, NEW s \in Sessions, NEW p \in Procs, NEW st, NEW tx, NEW pc, NEW lk, NEW cl,
           NEW place, NEW td, NEW cmd, NEW rp, Moves(s, p, st, tx, pc, lk, cl, place, td, cmd, rp),
           Histories', PoolTypes'
    PROVE  TypeOK'
<1> USE DEF Moves
<1>1. status' \in [Sessions -> [inTrans : BOOLEAN, autocommit : BOOLEAN]]  BY DEF TypeOK, Bits
<1>2. txConns' \in [Sessions -> Row] /\ pcs' \in [Sessions -> Row]  BY DEF TypeOK, Fits, Row
<1>3. \A t \in Sessions, sl \in Slices, c \in Conns :
        txConns'[t][sl] = c \/ pcs'[t][sl] = c => c[1] = sl
  <2> SUFFICES ASSUME NEW t \in Sessions
               PROVE  \A sl \in Slices, c \in Conns : txConns'[t][sl] = c \/ pcs'[t][sl] = c => c[1] = sl
    OBVIOUS
  <2>1. CASE t = s
    <3>1. txConns'[t] = tx /\ pcs'[t] = pc  BY <2>1 DEF TypeOK
    <3> QED  BY <3>1, Zenon DEF Fits
  <2>2. CASE t # s
    <3>1. txConns'[t] = txConns[t] /\ pcs'[t] = pcs[t]  BY <2>2 DEF TypeOK
    <3>2. \A sl \in Slices, c \in Conns : txConns[t][sl] = c \/ pcs[t][sl] = c => c[1] = sl
      BY DEF TypeOK
    <3> QED  BY <3>1, <3>2
  <2> QED  BY <2>1, <2>2
<1>4. lock' \in [Sessions -> Procs \cup {"free"}] /\ closed' \in [Sessions -> BOOLEAN]
      /\ reply' \in [Sessions -> {"ok", "err"}]
  BY DEF TypeOK
<1>5. at' \in [Sessions -> [Procs -> Places]]  BY DEF TypeOK
<1>6. todo' \in [Sessions -> [Procs -> SUBSET Slices]]  BY DEF TypeOK
<1>7. op' \in [Sessions -> [Procs -> Commands]]  BY DEF TypeOK
<1> QED  BY <1>1, <1>2, <1>3, <1>4, <1>5, <1>6, <1>7 DEF TypeOK, Row, Histories, PoolTypes

\* A step of one goroutine, seen from its session and from the others.
LEMMA MovesMoved ==
    ASSUME TypeOK, NEW s \in Sessions, NEW p \in Procs, NEW st, NEW tx, NEW pc, NEW lk, NEW cl,
           NEW place, NEW td, NEW cmd, NEW rp, Moves(s, p, st, tx, pc, lk, cl, place, td, cmd, rp)
    PROVE  Moved(s, p, st, tx, pc, lk, place, td, cmd) /\ \A t \in Sessions : t # s => Apart(t)
<1> USE DEF Moves
<1>1. status'[s] = st /\ \A t \in Sessions : t # s => status'[t] = status[t]  BY DEF TypeOK
<1>2. txConns'[s] = tx /\ \A t \in Sessions : t # s => txConns'[t] = txConns[t]  BY DEF TypeOK
<1>3. pcs'[s] = pc /\ \A t \in Sessions : t # s => pcs'[t] = pcs[t]  BY DEF TypeOK
<1>4. lock'[s] = lk /\ \A t \in Sessions : t # s => lock'[t] = lock[t]  BY DEF TypeOK
<1>5. /\ at'[s][p] = place /\ \A q \in Procs : q # p => at'[s][q] = at[s][q]
      /\ \A t \in Sessions : t # s => at'[t] = at[t]
  BY DEF TypeOK
<1>6. /\ todo'[s][p] = td /\ \A q \in Procs : q # p => todo'[s][q] = todo[s][q]
      /\ \A t \in Sessions : t # s => todo'[t] = todo[t]
  BY DEF TypeOK
<1>7. /\ op'[s][p] = cmd /\ \A q \in Procs : q # p => op'[s][q] = op[s][q]
      /\ \A t \in Sessions : t # s => op'[t] = op[t]
  BY DEF TypeOK
<1> HIDE DEF Moves
<1> QED  BY <1>1, <1>2, <1>3, <1>4, <1>5, <1>6, <1>7, Zenon DEF Moved, Apart

\* The other sessions are as they were and hold what they held.
LEMMA ApartShape ==
    ASSUME NEW t \in Sessions, Apart(t), Shape(t)
    PROVE  Shape(t)' /\ \A sl \in Slices, c \in Conns : Holds(t, sl, c)' <=> Holds(t, sl, c)
<1> USE DEF Apart
<1>1. Wheel(t)' /\ Doing(t)'  BY Zenon DEF Shape, Wheel, Doing
<1>2. Leasing(t)' /\ Transaction(t)'
  BY DEF Shape, Leasing, Transaction, Leased, InTx, IsInTransaction, IsAutoCommit
<1>3. \A sl \in Slices, c \in Conns : Holds(t, sl, c)' <=> Holds(t, sl, c)  BY DEF Holds, Released
<1> QED  BY <1>1, <1>2, <1>3 DEF Shape

\* What depends on the connections and the status of a session alone.
LEMMA SameParts ==
    ASSUME NEW s
    PROVE  /\ pcs'[s] = pcs[s] => Leased(s)' = Leased(s)
           /\ txConns'[s] = txConns[s] => InTx(s)' = InTx(s)
           /\ status'[s] = status[s] => (IsInTransaction(s)' <=> IsInTransaction(s))
           /\ pcs[s] = NoConns => Leased(s) = {}
           /\ pcs'[s] = NoConns => Leased(s)' = {}
           /\ txConns[s] = NoConns => InTx(s) = {}
<1>1. pcs'[s] = pcs[s] => Leased(s)' = Leased(s)  BY DEF Leased
<1>2. txConns'[s] = txConns[s] => InTx(s)' = InTx(s)  BY DEF InTx
<1>3. status'[s] = status[s] => (IsInTransaction(s)' <=> IsInTransaction(s))
  BY Zenon DEF IsInTransaction, IsAutoCommit
<1>4. /\ pcs[s] = NoConns => Leased(s) = {}
      /\ pcs'[s] = NoConns => Leased(s)' = {}
      /\ txConns[s] = NoConns => InTx(s) = {}
  BY DEF Leased, InTx, NoConns
<1> QED  BY <1>1, <1>2, <1>3, <1>4

\* A step of a session keeps the invariant when it keeps the session's own
\* part and the pools'.
LEMMA StepKeeps ==
    ASSUME IInv, NEW s \in Sessions, NEW p \in Procs, NEW st, NEW tx, NEW pc, NEW lk, NEW cl,
           NEW place, NEW td, NEW cmd, NEW rp, Moves(s, p, st, tx, pc, lk, cl, place, td, cmd, rp),
           Histories', Shape(s)', Pool', PoolTypes', Balanced
    PROVE  Keeps
<1>1. TypeOK'  BY MovesTyped DEF IInv
<1>2. \A t \in Sessions : t # s => Apart(t)  BY MovesMoved DEF IInv
<1>3. \A t \in Sessions : Shape(t)'  BY <1>2, ApartShape DEF IInv
<1> QED  BY <1>1, <1>3 DEF IInv, Keeps

\* One that neither touches a connection nor begins or ends the release of a
\* transaction's connections.
LEMMA PlainKeeps ==
    ASSUME IInv, NEW s \in Sessions, NEW p \in Procs, NEW st, NEW lk, NEW cl, NEW place, NEW td,
           NEW cmd, NEW rp, Moves(s, p, st, txConns[s], pcs[s], lk, cl, place, td, cmd, rp),
           at[s][p] # "finish", place # "finish", UNCHANGED poolVars, Histories',
           Wheel(s)', Doing(s)', Leasing(s)', Transaction(s)'
    PROVE  Keeps
<1>1. /\ Moved(s, p, st, txConns[s], pcs[s], lk, place, td, cmd)
      /\ \A t \in Sessions : t # s => Apart(t)
  BY MovesMoved DEF IInv
<1>2. lock[s] \in Procs \cup {"free"} /\ lock'[s] \in Procs \cup {"free"}
  BY <1>1, Own DEF IInv, Moves, Moved
<1>3. ASSUME NEW sl \in Slices, NEW c \in Conns PROVE Holds(s, sl, c)' <=> Holds(s, sl, c)
  <2>1. Letting(s, sl)' <=> Letting(s, sl)  BY <1>1, Zenon DEF Letting, Moved
  <2>2. Released(s, sl)' <=> Released(s, sl)  BY <1>2, <2>1, ReleasedIs, Zenon DEF IInv, Shape
  <2> QED  BY <1>1, <2>2, Zenon DEF Holds, Moved
<1>4. \A t \in Sessions, sl \in Slices, c \in Conns : Holds(t, sl, c)' <=> Holds(t, sl, c)
  BY <1>1, <1>3, ApartShape DEF IInv
<1>5. Pool' /\ PoolTypes' /\ Balanced  BY <1>4, SameKeeps, Zenon DEF IInv, PoolTypes
<1> QED  BY <1>5, StepKeeps, Zenon DEF Shape

\* The histories are typed when they stay as they are.
LEMMA HistorySame ==
    ASSUME TypeOK, UNCHANGED <<clientVars, crashed>>
    PROVE  Histories'
BY DEF TypeOK, clientVars, Histories

\* A step inside a statement keeps what is said of the goroutines.
LEMMA InnerShape ==
    ASSUME NEW s \in Sessions, Shape(s), at[s]["cmd"] \in Busy, lock'[s] = lock[s],
           at'[s]["wheel"] = at[s]["wheel"], op'[s] = op[s],
           at'[s]["cmd"] \in Busy \cup {"reply"}
    PROVE  /\ Wheel(s)' /\ Doing(s)' /\ (\A p \in Procs : at'[s][p] \notin {"begin", "finish"})
           /\ (~IsInTransaction(s)' => txConns'[s] = NoConns) => Transaction(s)'
<1>1. /\ at[s]["wheel"] = "idle" /\ (\A p \in Procs : at[s][p] \notin {"begin", "finish"})
      /\ \A p \in Procs : lock[s] # p
  BY BusyFacts
<1>2. at'[s]["cmd"] \notin {"lock", "begin", "finish", "store"}  BY DEF Busy
<1>3. \A p \in Procs : at'[s][p] \notin {"begin", "finish"}  BY <1>1, <1>2 DEF Procs
<1>4. Wheel(s)'  BY <1>1 DEF Wheel, Closing
<1>5. Doing(s)'  BY <1>1, <1>2, <1>3 DEF Doing, Shape, Busy
<1> QED  BY <1>3, <1>4, <1>5, Zenon DEF Transaction

\* A step that leaves the pools alone, and everyone the connections it holds,
\* although it sets the session's own variables.
LEMMA SwapKeeps ==
    ASSUME IInv, NEW s \in Sessions, NEW p \in Procs, NEW st, NEW tx, NEW pc, NEW lk, NEW cl,
           NEW place, NEW td, NEW cmd, NEW rp, Moves(s, p, st, tx, pc, lk, cl, place, td, cmd, rp),
           UNCHANGED poolVars, Histories', Shape(s)',
           \A sl \in Slices, c \in Conns : Holds(s, sl, c)' <=> Holds(s, sl, c)
    PROVE  Keeps
<1>1. \A t \in Sessions : t # s => Apart(t)  BY MovesMoved DEF IInv
<1>2. \A t \in Sessions, sl \in Slices, c \in Conns : Holds(t, sl, c)' <=> Holds(t, sl, c)
  BY <1>1, ApartShape DEF IInv
<1>3. Pool' /\ PoolTypes' /\ Balanced  BY <1>2, SameKeeps, Zenon DEF IInv, PoolTypes
<1> QED  BY <1>3, StepKeeps, Zenon

-----------------------------------------------------------------------------
(* A session uses, takes, loses and gives back a connection.               *)

\* A session uses a connection it holds.
LEMMA WorkKeeps ==
    ASSUME IInv, NEW s \in Sessions, NEW p \in Procs, NEW st, NEW tx, NEW pc, NEW lk, NEW cl,
           NEW place, NEW td, NEW cmd, NEW rp, Moves(s, p, st, tx, pc, lk, cl, place, td, cmd, rp),
           Histories', Shape(s)', NEW c \in Conns, NEW r, Sound(r), NEW sl \in Slices, Holds(s, sl, c),
           conn' = [conn EXCEPT ![c] = r], UNCHANGED <<pooled, blank>>,
           \A tl \in Slices, d \in Conns : Holds(s, tl, d)' <=> Holds(s, tl, d)
    PROVE  Keeps
<1>1. \A t \in Sessions : t # s => Apart(t)  BY MovesMoved DEF IInv
<1>2. \A t \in Sessions, tl \in Slices, d \in Conns : Holds(t, tl, d)' <=> Holds(t, tl, d)
  BY <1>1, ApartShape DEF IInv
<1>3. TypeOK /\ Pool /\ c[1] \in Slices  BY DEF IInv, Conns
<1>4. pooled[c] = 0 /\ \A t \in Sessions, tl \in Slices : Holds(t, tl, c) => t = s
  BY <1>3, Zenon DEF Pool, Leases
<1>5. r \in ConnType /\ r.live /\ Tidy(r)  BY DEF Sound
<1>6. blank[c[1]] \in Nat  BY <1>3 DEF TypeOK
<1>7. pooled' = [pooled EXCEPT ![c] = 0] /\ blank' = [blank EXCEPT ![c[1]] = blank[c[1]]]
  BY <1>3, <1>4 DEF TypeOK
<1>8. Held(c)' <=> Held(c)  BY <1>2, Zenon DEF Held
<1>9. 0 + blank[c[1]] + Bit(Held(c)') = pooled[c] + blank[c[1]] + Bit(Held(c))
  BY <1>4, <1>8 DEF Bit
<1>10. \A t, u \in Sessions, tl, ul \in Slices : Holds(t, tl, c)' /\ Holds(u, ul, c)' => t = u
  BY <1>2, <1>4, Zenon
<1>11. Change(c, r, 0, blank[c[1]])
  <2>1. \A d \in Conns : d # c => \A t \in Sessions, tl \in Slices : Holds(t, tl, d)' <=> Holds(t, tl, d)
    BY <1>2, Zenon
  <2>2. 0 \in {0, 1} /\ 0 # 1  OBVIOUS
  <2> QED  BY <1>5, <1>6, <1>7, <1>9, <1>10, <2>1, <2>2, Zenon DEF Change
<1>12. Pool' /\ PoolTypes' /\ Balanced  BY <1>3, <1>11, ChangeKeeps, Zenon DEF PoolTypes
<1> QED  BY <1>12, StepKeeps, Zenon

\* A session takes a connection from its pool.
LEMMA TakeKeeps ==
    ASSUME IInv, NEW s \in Sessions, NEW p \in Procs, NEW st, NEW tx, NEW pc, NEW lk, NEW cl,
           NEW place, NEW td, NEW cmd, NEW rp, Moves(s, p, st, tx, pc, lk, cl, place, td, cmd, rp),
           Histories', Shape(s)', NEW c \in Conns, NEW r, Sound(r), Available(c), Take(c),
           conn' = [conn EXCEPT ![c] = r], NEW sl \in Slices, Holds(s, sl, c)',
           \A tl \in Slices, d \in Conns : d # c => (Holds(s, tl, d)' <=> Holds(s, tl, d))
    PROVE  Keeps
<1>1. \A t \in Sessions : t # s => Apart(t)  BY MovesMoved DEF IInv
<1>2. \A t \in Sessions, tl \in Slices, d \in Conns : t # s => (Holds(t, tl, d)' <=> Holds(t, tl, d))
  BY <1>1, ApartShape DEF IInv
<1>3. TypeOK /\ Pool  BY DEF IInv
<1>4. /\ ~Held(c) /\ pooled[c] \in {0, 1} /\ c[1] \in Slices /\ blank[c[1]] \in Nat
      /\ pooled[c] = 0 => blank[c[1]] > 0
  BY AvailableFree
<1>5. r \in ConnType /\ r.live /\ Tidy(r)  BY DEF Sound
<1>6. PICK b \in Nat : /\ pooled' = [pooled EXCEPT ![c] = 0] /\ blank' = [blank EXCEPT ![c[1]] = b]
                       /\ b + 1 = pooled[c] + blank[c[1]]
  <2>1. CASE pooled[c] = 1
    <3>1. pooled' = [pooled EXCEPT ![c] = 0] /\ blank' = blank  BY <2>1 DEF Take
    <3>2. blank' = [blank EXCEPT ![c[1]] = blank[c[1]]]  BY <1>3, <1>4, <3>1 DEF TypeOK
    <3>3. blank[c[1]] \in Nat /\ blank[c[1]] + 1 = pooled[c] + blank[c[1]]  BY <1>4, <2>1, SMTT(30)
    <3> QED  BY <3>1, <3>2, <3>3, Zenon
  <2>2. CASE pooled[c] = 0
    <3>1. pooled' = pooled /\ blank' = [blank EXCEPT ![c[1]] = blank[c[1]] - 1]  BY <2>2 DEF Take
    <3>2. pooled' = [pooled EXCEPT ![c] = 0]  BY <1>3, <2>2, <3>1 DEF TypeOK
    <3>3. blank[c[1]] - 1 \in Nat /\ (blank[c[1]] - 1) + 1 = pooled[c] + blank[c[1]]  BY <1>4, <2>2, SMTT(30)
    <3> QED  BY <3>1, <3>2, <3>3, Zenon
  <2> QED  BY <1>4, <2>1, <2>2
<1>7. Held(c)' /\ \A t \in Sessions, tl \in Slices : Holds(t, tl, c)' => t = s
  BY <1>2, <1>4, Zenon DEF Held
<1>8. 0 + b + Bit(Held(c)') = pooled[c] + blank[c[1]] + Bit(Held(c))  BY <1>4, <1>6, <1>7 DEF Bit
<1>9. \A d \in Conns : d # c => \A t \in Sessions, tl \in Slices : Holds(t, tl, d)' <=> Holds(t, tl, d)
  BY <1>2, Zenon
<1>10. \A t, u \in Sessions, tl, ul \in Slices : Holds(t, tl, c)' /\ Holds(u, ul, c)' => t = u
  BY <1>7, Zenon
<1>11. Change(c, r, 0, b)
  <2>1. 0 \in {0, 1} /\ 0 # 1  OBVIOUS
  <2> QED  BY <1>5, <1>6, <1>8, <1>9, <1>10, <2>1, Zenon DEF Change
<1>12. Pool' /\ PoolTypes' /\ Balanced  BY <1>3, <1>11, ChangeKeeps, Zenon DEF PoolTypes
<1> QED  BY <1>12, StepKeeps, Zenon

\* A connection on which no transaction can be begun is dropped.
LEMMA DropKeeps ==
    ASSUME IInv, NEW s \in Sessions, NEW p \in Procs, NEW st, NEW tx, NEW pc, NEW lk, NEW cl,
           NEW place, NEW td, NEW cmd, NEW rp, Moves(s, p, st, tx, pc, lk, cl, place, td, cmd, rp),
           Histories', Shape(s)', NEW c \in Conns, Available(c), conn' = [conn EXCEPT ![c] = Dead],
           pooled' = IF pooled[c] > 0 THEN [pooled EXCEPT ![c] = @ - 1] ELSE pooled,
           blank' = IF pooled[c] > 0 THEN [blank EXCEPT ![c[1]] = @ + 1] ELSE blank,
           \A tl \in Slices, d \in Conns : Holds(s, tl, d)' <=> Holds(s, tl, d)
    PROVE  Keeps
<1>1. \A t \in Sessions : t # s => Apart(t)  BY MovesMoved DEF IInv
<1>2. \A t \in Sessions, tl \in Slices, d \in Conns : Holds(t, tl, d)' <=> Holds(t, tl, d)
  BY <1>1, ApartShape DEF IInv
<1>3. TypeOK /\ Pool  BY DEF IInv
<1>4. ~Held(c) /\ pooled[c] \in {0, 1} /\ c[1] \in Slices /\ blank[c[1]] \in Nat  BY AvailableFree
<1>5. Dead \in ConnType /\ ~Dead.live  BY DeadFacts
<1>6. PICK b \in Nat : /\ pooled' = [pooled EXCEPT ![c] = 0] /\ blank' = [blank EXCEPT ![c[1]] = b]
                       /\ b = pooled[c] + blank[c[1]]
  <2>1. CASE pooled[c] = 1
    <3>1. pooled' = [pooled EXCEPT ![c] = 0] /\ blank' = [blank EXCEPT ![c[1]] = blank[c[1]] + 1]
      BY <2>1
    <3>2. blank[c[1]] + 1 \in Nat /\ blank[c[1]] + 1 = pooled[c] + blank[c[1]]  BY <1>4, <2>1
    <3> QED  BY <3>1, <3>2, Zenon
  <2>2. CASE pooled[c] = 0
    <3>1. pooled' = pooled /\ blank' = blank  BY <2>2
    <3>2. pooled' = [pooled EXCEPT ![c] = 0] /\ blank' = [blank EXCEPT ![c[1]] = blank[c[1]]]
      BY <1>3, <1>4, <2>2, <3>1 DEF TypeOK
    <3>3. blank[c[1]] = pooled[c] + blank[c[1]]  BY <1>4, <2>2
    <3> QED  BY <1>4, <3>2, <3>3, Zenon
  <2> QED  BY <1>4, <2>1, <2>2, Zenon
<1>7. ~Held(c)' /\ \A t \in Sessions, tl \in Slices : ~Holds(t, tl, c)'
  BY <1>2, <1>4, Zenon DEF Held
<1>8. 0 + b + Bit(Held(c)') = pooled[c] + blank[c[1]] + Bit(Held(c))  BY <1>4, <1>6, <1>7 DEF Bit
<1>9. \A d \in Conns : d # c => \A t \in Sessions, tl \in Slices : Holds(t, tl, d)' <=> Holds(t, tl, d)
  BY <1>2, Zenon
<1>10. Change(c, Dead, 0, b)
  <2>1. 0 \in {0, 1} /\ 0 # 1  OBVIOUS
  <2> QED  BY <1>5, <1>6, <1>7, <1>8, <1>9, <2>1, Zenon DEF Change
<1>11. Pool' /\ PoolTypes' /\ Balanced  BY <1>3, <1>10, ChangeKeeps, Zenon DEF PoolTypes
<1> QED  BY <1>11, StepKeeps, Zenon

\* One token more.
LEMMA OneMore ==
    ASSUME NEW b \in Nat
    PROVE  /\ 0 \in {0, 1} /\ 1 \in {0, 1} /\ 0 # 1 /\ 1 + b = b + 1
           /\ b + 1 \in Nat /\ 0 + (b + 1) = b + 1
OBVIOUS

\* Where GiveBack puts the token of a connection that no wrapper holds.
LEMMA GivenTo ==
    ASSUME NEW c, NEW k, GiveBack(c, k), pooled[c] = 0
    PROVE  /\ k.to = "pool" => pooled' = [pooled EXCEPT ![c] = 1] /\ blank' = blank
           /\ k.to = "blank" => pooled' = pooled /\ blank' = [blank EXCEPT ![c[1]] = blank[c[1]] + 1]
BY SMTT(30) DEF GiveBack

\* A session gives a connection back (Recycle, GiveBack).
LEMMA GiveKeeps ==
    ASSUME Calm, IInv, NEW s \in Sessions, NEW p \in Procs, NEW st, NEW tx, NEW pc, NEW lk, NEW cl,
           NEW place, NEW td, NEW cmd, NEW rp, Moves(s, p, st, tx, pc, lk, cl, place, td, cmd, rp),
           Histories', Shape(s)', NEW c \in Conns, NEW r, Sound(r), NEW k \in Recycle(r), GiveBack(c, k),
           conn' = [conn EXCEPT ![c] = k.conn], NEW sl \in Slices, Holds(s, sl, c),
           \A tl \in Slices : ~Holds(s, tl, c)',
           \A tl \in Slices, d \in Conns : d # c => (Holds(s, tl, d)' <=> Holds(s, tl, d))
    PROVE  Keeps
<1>1. \A t \in Sessions : t # s => Apart(t)  BY MovesMoved DEF IInv
<1>2. \A t \in Sessions, tl \in Slices, d \in Conns : t # s => (Holds(t, tl, d)' <=> Holds(t, tl, d))
  BY <1>1, ApartShape DEF IInv
<1>3. TypeOK /\ Pool /\ c[1] \in Slices  BY DEF IInv, Conns
<1>4. pooled[c] = 0 /\ \A t \in Sessions, tl \in Slices : Holds(t, tl, c) => t = s
  BY <1>3, Zenon DEF Pool, Leases
<1>5. /\ k.to \in {"pool", "blank"} /\ k.conn \in ConnType
      /\ k.to = "pool" => Sound(k.conn) /\ ~k.conn.closed /\ k.conn.srv = Clean
      /\ k.to = "blank" => ~k.conn.live
  BY RecycleFacts, Zenon
<1>6. blank[c[1]] \in Nat  BY <1>3 DEF TypeOK
<1>7. PICK n \in {0, 1}, b \in Nat :
        /\ pooled' = [pooled EXCEPT ![c] = n] /\ blank' = [blank EXCEPT ![c[1]] = b]
        /\ n + b = blank[c[1]] + 1 /\ (n = 1 => k.to = "pool")
  <2>1. CASE k.to = "pool"
    <3>1. pooled' = [pooled EXCEPT ![c] = 1] /\ blank' = blank  BY <1>4, <2>1, GivenTo
    <3>2. blank' = [blank EXCEPT ![c[1]] = blank[c[1]]]  BY <1>3, <3>1 DEF TypeOK
    <3>3. 1 \in {0, 1} /\ 1 + blank[c[1]] = blank[c[1]] + 1  BY <1>6, OneMore, Zenon
    <3> QED  BY <1>6, <2>1, <3>1, <3>2, <3>3, Zenon
  <2>2. CASE k.to = "blank"
    <3>1. pooled' = pooled /\ blank' = [blank EXCEPT ![c[1]] = blank[c[1]] + 1]  BY <1>4, <2>2, GivenTo
    <3>2. pooled' = [pooled EXCEPT ![c] = 0]  BY <1>3, <1>4, <3>1 DEF TypeOK
    <3>3. 0 \in {0, 1} /\ 0 # 1 /\ blank[c[1]] + 1 \in Nat /\ 0 + (blank[c[1]] + 1) = blank[c[1]] + 1
      BY <1>6, OneMore, Zenon
    <3> QED  BY <3>1, <3>2, <3>3, Zenon
  <2> QED  BY <1>5, <2>1, <2>2
<1>8. Held(c) /\ ~Held(c)' /\ \A t \in Sessions, tl \in Slices : ~Holds(t, tl, c)'
  BY <1>2, <1>4, Zenon DEF Held
<1>9. n + b + Bit(Held(c)') = pooled[c] + blank[c[1]] + Bit(Held(c))
  BY <1>4, <1>6, <1>7, <1>8 DEF Bit
<1>10. \A d \in Conns : d # c => \A t \in Sessions, tl \in Slices : Holds(t, tl, d)' <=> Holds(t, tl, d)
  BY <1>2, Zenon
<1>11. /\ k.conn.live => Tidy(k.conn)
       /\ n = 1 => k.conn.live /\ ~k.conn.closed /\ k.conn.srv = Clean
  BY <1>5, <1>7 DEF Sound
<1>12. Change(c, k.conn, n, b)  BY <1>5, <1>7, <1>8, <1>9, <1>10, <1>11, Zenon DEF Change
<1>13. Pool' /\ PoolTypes' /\ Balanced  BY <1>3, <1>12, ChangeKeeps, Zenon DEF PoolTypes
<1> QED  BY <1>13, StepKeeps, Zenon

(* Inside a statement a session holds its connections of both kinds.       *)
Inside(s) ==
    \A sl \in Slices : \A d :
        /\ Holds(s, sl, d) <=> pcs[s][sl] = d \/ txConns[s][sl] = d
        /\ Holds(s, sl, d)' <=> pcs'[s][sl] = d \/ txConns'[s][sl] = d

\* What a session holds inside a statement.
LEMMA InnerHolds ==
    ASSUME TypeOK, NEW s \in Sessions, Shape(s), at[s]["cmd"] \in Busy, lock'[s] = lock[s],
           Doing(s)', \A p \in Procs : at'[s][p] \notin {"begin", "finish"}
    PROVE  Inside(s)
<1>1. \A sl : ~Letting(s, sl) /\ ~Letting(s, sl)'  BY BusyFacts DEF Letting
<1>2. lock[s] \in Procs \cup {"free"}  BY Own
<1>3. \A sl : ~Released(s, sl) /\ ~Released(s, sl)'
  BY <1>1, <1>2, ReleasedIs DEF Shape
<1> QED  BY <1>3, Zenon DEF Inside, Holds

\* The slices where writes are durable, after a statement on one of them.
LEMMA DurableTyped ==
    ASSUME TypeOK, NEW who, NEW sl \in Slices, MakeDurable(who, sl)
    PROVE  applied' \in [Sessions -> SUBSET Slices]
<1>1. \A t \in Sessions : (IF t \in who THEN applied[t] \cup {sl} ELSE applied[t]) \in SUBSET Slices
  <2> SUFFICES ASSUME NEW t \in Sessions
               PROVE  (IF t \in who THEN applied[t] \cup {sl} ELSE applied[t]) \in SUBSET Slices
    OBVIOUS
  <2>1. applied[t] \in SUBSET Slices  BY DEF TypeOK
  <2> QED  BY <2>1
<1> QED  BY <1>1, Zenon DEF MakeDurable

\* One of a session's connections set or cleared.
Updated(x, sl, v) == [x EXCEPT ![sl] = v]

Becomes(x, sl, v, y) == Fits(y) /\ y[sl] = v /\ \A tl \in Slices : tl # sl => y[tl] = x[tl]

\* One of a session's connections set or cleared still fits.
LEMMA RowSet ==
    ASSUME NEW x, Fits(x), NEW sl \in Slices, NEW v, v = NoConn \/ (v \in Conns /\ v[1] = sl)
    PROVE  Becomes(x, sl, v, Updated(x, sl, v))
<1> DEFINE y == Updated(x, sl, v)
<1>1. x \in Row /\ \A tl \in Slices, d \in Conns : x[tl] = d => d[1] = tl  BY DEF Fits
<1>2. y \in Row /\ y[sl] = v /\ \A tl \in Slices : tl # sl => y[tl] = x[tl]
  BY <1>1 DEF Row, Updated
<1> HIDE DEF y
<1>3. ASSUME NEW tl \in Slices, NEW d \in Conns, y[tl] = d PROVE d[1] = tl
  <2>1. CASE tl = sl  BY <1>2, <1>3, <2>1, NoConnAssumption
  <2>2. CASE tl # sl  BY <1>1, <1>2, <1>3, <2>2
  <2> QED  BY <2>1, <2>2
<1> QED  BY <1>2, <1>3, Zenon DEF Becomes, Fits, y

-----------------------------------------------------------------------------
(* The steps that take, use and give back no connection.                   *)

\* A client sends a statement while no goroutine is at work (Query).
LEMMA QueryKeeps ==
    ASSUME Calm, IInv, NEW s \in Sessions, Query(s)
    PROVE  Keeps
<1>0. TypeOK /\ Shape(s) /\ "cmd" \in Procs /\ "wheel" \in Procs  BY DEF IInv, Procs
<1>1. PICK q \in Queries, T \in SUBSET Slices :
        op' = [op EXCEPT ![s]["cmd"] = q] /\ todo' = [todo EXCEPT ![s]["cmd"] = T]
  BY Zenon DEF Query
<1>2. at[s]["cmd"] = "idle" /\ at[s]["wheel"] = "idle"  BY DEF Query, Listening, At, Calm
<1>3. at' = [at EXCEPT ![s]["cmd"] = "get"] /\ UNCHANGED <<sessionVars, pcs, reply, poolVars, clientVars, crashed>>
  BY DEF Query, Goto
<1>4. Moves(s, "cmd", status[s], txConns[s], pcs[s], lock[s], closed[s], "get", T, q, reply[s])
  BY <1>0, <1>1, <1>3, Own DEF Moves, sessionVars, Places, Commands
<1>5. Moved(s, "cmd", status[s], txConns[s], pcs[s], lock[s], "get", T, q)  BY <1>0, <1>4, MovesMoved
<1>6. Wheel(s)' /\ Doing(s)'
  BY <1>0, <1>2, <1>5 DEF Shape, Wheel, Doing, Moved, Busy, Closing, Procs
<1>7. Leasing(s)' /\ Transaction(s)'
  <2>1. pcs[s] = NoConns /\ Leased(s)' = {}
    BY <1>0, <1>2, <1>5, SameParts, Zenon DEF Shape, Leasing, Busy, Moved
  <2>2. Leasing(s)'  BY <1>5, <2>1, Zenon DEF Leasing, Moved, Busy, Getting
  <2>3. Transaction(s)'
    BY <1>0, <1>2, <1>5, SameParts, Zenon DEF Shape, Transaction, Moved, Procs
  <2> QED  BY <2>2, <2>3
<1>8. Histories'  BY <1>0, <1>3, HistorySame
<1> QED  BY <1>0, <1>2, <1>3, <1>4, <1>6, <1>7, <1>8, PlainKeeps, Zenon

\* A step outside a statement that does not end a transaction.
LEMMA OuterKeeps ==
    ASSUME IInv, NEW s \in Sessions, NEW p \in Procs, NEW st, NEW lk, NEW cl, NEW place, NEW td,
           NEW cmd, NEW rp, Moves(s, p, st, txConns[s], pcs[s], lk, cl, place, td, cmd, rp),
           at[s]["cmd"] \notin Busy, at[s][p] # "finish", place \notin Busy \cup {"finish"},
           UNCHANGED poolVars, Histories', Wheel(s)', Doing(s)',
           IsInTransaction(s) => IsInTransaction(s)', place = "begin" => td \subseteq InTx(s)
    PROVE  Keeps
<1>0. TypeOK /\ Shape(s) /\ "cmd" \in Procs /\ "wheel" \in Procs  BY DEF IInv, Procs
<1>1. Moved(s, p, st, txConns[s], pcs[s], lk, place, td, cmd)  BY <1>0, MovesMoved
<1>2. pcs'[s] = NoConns /\ Leased(s)' = {} /\ InTx(s)' = InTx(s)
  BY <1>0, <1>1, SameParts, Zenon DEF Shape, Leasing, Moved
<1>3. at'[s]["cmd"] \notin Busy
  <2>1. CASE p = "cmd"  BY <1>1, <2>1, Zenon DEF Moved
  <2>2. CASE p # "cmd"
    <3>1. at'[s]["cmd"] = at[s]["cmd"]  BY <1>0, <1>1, <2>2, Zenon DEF Moved
    <3> QED  BY <3>1
  <2> QED  BY <2>1, <2>2, Zenon
<1>4. Leasing(s)'  BY <1>2, <1>3, Zenon DEF Leasing, Busy, Getting
<1>5. Transaction(s)'
  <2>1. \A q \in Procs : at'[s][q] = "finish" <=> at[s][q] = "finish"  BY <1>1, Zenon DEF Moved
  <2>2. ~IsInTransaction(s)' /\ (\A q \in Procs : at'[s][q] # "finish") => txConns'[s] = NoConns
    BY <1>0, <1>1, <2>1, Zenon DEF Shape, Transaction, Moved
  <2>3. ASSUME NEW q \in Procs, at'[s][q] \in {"begin", "finish"} PROVE todo'[s][q] \subseteq InTx(s)'
    <3>1. CASE q = p  BY <1>1, <1>2, <2>3, <3>1, Zenon DEF Moved
    <3>2. CASE q # p
      <4>1. at'[s][q] = at[s][q] /\ todo'[s][q] = todo[s][q]  BY <1>1, <3>2, Zenon DEF Moved
      <4>2. todo[s][q] \subseteq InTx(s)  BY <1>0, <2>3, <4>1, Zenon DEF Shape, Transaction
      <4> QED  BY <1>2, <4>1, <4>2
    <3> QED  BY <3>1, <3>2, Zenon
  <2> QED  BY <2>2, <2>3 DEF Transaction
<1> QED  BY <1>4, <1>5, PlainKeeps, Zenon

\* BEGIN, COMMIT, ROLLBACK, SET autocommit or quit arrives (Control).
LEMMA ControlKeeps ==
    ASSUME Calm, IInv, NEW s \in Sessions, Control(s)
    PROVE  Keeps
<1>0. TypeOK /\ Shape(s) /\ "cmd" \in Procs /\ "wheel" \in Procs  BY DEF IInv, Procs
<1>1. PICK q \in Controls : op' = [op EXCEPT ![s]["cmd"] = q]  BY Zenon DEF Control
<1>2. at[s]["cmd"] = "idle" /\ at[s]["wheel"] = "idle"  BY DEF Control, Listening, At, Calm
<1>3. /\ at' = [at EXCEPT ![s]["cmd"] = "lock"]
      /\ UNCHANGED <<sessionVars, pcs, todo, reply, poolVars, clientVars, crashed>>
  BY DEF Control, Goto
<1>4. Moves(s, "cmd", status[s], txConns[s], pcs[s], lock[s], closed[s], "lock", todo[s]["cmd"], q, reply[s])
  BY <1>0, <1>1, <1>3, Own, OwnGoroutine DEF Moves, sessionVars, Places, Commands
<1>5. Moved(s, "cmd", status[s], txConns[s], pcs[s], lock[s], "lock", todo[s]["cmd"], q)
  BY <1>0, <1>4, MovesMoved, Zenon
<1>6. Wheel(s)' /\ Doing(s)'
  BY <1>0, <1>2, <1>5, Zenon DEF Shape, Wheel, Doing, Moved, Busy, Closing, Procs
<1>7. Histories' /\ (IsInTransaction(s) => IsInTransaction(s)')
  BY <1>0, <1>3, <1>5, HistorySame, SameParts DEF Moved
<1>8. at[s]["cmd"] \notin Busy /\ "lock" \notin Busy \cup {"finish"}  BY <1>2 DEF Busy
<1> QED  BY <1>0, <1>2, <1>3, <1>4, <1>6, <1>7, <1>8, OuterKeeps, Zenon

\* The client has gone (Disconnect).
LEMMA DisconnectKeeps ==
    ASSUME Calm, IInv, NEW s \in Sessions, Disconnect(s)
    PROVE  Keeps
<1>0. TypeOK /\ Shape(s) /\ "cmd" \in Procs /\ "wheel" \in Procs  BY DEF IInv, Procs
<1>2. at[s]["cmd"] = "idle"  BY DEF Disconnect, At
<1>3. /\ at' = [at EXCEPT ![s]["cmd"] = "check"] /\ op' = [op EXCEPT ![s]["cmd"] = "close"]
      /\ UNCHANGED <<sessionVars, pcs, todo, reply, poolVars, clientVars, crashed>>
  BY DEF Disconnect, Goto
<1>4. Moves(s, "cmd", status[s], txConns[s], pcs[s], lock[s], closed[s], "check", todo[s]["cmd"], "close", reply[s])
  BY <1>0, <1>3, Own, OwnGoroutine DEF Moves, sessionVars, Places, Commands
<1>5. Moved(s, "cmd", status[s], txConns[s], pcs[s], lock[s], "check", todo[s]["cmd"], "close")
  BY <1>0, <1>4, MovesMoved
<1>6. Wheel(s)' /\ Doing(s)'
  BY <1>0, <1>2, <1>5 DEF Shape, Wheel, Doing, Moved, Busy, Closing, Procs
<1>7. Histories' /\ (IsInTransaction(s) => IsInTransaction(s)')
  BY <1>0, <1>3, <1>5, HistorySame, SameParts DEF Moved
<1>8. at[s]["cmd"] \notin Busy /\ "check" \notin Busy \cup {"finish"}  BY <1>2 DEF Busy
<1> QED  BY <1>0, <1>2, <1>3, <1>4, <1>6, <1>7, <1>8, OuterKeeps, Zenon

\* The timeout passes while the client is silent (WheelFires).
LEMMA WheelFiresKeeps ==
    ASSUME Calm, IInv, NEW s \in Sessions, WheelFires(s)
    PROVE  Keeps
<1>0. TypeOK /\ Shape(s) /\ "cmd" \in Procs /\ "wheel" \in Procs  BY DEF IInv, Procs
<1>2. at[s]["cmd"] = "idle" /\ at[s]["wheel"] = "idle"  BY DEF WheelFires, At, Calm
<1>3. /\ at' = [at EXCEPT ![s]["wheel"] = "check"]
      /\ UNCHANGED <<sessionVars, pcs, todo, op, reply, poolVars, clientVars, crashed>>
  BY DEF WheelFires, Goto
<1>4. Moves(s, "wheel", status[s], txConns[s], pcs[s], lock[s], closed[s], "check", todo[s]["wheel"],
            op[s]["wheel"], reply[s])
  BY <1>0, <1>3, Own, OwnGoroutine DEF Moves, sessionVars, Places
<1>5. Moved(s, "wheel", status[s], txConns[s], pcs[s], lock[s], "check", todo[s]["wheel"], op[s]["wheel"])
  BY <1>0, <1>4, MovesMoved, Zenon
<1>6. Wheel(s)' /\ Doing(s)'
  BY <1>0, <1>2, <1>5 DEF Shape, Wheel, Doing, Moved, Busy, Closing, Procs
<1>7. Histories' /\ (IsInTransaction(s) => IsInTransaction(s)')
  BY <1>0, <1>3, <1>5, HistorySame, SameParts DEF Moved
<1>8. at[s]["cmd"] \notin Busy /\ "check" \notin Busy \cup {"finish"}  BY <1>2 DEF Busy
<1> QED  BY <1>0, <1>2, <1>3, <1>4, <1>6, <1>7, <1>8, OuterKeeps, Zenon

\* Session.Close looks at the flag (CloseCheck).
LEMMA CloseCheckKeeps ==
    ASSUME Calm, IInv, NEW s \in Sessions, NEW p \in Procs, CloseCheck(s, p)
    PROVE  Keeps
<1>0. TypeOK /\ Shape(s) /\ "cmd" \in Procs /\ "wheel" \in Procs  BY DEF IInv, Procs
<1>1. PICK place \in {"done", "store"} : at' = [at EXCEPT ![s][p] = place]
  <2>1. CASE closed[s]
    <3>1. at' = [at EXCEPT ![s][p] = "done"]  BY <2>1 DEF CloseCheck, Goto
    <3> QED  BY <3>1
  <2>2. CASE ~closed[s]
    <3>1. at' = [at EXCEPT ![s][p] = "store"]  BY <2>2 DEF CloseCheck, Goto
    <3> QED  BY <3>1
  <2> QED  BY <2>1, <2>2
<1>2. at[s][p] = "check"  BY DEF CloseCheck, At
<1>3. /\ op' = [op EXCEPT ![s][p] = "close"]
      /\ UNCHANGED <<sessionVars, pcs, todo, reply, poolVars, clientVars, crashed>>
  BY DEF CloseCheck
<1>4. Moves(s, p, status[s], txConns[s], pcs[s], lock[s], closed[s], place, todo[s][p], "close", reply[s])
  BY <1>0, <1>1, <1>3, Own, OwnGoroutine DEF Moves, sessionVars, Places, Commands
<1>5. Moved(s, p, status[s], txConns[s], pcs[s], lock[s], place, todo[s][p], "close")
  BY <1>0, <1>4, MovesMoved, Zenon
<1>6. Wheel(s)' /\ Doing(s)' /\ at[s]["cmd"] \notin Busy
  <2>1. CASE p = "cmd"
    BY <1>0, <1>1, <1>2, <1>5, <2>1 DEF Shape, Wheel, Doing, Moved, Busy, Closing, Procs
  <2>2. CASE p = "wheel"
    BY <1>0, <1>1, <1>2, <1>5, <2>2 DEF Shape, Wheel, Doing, Moved, Busy, Closing, Procs
  <2> QED  BY <2>1, <2>2 DEF Procs
<1>7. Histories' /\ (IsInTransaction(s) => IsInTransaction(s)')
  BY <1>0, <1>3, <1>5, HistorySame, SameParts DEF Moved
<1>8. place \notin Busy \cup {"finish"} /\ place # "begin"  BY <1>1 DEF Busy
<1> QED  BY <1>0, <1>2, <1>3, <1>4, <1>6, <1>7, <1>8, OuterKeeps, Zenon

\* Session.Close sets the flag (CloseStore).
LEMMA CloseStoreKeeps ==
    ASSUME Calm, IInv, NEW s \in Sessions, NEW p \in Procs, CloseStore(s, p)
    PROVE  Keeps
<1>0. TypeOK /\ Shape(s) /\ "cmd" \in Procs /\ "wheel" \in Procs  BY DEF IInv, Procs
<1>2. at[s][p] = "store"  BY DEF CloseStore, At
<1>3. /\ at' = [at EXCEPT ![s][p] = "lock"] /\ closed' = [closed EXCEPT ![s] = TRUE]
      /\ UNCHANGED <<status, txConns, lock, pcs, todo, op, reply, poolVars, clientVars, crashed>>
  BY DEF CloseStore, Goto
<1>4. Moves(s, p, status[s], txConns[s], pcs[s], lock[s], TRUE, "lock", todo[s][p], op[s][p], reply[s])
  BY <1>0, <1>3, Own, OwnGoroutine DEF Moves, Places
<1>5. Moved(s, p, status[s], txConns[s], pcs[s], lock[s], "lock", todo[s][p], op[s][p])
  BY <1>0, <1>4, MovesMoved, Zenon
<1>6. Wheel(s)' /\ Doing(s)' /\ at[s]["cmd"] \notin Busy
  <2>1. CASE p = "cmd"
    BY <1>0, <1>2, <1>5, <2>1 DEF Shape, Wheel, Doing, Moved, Busy, Closing, Procs
  <2>2. CASE p = "wheel"
    BY <1>0, <1>2, <1>5, <2>2 DEF Shape, Wheel, Doing, Moved, Busy, Closing, Procs
  <2> QED  BY <2>1, <2>2 DEF Procs
<1>7. Histories' /\ (IsInTransaction(s) => IsInTransaction(s)')
  BY <1>0, <1>3, <1>5, HistorySame, SameParts DEF Moved
<1>8. "lock" \notin Busy \cup {"finish"}  BY DEF Busy
<1> QED  BY <1>0, <1>2, <1>3, <1>4, <1>6, <1>7, <1>8, OuterKeeps, Zenon

\* The answer to the client (Reply).
LEMMA ReplyKeeps ==
    ASSUME Calm, IInv, NEW s \in Sessions, Reply(s)
    PROVE  Keeps
<1>0. TypeOK /\ Shape(s) /\ "cmd" \in Procs /\ "wheel" \in Procs  BY DEF IInv, Procs
<1>1. PICK there \in {"idle", "check"}, cmd \in {"close", "none"} :
        at' = [at EXCEPT ![s]["cmd"] = there] /\ op' = [op EXCEPT ![s]["cmd"] = cmd]
  <2>1. PICK there \in IF op[s]["cmd"] = "quit" \/ closed[s] THEN {"check"} ELSE {"idle", "check"} :
          /\ at' = [at EXCEPT ![s]["cmd"] = there]
          /\ op' = [op EXCEPT ![s]["cmd"] = IF there = "check" THEN "close" ELSE "none"]
    BY Zenon DEF Reply, Goto
  <2>2. there \in {"idle", "check"}  BY <2>1
  <2>3. CASE there = "check"
    <3>1. op' = [op EXCEPT ![s]["cmd"] = "close"]  BY <2>1, <2>3
    <3> QED  BY <2>1, <2>2, <3>1, Zenon
  <2>4. CASE there # "check"
    <3>1. op' = [op EXCEPT ![s]["cmd"] = "none"]  BY <2>1, <2>4
    <3> QED  BY <2>1, <2>2, <3>1, Zenon
  <2> QED  BY <2>3, <2>4
<1>2. at[s]["cmd"] = "reply" /\ at[s]["wheel"] = "idle"  BY <1>0 DEF Reply, At, Shape, Wheel, Closing
<1>3. reply' = [reply EXCEPT ![s] = "ok"] /\ UNCHANGED <<sessionVars, pcs, todo, poolVars, crashed>>
  BY DEF Reply
<1>4. Moves(s, "cmd", status[s], txConns[s], pcs[s], lock[s], closed[s], there, todo[s]["cmd"], cmd, "ok")
  BY <1>0, <1>1, <1>3, Own, OwnGoroutine DEF Moves, sessionVars, Places, Commands
<1>5. Moved(s, "cmd", status[s], txConns[s], pcs[s], lock[s], there, todo[s]["cmd"], cmd)
  BY <1>0, <1>4, MovesMoved, Zenon
<1>6. Wheel(s)' /\ Doing(s)'
  BY <1>0, <1>1, <1>2, <1>5 DEF Shape, Wheel, Doing, Moved, Busy, Closing, Procs
<1>7. Histories'
  <2>1. PICK tx : /\ tx = CASE op[s]["cmd"] = "begin" /\ reply[s] = "ok" -> TRUE
                            [] op[s]["cmd"] \in {"commit", "rollback", "quit"} -> FALSE
                            [] OTHER -> clientTx[s]
                  /\ clientTx' = [clientTx EXCEPT ![s] = tx]
    BY Zenon DEF Reply
  <2>2. tx \in BOOLEAN
    <3>1. clientTx[s] \in BOOLEAN  BY <1>0 DEF TypeOK
    <3>2. tx = TRUE \/ tx = FALSE \/ tx = clientTx[s]  BY <2>1, Zenon
    <3> QED  BY <3>1, <3>2, Zenon
  <2>3. clientTx' \in [Sessions -> BOOLEAN]
    <3>1. clientTx \in [Sessions -> BOOLEAN]  BY <1>0 DEF TypeOK
    <3>2. [clientTx EXCEPT ![s] = tx] \in [Sessions -> BOOLEAN]  BY <2>2, <3>1
    <3> QED  BY <2>1, <3>2, Zenon
  <2>4. acked' = acked \/ acked' = [acked EXCEPT ![s] = {}]  BY Zenon DEF Reply
  <2>5. applied' = applied \/ applied' = [applied EXCEPT ![s] = {}]  BY Zenon DEF Reply
  <2>6. acked' \in [Sessions -> SUBSET Slices]
    <3>1. acked \in [Sessions -> SUBSET Slices]  BY <1>0 DEF TypeOK
    <3>2. [acked EXCEPT ![s] = {}] \in [Sessions -> SUBSET Slices]  BY <3>1
    <3> QED  BY <2>4, <3>1, <3>2, Zenon
  <2>7. applied' \in [Sessions -> SUBSET Slices]
    <3>1. applied \in [Sessions -> SUBSET Slices]  BY <1>0 DEF TypeOK
    <3>2. [applied EXCEPT ![s] = {}] \in [Sessions -> SUBSET Slices]  BY <3>1
    <3> QED  BY <2>5, <3>1, <3>2, Zenon
  <2> QED  BY <1>0, <1>3, <2>3, <2>6, <2>7, Zenon DEF TypeOK, Histories
<1>8. /\ at[s]["cmd"] \notin Busy /\ there \notin Busy \cup {"finish"} /\ there # "begin"
      /\ (IsInTransaction(s) => IsInTransaction(s)')
  BY <1>1, <1>2, <1>5, SameParts DEF Busy, Moved
<1> QED  BY <1>0, <1>2, <1>3, <1>4, <1>6, <1>7, <1>8, OuterKeeps, Zenon

\* BEGIN takes the lock (HandleBegin).
LEMMA HandleBeginKeeps ==
    ASSUME Calm, IInv, NEW s \in Sessions, HandleBegin(s)
    PROVE  Keeps
<1>0. TypeOK /\ Shape(s) /\ "cmd" \in Procs /\ "wheel" \in Procs  BY DEF IInv, Procs
<1>1. InTx(s) \in SUBSET Slices  BY DEF InTx
<1>2. at[s]["cmd"] = "lock" /\ lock[s] = "free" /\ op[s]["cmd"] = "begin" /\ at[s]["wheel"] = "idle"
  BY <1>0 DEF HandleBegin, Acquire, At, Shape, Wheel, Closing
<1>3. /\ lock' = [lock EXCEPT ![s] = "cmd"] /\ status' = [status EXCEPT ![s] = status[s]]
      /\ todo' = [todo EXCEPT ![s]["cmd"] = InTx(s)] /\ at' = [at EXCEPT ![s]["cmd"] = "begin"]
      /\ UNCHANGED <<txConns, pcs, closed, op, reply, poolVars, clientVars, crashed>>
  BY DEF HandleBegin, Acquire, Goto, clientVars
<1>4. Moves(s, "cmd", status[s], txConns[s], pcs[s], "cmd", closed[s], "begin", InTx(s), op[s]["cmd"], reply[s])
  BY <1>0, <1>1, <1>3, Own, OwnGoroutine DEF Moves, Places
<1>5. Moved(s, "cmd", status[s], txConns[s], pcs[s], "cmd", "begin", InTx(s), op[s]["cmd"])
  BY <1>0, <1>4, MovesMoved, Zenon
<1>6. Wheel(s)' /\ Doing(s)'
  BY <1>0, <1>2, <1>5 DEF Shape, Wheel, Doing, Moved, Busy, Closing, Procs
<1>7. Histories' /\ (IsInTransaction(s) => IsInTransaction(s)')
  BY <1>0, <1>3, <1>5, HistorySame, SameParts DEF Moved
<1>8. at[s]["cmd"] \notin Busy /\ "begin" \notin Busy \cup {"finish"}  BY <1>2 DEF Busy
<1> QED  BY <1>0, <1>2, <1>3, <1>4, <1>6, <1>7, <1>8, OuterKeeps, Zenon

\* The status word with one of its bits set or cleared.
LEMMA BitsSet ==
    ASSUME NEW x \in Bits
    PROVE  /\ [x EXCEPT !.inTrans = TRUE] \in Bits /\ [x EXCEPT !.inTrans = TRUE].inTrans
           /\ [x EXCEPT !.inTrans = FALSE] \in Bits /\ ~[x EXCEPT !.inTrans = FALSE].inTrans
           /\ [x EXCEPT !.autocommit = FALSE] \in Bits /\ ~[x EXCEPT !.autocommit = FALSE].autocommit
           /\ [inTrans |-> FALSE, autocommit |-> TRUE] \in Bits
<1>1. [x EXCEPT !.inTrans = TRUE] \in Bits  BY Zenon DEF Bits
<1>2. [x EXCEPT !.inTrans = TRUE].inTrans  BY DEF Bits
<1>3. [x EXCEPT !.inTrans = FALSE] \in Bits  BY Zenon DEF Bits
<1>4. ~[x EXCEPT !.inTrans = FALSE].inTrans  BY DEF Bits
<1>5. [x EXCEPT !.autocommit = FALSE] \in Bits  BY Zenon DEF Bits
<1>6. ~[x EXCEPT !.autocommit = FALSE].autocommit  BY DEF Bits
<1>7. [inTrans |-> FALSE, autocommit |-> TRUE] \in Bits  BY Zenon DEF Bits
<1> QED  BY <1>1, <1>2, <1>3, <1>4, <1>5, <1>6, <1>7, Zenon

\* BEGIN has gone through all connections and sets the bit (BeginDone).
LEMMA BeginDoneKeeps ==
    ASSUME Calm, IInv, NEW s \in Sessions, BeginDone(s)
    PROVE  Keeps
<1> DEFINE st == [status[s] EXCEPT !.inTrans = TRUE]
<1>0. TypeOK /\ Shape(s) /\ "cmd" \in Procs /\ "wheel" \in Procs  BY DEF IInv, Procs
<1>1. st \in Bits /\ st.inTrans
  <2>1. status[s] \in Bits  BY <1>0, Own
  <2> QED  BY <2>1, BitsSet, Zenon
<1>2. at[s]["cmd"] = "begin" /\ at[s]["wheel"] = "idle"  BY <1>0 DEF BeginDone, At, Shape, Wheel, Closing
<1>3. /\ status' = [status EXCEPT ![s] = st]
      /\ lock' = [lock EXCEPT ![s] = "free"] /\ at' = [at EXCEPT ![s]["cmd"] = "reply"]
      /\ UNCHANGED <<txConns, closed, pcs, todo, op, reply, poolVars, clientVars, crashed>>
  BY DEF BeginDone, Goto
<1> HIDE DEF st
<1>4. Moves(s, "cmd", st, txConns[s], pcs[s], "free", closed[s], "reply", todo[s]["cmd"], op[s]["cmd"], reply[s])
  BY <1>0, <1>1, <1>3, Own, OwnGoroutine DEF Moves, Places
<1>5. Moved(s, "cmd", st, txConns[s], pcs[s], "free", "reply", todo[s]["cmd"], op[s]["cmd"])
  BY <1>0, <1>4, MovesMoved, Zenon
<1>6. Wheel(s)' /\ Doing(s)'
  BY <1>0, <1>2, <1>5 DEF Shape, Wheel, Doing, Moved, Busy, Closing, Procs
<1>7. Histories' /\ IsInTransaction(s)'
  BY <1>0, <1>1, <1>3, <1>5, HistorySame DEF Moved, IsInTransaction
<1>8. at[s]["cmd"] \notin Busy /\ "reply" \notin Busy \cup {"finish"}  BY <1>2 DEF Busy
<1> QED  BY <1>0, <1>2, <1>3, <1>4, <1>6, <1>7, <1>8, OuterKeeps, Zenon

\* SET autocommit = 0 only clears the bit (SetAutoCommitOff).
LEMMA SetAutoCommitOffKeeps ==
    ASSUME Calm, IInv, NEW s \in Sessions, SetAutoCommitOff(s)
    PROVE  Keeps
<1> DEFINE st == [status[s] EXCEPT !.autocommit = FALSE]
<1>0. TypeOK /\ Shape(s) /\ "cmd" \in Procs /\ "wheel" \in Procs  BY DEF IInv, Procs
<1>1. st \in Bits /\ ~st.autocommit
  <2>1. status[s] \in Bits  BY <1>0, Own
  <2> QED  BY <2>1, BitsSet, Zenon
<1>2. at[s]["cmd"] = "lock" /\ at[s]["wheel"] = "idle" /\ lock[s] = "free"
  BY <1>0 DEF SetAutoCommitOff, At, Shape, Wheel, Closing
<1>3. /\ status' = [status EXCEPT ![s] = st] /\ at' = [at EXCEPT ![s]["cmd"] = "reply"]
      /\ UNCHANGED <<txConns, lock, closed, pcs, todo, op, reply, poolVars, clientVars, crashed>>
  BY DEF SetAutoCommitOff, Goto
<1> HIDE DEF st
<1>4. Moves(s, "cmd", st, txConns[s], pcs[s], lock[s], closed[s], "reply", todo[s]["cmd"], op[s]["cmd"], reply[s])
  BY <1>0, <1>1, <1>3, Own, OwnGoroutine DEF Moves, Places
<1>5. Moved(s, "cmd", st, txConns[s], pcs[s], lock[s], "reply", todo[s]["cmd"], op[s]["cmd"])
  BY <1>0, <1>4, MovesMoved, Zenon
<1>6. Wheel(s)' /\ Doing(s)'
  BY <1>0, <1>2, <1>5 DEF Shape, Wheel, Doing, Moved, Busy, Closing, Procs
<1>7. Histories' /\ IsInTransaction(s)'
  BY <1>0, <1>1, <1>3, <1>5, HistorySame DEF Moved, IsInTransaction, IsAutoCommit
<1>8. at[s]["cmd"] \notin Busy /\ "reply" \notin Busy \cup {"finish"}  BY <1>2 DEF Busy
<1> QED  BY <1>0, <1>2, <1>3, <1>4, <1>6, <1>7, <1>8, OuterKeeps, Zenon

-----------------------------------------------------------------------------
(* The steps of a statement that take and give back nothing.               *)

\* getBackendConn reads the status bits (GetBackendConn).
LEMMA GetBackendConnKeeps ==
    ASSUME Calm, IInv, NEW s \in Sessions, GetBackendConn(s)
    PROVE  Keeps
<1>0. TypeOK /\ Shape(s) /\ "cmd" \in Procs /\ "wheel" \in Procs  BY DEF IInv, Procs
<1>1. PICK place \in {"getTx", "getPool"} :
        /\ at' = [at EXCEPT ![s]["cmd"] = place]
        /\ place = "getTx" <=> IsInTransaction(s)
  <2>1. CASE IsInTransaction(s)
    <3>1. at' = [at EXCEPT ![s]["cmd"] = "getTx"]  BY <2>1 DEF GetBackendConn, Goto
    <3> QED  BY <2>1, <3>1
  <2>2. CASE ~IsInTransaction(s)
    <3>1. at' = [at EXCEPT ![s]["cmd"] = "getPool"]  BY <2>2 DEF GetBackendConn, Goto
    <3> QED  BY <2>2, <3>1
  <2> QED  BY <2>1, <2>2
<1>2. at[s]["cmd"] = "get" /\ at[s]["cmd"] \in Busy  BY DEF GetBackendConn, At, Busy
<1>3. UNCHANGED <<sessionVars, pcs, todo, op, reply, poolVars, clientVars, crashed>>  BY DEF GetBackendConn
<1>4. Moves(s, "cmd", status[s], txConns[s], pcs[s], lock[s], closed[s], place, todo[s]["cmd"],
            op[s]["cmd"], reply[s])
  BY <1>0, <1>1, <1>3, Own, OwnGoroutine DEF Moves, sessionVars, Places
<1>5. Moved(s, "cmd", status[s], txConns[s], pcs[s], lock[s], place, todo[s]["cmd"], op[s]["cmd"])
  BY <1>0, <1>4, MovesMoved, Zenon
<1>6. Wheel(s)' /\ Doing(s)' /\ ((~IsInTransaction(s)' => txConns'[s] = NoConns) => Transaction(s)')
  <2>1. op'[s] = op[s]  BY <1>3
  <2>2. at'[s]["wheel"] = at[s]["wheel"] /\ lock'[s] = lock[s] /\ at'[s]["cmd"] \in Busy
    BY <1>0, <1>1, <1>5 DEF Moved, Busy
  <2> QED  BY <1>0, <1>2, <2>1, <2>2, InnerShape, Zenon
<1>7. Leased(s)' = Leased(s) /\ (IsInTransaction(s)' <=> IsInTransaction(s))
  BY <1>5, SameParts, Zenon DEF Moved
<1>8. Leasing(s)'
  BY <1>0, <1>1, <1>2, <1>5, <1>7 DEF Shape, Leasing, Moved, Busy, Getting
<1>9. Transaction(s)'  BY <1>0, <1>2, <1>5, <1>6, <1>7, BusyFacts, Zenon DEF Moved
<1>10. Histories' /\ place # "finish"  BY <1>0, <1>1, <1>3, HistorySame
<1> QED  BY <1>0, <1>2, <1>3, <1>4, <1>6, <1>8, <1>9, <1>10, PlainKeeps, Zenon DEF Busy

\* The pool has no connection for the statement (GetFails).
LEMMA GetFailsKeeps ==
    ASSUME Calm, IInv, NEW s \in Sessions, GetFails(s)
    PROVE  Keeps
<1>0. TypeOK /\ Shape(s) /\ "cmd" \in Procs /\ "wheel" \in Procs  BY DEF IInv, Procs
<1>2. at[s]["cmd"] \in Busy  BY Zenon DEF GetFails, At, Busy
<1>3. /\ at' = [at EXCEPT ![s]["cmd"] = "recycle"] /\ reply' = [reply EXCEPT ![s] = "err"]
      /\ todo' = [todo EXCEPT ![s]["cmd"] = {}]
      /\ UNCHANGED <<sessionVars, pcs, op, poolVars, clientVars, crashed>>
  BY Zenon DEF GetFails, Refuse, Goto
<1>4. Moves(s, "cmd", status[s], txConns[s], pcs[s], lock[s], closed[s], "recycle", {}, op[s]["cmd"], "err")
  BY <1>0, <1>3, Own, OwnGoroutine DEF Moves, sessionVars, Places
<1>5. Moved(s, "cmd", status[s], txConns[s], pcs[s], lock[s], "recycle", {}, op[s]["cmd"])
  BY <1>0, <1>4, MovesMoved, Zenon
<1>6. Wheel(s)' /\ Doing(s)' /\ ((~IsInTransaction(s)' => txConns'[s] = NoConns) => Transaction(s)')
  <2>1. op'[s] = op[s]  BY <1>3
  <2>2. at'[s]["wheel"] = at[s]["wheel"] /\ lock'[s] = lock[s] /\ at'[s]["cmd"] \in Busy
    BY <1>0, <1>5 DEF Moved, Busy
  <2> QED  BY <1>0, <1>2, <2>1, <2>2, InnerShape, Zenon
<1>7. Leased(s)' = Leased(s) /\ (IsInTransaction(s)' <=> IsInTransaction(s))
  BY <1>5, SameParts, Zenon DEF Moved
<1>8. Leasing(s)'
  BY <1>0, <1>5, <1>7, Zenon DEF Shape, Leasing, Moved, Busy, Getting
<1>9. Transaction(s)'  BY <1>0, <1>2, <1>5, <1>6, <1>7, BusyFacts, Zenon DEF Moved
<1>10. Histories'  BY <1>0, <1>3, HistorySame
<1> QED  BY <1>0, <1>2, <1>3, <1>4, <1>6, <1>8, <1>9, <1>10, PlainKeeps, Zenon DEF Busy

\* recycleBackendConns, inside and outside a transaction (RecycleBackendConns).
LEMMA RecycleBackendConnsKeeps ==
    ASSUME Calm, IInv, NEW s \in Sessions, RecycleBackendConns(s)
    PROVE  Keeps
<1>0. TypeOK /\ Shape(s) /\ "cmd" \in Procs /\ "wheel" \in Procs  BY DEF IInv, Procs
<1>1. at[s]["cmd"] = "recycle" /\ at[s]["cmd"] \in Busy  BY DEF RecycleBackendConns, At, Busy
<1>2. UNCHANGED <<sessionVars, op, reply, poolVars, clientVars, crashed>>  BY DEF RecycleBackendConns
<1>3. Histories' /\ op'[s] = op[s]  BY <1>0, <1>2, HistorySame
<1>4. CASE IsInTransaction(s) \/ Leased(s) = {}
  <2>1. /\ at' = [at EXCEPT ![s]["cmd"] = "reply"] /\ pcs' = [pcs EXCEPT ![s] = NoConns]
        /\ UNCHANGED todo
    BY <1>4 DEF RecycleBackendConns, Goto
  <2>2. Fits(NoConns) /\ \A sl \in Slices : NoConns[sl] = NoConn
    BY NoConnAssumption DEF Fits, Row, NoConns
  <2>3. Moves(s, "cmd", status[s], txConns[s], NoConns, lock[s], closed[s], "reply", todo[s]["cmd"],
              op[s]["cmd"], reply[s])
    BY <1>0, <1>2, <2>1, <2>2, Own, OwnGoroutine DEF Moves, sessionVars, Places
  <2>4. Moved(s, "cmd", status[s], txConns[s], NoConns, lock[s], "reply", todo[s]["cmd"], op[s]["cmd"])
    BY <1>0, <2>3, MovesMoved, Zenon
  <2>5. /\ Wheel(s)' /\ Doing(s)' /\ (\A p \in Procs : at'[s][p] \notin {"begin", "finish"})
        /\ ((~IsInTransaction(s)' => txConns'[s] = NoConns) => Transaction(s)')
    <3>1. at'[s]["wheel"] = at[s]["wheel"] /\ lock'[s] = lock[s] /\ at'[s]["cmd"] = "reply"
      BY <1>0, <2>4, Zenon DEF Moved
    <3> QED  BY <1>0, <1>1, <1>3, <3>1, InnerShape, Zenon
  <2>6. Leased(s)' = {} /\ (IsInTransaction(s)' <=> IsInTransaction(s))
    BY <2>4, SameParts, Zenon DEF Moved
  <2>7. Leasing(s)'  BY <2>4, <2>6, Zenon DEF Leasing, Moved, Busy, Getting
  <2>8. Transaction(s)'  BY <1>0, <1>1, <2>4, <2>5, <2>6, BusyFacts, Zenon DEF Moved
  <2>9. ASSUME NEW sl \in Slices, NEW c \in Conns PROVE Holds(s, sl, c)' <=> Holds(s, sl, c)
    <3>1. ~Released(s, sl) /\ ~Released(s, sl)'
      <4>1. ~Letting(s, sl) /\ ~Letting(s, sl)'  BY <1>0, <1>1, <2>5, BusyFacts, Zenon DEF Letting
      <4>2. lock[s] \in Procs \cup {"free"} /\ lock'[s] \in Procs \cup {"free"}
        BY <1>0, <2>4, Own DEF Moved
      <4> QED  BY <1>0, <2>5, <4>1, <4>2, ReleasedIs, Zenon DEF Shape
    <3>2. pcs'[s][sl] # c /\ c # NoConn  BY <2>2, <2>4, NoConnAssumption DEF Moved
    <3>3. pcs[s][sl] = c => txConns[s][sl] = c
      BY <1>0, <1>4, <3>2, Zenon DEF Shape, Leasing, Leased
    <3> QED  BY <2>4, <3>1, <3>2, <3>3, Zenon DEF Holds, Moved
  <2> QED  BY <1>0, <1>2, <1>3, <2>3, <2>5, <2>7, <2>8, <2>9, SwapKeeps, Zenon DEF Shape
<1>5. CASE ~(IsInTransaction(s) \/ Leased(s) = {})
  <2>1. /\ at' = [at EXCEPT ![s]["cmd"] = "put"] /\ todo' = [todo EXCEPT ![s]["cmd"] = Leased(s)]
        /\ UNCHANGED pcs
    BY <1>5 DEF RecycleBackendConns, Goto
  <2>2. Leased(s) \in SUBSET Slices  BY DEF Leased
  <2>3. Moves(s, "cmd", status[s], txConns[s], pcs[s], lock[s], closed[s], "put", Leased(s),
              op[s]["cmd"], reply[s])
    BY <1>0, <1>2, <2>1, <2>2, Own, OwnGoroutine DEF Moves, sessionVars, Places
  <2>4. Moved(s, "cmd", status[s], txConns[s], pcs[s], lock[s], "put", Leased(s), op[s]["cmd"])
    BY <1>0, <2>3, MovesMoved, Zenon
  <2>5. Wheel(s)' /\ Doing(s)' /\ ((~IsInTransaction(s)' => txConns'[s] = NoConns) => Transaction(s)')
    <3>1. at'[s]["wheel"] = at[s]["wheel"] /\ lock'[s] = lock[s] /\ at'[s]["cmd"] \in Busy
      BY <1>0, <2>4, Zenon DEF Moved, Busy
    <3> QED  BY <1>0, <1>1, <1>3, <3>1, InnerShape, Zenon
  <2>6. Leased(s)' = Leased(s) /\ (IsInTransaction(s)' <=> IsInTransaction(s))
    BY <2>4, SameParts, Zenon DEF Moved
  <2>7. Leasing(s)'  BY <1>0, <1>5, <2>4, <2>6, Zenon DEF Shape, Leasing, Moved, Busy, Getting
  <2>8. Transaction(s)'  BY <1>0, <1>1, <2>4, <2>5, <2>6, BusyFacts, Zenon DEF Moved
  <2> QED  BY <1>0, <1>1, <1>2, <1>3, <2>3, <2>5, <2>7, <2>8, PlainKeeps, Zenon
<1> QED  BY <1>4, <1>5

-----------------------------------------------------------------------------
(* The end of a transaction.                                               *)

\* COMMIT, ROLLBACK, SET autocommit = 1, quit and Close take the lock and go
\* through all of the transaction's connections (Acquire).
LEMMA AcquireKeeps ==
    ASSUME IInv, NEW s \in Sessions, NEW p \in Procs, NEW bits \in Bits, Acquire(s, p, bits, "finish"),
           op[s][p] \in Enders, Histories'
    PROVE  Keeps
<1>0. TypeOK /\ Shape(s) /\ "cmd" \in Procs /\ "wheel" \in Procs  BY DEF IInv, Procs
<1>1. InTx(s) \in SUBSET Slices  BY DEF InTx
<1>2. at[s][p] = "lock" /\ lock[s] = "free"  BY DEF Acquire, At
<1>3. /\ lock' = [lock EXCEPT ![s] = p] /\ status' = [status EXCEPT ![s] = bits]
      /\ todo' = [todo EXCEPT ![s][p] = InTx(s)] /\ at' = [at EXCEPT ![s][p] = "finish"]
      /\ UNCHANGED <<txConns, pcs, closed, op, reply, poolVars>>
  BY DEF Acquire, Goto
<1>4. Moves(s, p, bits, txConns[s], pcs[s], p, closed[s], "finish", InTx(s), op[s][p], reply[s])
  BY <1>0, <1>1, <1>3, Own, OwnGoroutine DEF Moves, Places
<1>5. Moved(s, p, bits, txConns[s], pcs[s], p, "finish", InTx(s), op[s][p])
  BY <1>0, <1>4, MovesMoved, Zenon
<1>6. \A q \in Procs : at[s][q] \notin {"begin", "finish"}  BY <1>0, <1>2 DEF Shape, Doing, Procs
<1>7. Wheel(s)' /\ Doing(s)'
  <2>1. CASE p = "cmd"
    BY <1>0, <1>2, <1>5, <1>6, <2>1, ZenonT(40) DEF Shape, Wheel, Doing, Moved, Busy, Closing, Procs
  <2>2. CASE p = "wheel"
    BY <1>0, <1>2, <1>5, <1>6, <2>2, ZenonT(40) DEF Shape, Wheel, Doing, Moved, Busy, Closing, Procs
  <2> QED  BY <2>1, <2>2 DEF Procs
<1>8. at[s]["cmd"] \notin Busy /\ pcs[s] = NoConns  BY <1>0, <1>2, EndingFacts
<1>9. Leased(s)' = {} /\ InTx(s)' = InTx(s)  BY <1>5, <1>8, SameParts DEF Moved
<1>10. at'[s]["cmd"] \notin Busy
  <2>1. CASE p = "cmd"  BY <1>5, <2>1, Zenon DEF Moved, Busy
  <2>2. CASE p # "cmd"
    <3>1. at'[s]["cmd"] = at[s]["cmd"]  BY <1>0, <1>5, <2>2, Zenon DEF Moved
    <3> QED  BY <1>8, <3>1
  <2> QED  BY <2>1, <2>2
<1>11. Leasing(s)'  BY <1>5, <1>8, <1>9, <1>10, Zenon DEF Leasing, Moved, Busy, Getting
<1>12. Transaction(s)'
  <2>1. at'[s][p] = "finish" /\ todo'[s][p] = InTx(s)  BY <1>5, Zenon DEF Moved
  <2>2. \A q \in Procs : q # p => at'[s][q] \notin {"begin", "finish"}  BY <1>5, <1>6, Zenon DEF Moved
  <2> QED  BY <1>9, <2>1, <2>2, Zenon DEF Transaction
<1>13. ASSUME NEW sl \in Slices, NEW c \in Conns PROVE Holds(s, sl, c)' <=> Holds(s, sl, c)
  <2>1. ~Letting(s, sl)  BY <1>6 DEF Letting
  <2>2. Letting(s, sl)' => txConns[s][sl] = NoConn
    <3>1. ASSUME Letting(s, sl)' PROVE sl \notin InTx(s)
      <4>1. PICK q \in Procs : at'[s][q] = "finish" /\ sl \notin todo'[s][q]  BY <3>1 DEF Letting
      <4>2. q = p  BY <1>5, <1>6, <4>1, Zenon DEF Moved
      <4> QED  BY <1>5, <4>1, <4>2, Zenon DEF Moved
    <3> QED  BY <3>1 DEF InTx
  <2>3. lock[s] \in Procs \cup {"free"} /\ lock'[s] \in Procs \cup {"free"}
    BY <1>0, <1>5, Own DEF Moved
  <2>4. ~Released(s, sl) /\ (Released(s, sl)' => txConns[s][sl] = NoConn)
    BY <1>0, <1>7, <2>1, <2>2, <2>3, ReleasedIs, Zenon DEF Shape
  <2>5. c # NoConn  BY NoConnAssumption
  <2> QED  BY <1>5, <2>4, <2>5, Zenon DEF Holds, Moved
<1> QED  BY <1>0, <1>3, <1>4, <1>7, <1>11, <1>12, <1>13, SwapKeeps, Zenon DEF Shape

\* The start of COMMIT keeps the invariant (handleCommit).
LEMMA CommitKeeps ==
    ASSUME Calm, IInv, NEW s \in Sessions, Commit(s)
    PROVE  Keeps
<1>0. TypeOK /\ "cmd" \in Procs  BY DEF IInv, Procs
<1>1. [status[s] EXCEPT !.inTrans = FALSE] \in Bits  BY <1>0, Own, BitsSet, Zenon
<1>2. Acquire(s, "cmd", [status[s] EXCEPT !.inTrans = FALSE], "finish") /\ op[s]["cmd"] \in Enders
  BY Zenon DEF Commit, Enders
<1>3. UNCHANGED <<clientVars, crashed>>  BY DEF Commit, Acquire, clientVars
<1> QED  BY <1>0, <1>1, <1>2, <1>3, HistorySame, AcquireKeeps, Zenon

\* The start of ROLLBACK keeps the invariant (handleRollback).
LEMMA RollbackKeeps ==
    ASSUME Calm, IInv, NEW s \in Sessions, NEW p \in Procs, Rollback(s, p)
    PROVE  Keeps
<1>0. TypeOK  BY DEF IInv
<1>1. [status[s] EXCEPT !.inTrans = FALSE] \in Bits  BY <1>0, Own, BitsSet, Zenon
<1>2. Acquire(s, p, [status[s] EXCEPT !.inTrans = FALSE], "finish") /\ op[s][p] \in Enders
  BY DEF Rollback, Enders
<1>3. UNCHANGED <<clientVars, crashed>>  BY DEF Rollback, Acquire, clientVars
<1> QED  BY <1>0, <1>1, <1>2, <1>3, HistorySame, AcquireKeeps, Zenon

\* The start of SET autocommit = 1 keeps the invariant.
LEMMA SetAutoCommitOnKeeps ==
    ASSUME Calm, IInv, NEW s \in Sessions, SetAutoCommitOn(s)
    PROVE  Keeps
<1>0. TypeOK /\ "cmd" \in Procs  BY DEF IInv, Procs
<1>1. [inTrans |-> FALSE, autocommit |-> TRUE] \in Bits  BY Zenon DEF Bits
<1>2. Acquire(s, "cmd", [inTrans |-> FALSE, autocommit |-> TRUE], "finish") /\ op[s]["cmd"] \in Enders
  BY Zenon DEF SetAutoCommitOn, Enders
<1>3. Histories'
  <2>1. UNCHANGED <<acked, applied, crashed>>  BY DEF SetAutoCommitOn, Acquire
  <2>2. clientTx \in [Sessions -> BOOLEAN]  BY <1>0 DEF TypeOK
  <2>3. clientTx' = [clientTx EXCEPT ![s] = clientTx[s] /\ IsAutoCommit(s)]  BY DEF SetAutoCommitOn
  <2>4. clientTx' \in [Sessions -> BOOLEAN]  BY <2>2, <2>3
  <2> QED  BY <1>0, <2>1, <2>4, Zenon DEF TypeOK, Histories
<1> QED  BY <1>0, <1>1, <1>2, <1>3, AcquireKeeps, Zenon

\* The transaction has no connections left (FinishDone).
LEMMA FinishDoneKeeps ==
    ASSUME Calm, IInv, NEW s \in Sessions, NEW p \in Procs, FinishDone(s, p)
    PROVE  Keeps
<1>0. TypeOK /\ Shape(s) /\ "cmd" \in Procs /\ "wheel" \in Procs  BY DEF IInv, Procs
<1>1. PICK place \in {"done", "reply"} :
        at' = [at EXCEPT ![s][p] = place] /\ (op[s][p] = "close" => place = "done")
  <2>1. CASE op[s][p] = "close"
    <3>1. at' = [at EXCEPT ![s][p] = "done"]  BY <2>1 DEF FinishDone, Goto
    <3> QED  BY <3>1
  <2>2. CASE op[s][p] # "close"
    <3>1. at' = [at EXCEPT ![s][p] = "reply"]  BY <2>2 DEF FinishDone, Goto
    <3> QED  BY <2>2, <3>1
  <2> QED  BY <2>1, <2>2
<1>2. at[s][p] = "finish" /\ todo[s][p] = {}  BY DEF FinishDone, At
<1>3. /\ txConns' = [txConns EXCEPT ![s] = NoConns] /\ lock' = [lock EXCEPT ![s] = "free"]
      /\ UNCHANGED <<status, closed, pcs, todo, op, reply, poolVars, clientVars, crashed>>
  BY DEF FinishDone
<1>4. Fits(NoConns) /\ \A sl \in Slices : NoConns[sl] = NoConn
  BY NoConnAssumption DEF Fits, Row, NoConns
<1>5. Moves(s, p, status[s], NoConns, pcs[s], "free", closed[s], place, todo[s][p], op[s][p], reply[s])
  BY <1>0, <1>1, <1>3, <1>4, Own, OwnGoroutine DEF Moves, Places
<1>6. Moved(s, p, status[s], NoConns, pcs[s], "free", place, todo[s][p], op[s][p])
  BY <1>0, <1>5, MovesMoved, Zenon
<1>7. \A q \in Procs : q # p => at[s][q] \notin {"begin", "finish"}  BY <1>0, <1>2, Zenon DEF Shape, Doing
<1>8. \A q \in Procs : at'[s][q] \notin {"begin", "finish"}  BY <1>1, <1>6, <1>7 DEF Moved
<1>9. Wheel(s)' /\ Doing(s)'
  <2>1. CASE p = "cmd"
    BY <1>0, <1>1, <1>2, <1>6, <1>8, <2>1 DEF Shape, Wheel, Doing, Moved, Busy, Closing, Procs
  <2>2. CASE p = "wheel"
    BY <1>0, <1>1, <1>2, <1>6, <1>8, <2>2 DEF Shape, Wheel, Doing, Moved, Busy, Closing, Procs
  <2> QED  BY <2>1, <2>2 DEF Procs
<1>10. at[s]["cmd"] \notin Busy /\ pcs[s] = NoConns  BY <1>0, <1>2, EndingFacts
<1>11. at'[s]["cmd"] \notin Busy
  <2>1. CASE p = "cmd"  BY <1>1, <1>6, <2>1 DEF Moved, Busy
  <2>2. CASE p # "cmd"
    <3>1. at'[s]["cmd"] = at[s]["cmd"]  BY <1>0, <1>6, <2>2, Zenon DEF Moved
    <3> QED  BY <1>10, <3>1
  <2> QED  BY <2>1, <2>2
<1>12. Leased(s)' = {}  BY <1>6, <1>10, SameParts DEF Moved
<1>13. Leasing(s)'  BY <1>6, <1>10, <1>11, <1>12, Zenon DEF Leasing, Moved, Busy, Getting
<1>14. Transaction(s)'  BY <1>6, <1>8, Zenon DEF Transaction, Moved
<1>15. ASSUME NEW sl \in Slices, NEW c \in Conns PROVE Holds(s, sl, c)' <=> Holds(s, sl, c)
  <2>1. Letting(s, sl)  BY <1>2 DEF Letting
  <2>2. Released(s, sl)  BY <1>0, <2>1, Own, ReleasedIs, Zenon DEF Shape
  <2>3. c # NoConn /\ NoConns[sl] = NoConn  BY <1>4, NoConnAssumption
  <2> QED  BY <1>6, <1>10, <2>2, <2>3, Zenon DEF Holds, Moved
<1> QED  BY <1>0, <1>3, <1>5, <1>9, <1>13, <1>14, <1>15, HistorySame, SwapKeeps, Zenon DEF Shape

\* One of the statement's connections runs it (Execute).
LEMMA ExecuteKeeps ==
    ASSUME Calm, IInv, NEW s \in Sessions, Execute(s)
    PROVE  Keeps
<1>0. TypeOK /\ Shape(s) /\ "cmd" \in Procs /\ "wheel" \in Procs  BY DEF IInv, Procs
<1>1. at[s]["cmd"] = "exec" /\ at[s]["cmd"] \in Busy  BY Zenon DEF Execute, At, Busy
<1>2. PICK q, sl, o :
        /\ q \in {"write", "read"} /\ sl \in todo[s]["cmd"] /\ o \in Exec(conn[pcs[s][sl]], q, s)
        /\ conn' = [conn EXCEPT ![pcs[s][sl]] = o.conn]
        /\ MakeDurable(o.durable, sl)
        /\ acked' = acked \/ acked' = [acked EXCEPT ![s] = @ \cup {sl}]
        /\ reply' = reply \/ reply' = [reply EXCEPT ![s] = "err"]
        /\ Visit(s, "cmd", sl, "recycle")
        /\ crashed' \in BOOLEAN
  <2>1. CASE op[s]["cmd"] = "write"
    <3>1. PICK sl, o :
            /\ sl \in todo[s]["cmd"] /\ o \in Exec(conn[pcs[s][sl]], "write", s)
            /\ conn' = [conn EXCEPT ![pcs[s][sl]] = o.conn]
            /\ MakeDurable(o.durable, sl)
            /\ acked' = IF "write" = "write" /\ o.res = "ok" THEN [acked EXCEPT ![s] = @ \cup {sl}] ELSE acked
            /\ reply' = IF o.res = "ok" THEN reply ELSE [reply EXCEPT ![s] = "err"]
            /\ Visit(s, "cmd", sl, "recycle")
            /\ crashed' = (o.res = "panic" /\ op[s]["cmd"] # "show")
      <4>1. (IF op[s]["cmd"] = "write" THEN "write" ELSE "read") = "write"  BY <2>1
      <4> QED  BY <4>1, Zenon DEF Execute
    <3>2. crashed' \in BOOLEAN  BY <3>1, Zenon
    <3> QED  BY <3>1, <3>2, Zenon
  <2>2. CASE op[s]["cmd"] # "write"
    <3>1. PICK sl, o :
            /\ sl \in todo[s]["cmd"] /\ o \in Exec(conn[pcs[s][sl]], "read", s)
            /\ conn' = [conn EXCEPT ![pcs[s][sl]] = o.conn]
            /\ MakeDurable(o.durable, sl)
            /\ acked' = IF "read" = "write" /\ o.res = "ok" THEN [acked EXCEPT ![s] = @ \cup {sl}] ELSE acked
            /\ reply' = IF o.res = "ok" THEN reply ELSE [reply EXCEPT ![s] = "err"]
            /\ Visit(s, "cmd", sl, "recycle")
            /\ crashed' = (o.res = "panic" /\ op[s]["cmd"] # "show")
      <4>1. (IF op[s]["cmd"] = "write" THEN "write" ELSE "read") = "read"  BY <2>2
      <4> QED  BY <4>1, Zenon DEF Execute
    <3>2. crashed' \in BOOLEAN  BY <3>1
    <3> QED  BY <3>1, <3>2, Zenon
  <2> QED  BY <2>1, <2>2, Zenon

<1> DEFINE c == pcs[s][sl]
<1>3. UNCHANGED <<sessionVars, pcs, op, pooled, blank, clientTx>>  BY Zenon DEF Execute
<1>4. sl \in Slices /\ c \in Conns /\ todo[s]["cmd"] \subseteq Leased(s)
  <2>1. todo[s]["cmd"] \subseteq Leased(s)  BY <1>0, <1>1 DEF Shape, Leasing
  <2>2. sl \in Slices /\ c # NoConn  BY <1>2, <2>1 DEF Leased
  <2>3. pcs[s] \in Row  BY <1>0, Own DEF Fits
  <2>4. c \in Conns \cup {NoConn}  BY <2>2, <2>3 DEF Row
  <2> QED  BY <2>1, <2>2, <2>4
<1> HIDE DEF c
<1>5. Holds(s, sl, c)  BY Zenon DEF Holds, c
<1>6. Sound(o.conn)
  <2>1. Sound(conn[c])  BY <1>4, <1>5, HeldSound
  <2>2. q \in Sql /\ o \in Exec(conn[c], q, s)  BY <1>2 DEF c, Sql
  <2> QED  BY <2>1, <2>2, ExecFacts
<1>7. PICK place \in {"exec", "recycle"} : at' = [at EXCEPT ![s]["cmd"] = place]
  <2>1. at' = [at EXCEPT ![s]["cmd"] = "recycle"] \/ at' = at  BY <1>2, Zenon DEF Visit, Goto
  <2>2. at = [at EXCEPT ![s]["cmd"] = "exec"]  BY <1>0, <1>1, OwnGoroutine
  <2> QED  BY <2>1, <2>2, Zenon
<1>8. PICK rp \in {"ok", "err"} : reply' = [reply EXCEPT ![s] = rp]
  <2>1. reply[s] \in {"ok", "err"} /\ reply = [reply EXCEPT ![s] = reply[s]]  BY <1>0, Own
  <2> QED  BY <1>2, <2>1, Zenon
<1> DEFINE td == todo[s]["cmd"] \ {sl}
<1>9. todo' = [todo EXCEPT ![s]["cmd"] = td] /\ td \in SUBSET Slices
  BY <1>0, <1>2, OwnGoroutine DEF Visit
<1> HIDE DEF td
<1>10. Moves(s, "cmd", status[s], txConns[s], pcs[s], lock[s], closed[s], place, td, op[s]["cmd"], rp)
  BY <1>0, <1>3, <1>7, <1>8, <1>9, Own, OwnGoroutine DEF Moves, sessionVars, Places
<1>11. Moved(s, "cmd", status[s], txConns[s], pcs[s], lock[s], place, td, op[s]["cmd"])
  BY <1>0, <1>10, MovesMoved, Zenon
<1>12. /\ Wheel(s)' /\ Doing(s)' /\ (\A p \in Procs : at'[s][p] \notin {"begin", "finish"})
       /\ ((~IsInTransaction(s)' => txConns'[s] = NoConns) => Transaction(s)')
  <2>1. op'[s] = op[s]  BY <1>3
  <2>2. at'[s]["wheel"] = at[s]["wheel"] /\ lock'[s] = lock[s] /\ at'[s]["cmd"] \in Busy
    BY <1>0, <1>7, <1>11 DEF Moved, Busy
  <2> QED  BY <1>0, <1>1, <2>1, <2>2, InnerShape, Zenon
<1>13. Leased(s)' = Leased(s) /\ (IsInTransaction(s)' <=> IsInTransaction(s))
  BY <1>11, SameParts DEF Moved
<1>14. Leasing(s)'
  BY <1>0, <1>4, <1>7, <1>11, <1>13 DEF Shape, Leasing, Moved, Busy, Getting, td
<1>15. Transaction(s)'  BY <1>0, <1>1, <1>11, <1>12, <1>13, BusyFacts DEF Moved
<1>16. \A tl \in Slices, d \in Conns : Holds(s, tl, d)' <=> Holds(s, tl, d)
  <2>1. lock'[s] = lock[s] /\ pcs'[s] = pcs[s] /\ txConns'[s] = txConns[s]  BY <1>11, Zenon DEF Moved
  <2>2. Inside(s)  BY <1>0, <1>1, <1>12, <2>1, InnerHolds, Zenon
  <2> QED  BY <2>1, <2>2, Zenon DEF Inside
<1>17. Histories'
  <2>1. applied' \in [Sessions -> SUBSET Slices]  BY <1>0, <1>2, <1>4, DurableTyped, Zenon
  <2>2. acked' \in [Sessions -> SUBSET Slices]
    <3>1. acked \in [Sessions -> SUBSET Slices]  BY <1>0 DEF TypeOK
    <3>2. [acked EXCEPT ![s] = @ \cup {sl}] \in [Sessions -> SUBSET Slices]  BY <1>4, <3>1, Zenon
    <3> QED  BY <1>2, <3>1, <3>2, Zenon
  <2> QED  BY <1>0, <1>2, <1>3, <2>1, <2>2, Zenon DEF TypeOK, Histories
<1>18. conn' = [conn EXCEPT ![c] = o.conn] /\ UNCHANGED <<pooled, blank>>  BY <1>2, <1>3 DEF c
<1>19. Shape(s)'  BY <1>12, <1>14, <1>15 DEF Shape
<1> QED  BY <1>0, <1>4, <1>5, <1>6, <1>10, <1>16, <1>17, <1>18, <1>19, WorkKeeps, Zenon

\* A statement has got the connection of one slice (Got).
HasGot(s, sl, c, tx) ==
    /\ \E place, td : Moves(s, "cmd", status[s], tx, Updated(pcs[s], sl, c), lock[s], closed[s],
                            place, td, op[s]["cmd"], reply[s])
    /\ Shape(s)' /\ sl \in Slices /\ pcs[s][sl] = NoConn
    /\ \A tl \in Slices : \A d :
         /\ Holds(s, tl, d) <=> pcs[s][tl] = d \/ txConns[s][tl] = d
         /\ Holds(s, tl, d)' <=> (tl = sl /\ (c = d \/ tx[sl] = d))
                                 \/ (tl # sl /\ (pcs[s][tl] = d \/ txConns[s][tl] = d))

\* A session that has got a connection keeps its shape and holds what it held
\* and the new one (getTransactionConn, getBackendConn).
LEMMA GotFacts ==
    ASSUME TypeOK, NEW s \in Sessions, Shape(s), at[s]["cmd"] \in {"getTx", "getPool"},
           NEW sl \in todo[s]["cmd"], NEW c \in Conns, c[1] = sl, Got(s, sl, c),
           UNCHANGED <<status, lock, closed, op, reply>>,
           NEW tx, Fits(tx), txConns' = [txConns EXCEPT ![s] = tx],
           IsInTransaction(s) => tx[sl] = c, ~IsInTransaction(s) => tx = txConns[s],
           \A tl \in Slices : tl # sl => tx[tl] = txConns[s][tl]
    PROVE  HasGot(s, sl, c, tx)
<1> DEFINE pc == Updated(pcs[s], sl, c)
<1>0. "cmd" \in Procs /\ "wheel" \in Procs /\ at[s]["cmd"] \in Busy /\ at[s]["cmd"] \in Getting
  BY DEF Procs, Busy, Getting
<1>1. sl \in Slices /\ todo[s]["cmd"] \in SUBSET Slices  BY <1>0, OwnGoroutine
<1>2. todo[s]["cmd"] \cap Leased(s) = {}  BY <1>0, Zenon DEF Shape, Leasing
<1>3. pcs[s][sl] = NoConn  BY <1>1, <1>2 DEF Leased
<1>4. Fits(pcs[s])  BY Own
<1>5. Fits(pc) /\ pc[sl] = c /\ \A tl \in Slices : tl # sl => pc[tl] = pcs[s][tl]
  <2>1. sl \in Slices /\ (c = NoConn \/ (c \in Conns /\ c[1] = sl))  BY <1>1, Zenon
  <2>2. Becomes(pcs[s], sl, c, pc)  BY <1>4, <2>1, RowSet, Zenon
  <2> QED  BY <2>2, Zenon DEF Becomes
<1>6. pcs' = [pcs EXCEPT ![s] = pc]  BY Zenon DEF Got, Updated
<1> HIDE DEF pc
<1>7. PICK place \in {"exec", "get"}, td \in SUBSET Slices :
        /\ at' = [at EXCEPT ![s]["cmd"] = place] /\ todo' = [todo EXCEPT ![s]["cmd"] = td]
        /\ place = "exec" => td = Leased(s) \cup {sl}
        /\ place = "get" => td = todo[s]["cmd"] \ {sl}
  <2>1. CASE todo[s]["cmd"] = {sl}
    <3>1. at' = [at EXCEPT ![s]["cmd"] = "exec"] /\ todo' = [todo EXCEPT ![s]["cmd"] = Leased(s) \cup {sl}]
      BY <2>1 DEF Got, Goto
    <3>2. Leased(s) \cup {sl} \in SUBSET Slices  BY <1>1 DEF Leased
    <3> QED  BY <3>1, <3>2, Zenon
  <2>2. CASE todo[s]["cmd"] # {sl}
    <3>1. at' = [at EXCEPT ![s]["cmd"] = "get"] /\ todo' = [todo EXCEPT ![s]["cmd"] = todo[s]["cmd"] \ {sl}]
      BY <2>2 DEF Got, Goto
    <3>2. todo[s]["cmd"] \ {sl} \in SUBSET Slices  BY <1>1, Zenon
    <3> QED  BY <3>1, <3>2, Zenon
  <2> QED  BY <2>1, <2>2, SMTT(30)
<1>8. Moves(s, "cmd", status[s], tx, pc, lock[s], closed[s], place, td, op[s]["cmd"], reply[s])
  BY <1>0, <1>5, <1>6, <1>7, Own, OwnGoroutine DEF Moves, Places
<1>9. Moved(s, "cmd", status[s], tx, pc, lock[s], place, td, op[s]["cmd"])
  BY <1>0, <1>8, MovesMoved, Zenon
<1>10. /\ Wheel(s)' /\ Doing(s)' /\ (\A p \in Procs : at'[s][p] \notin {"begin", "finish"})
       /\ ((~IsInTransaction(s)' => txConns'[s] = NoConns) => Transaction(s)')
  <2>1. op'[s] = op[s]  BY Zenon
  <2>2. at'[s]["wheel"] = at[s]["wheel"] /\ lock'[s] = lock[s] /\ at'[s]["cmd"] \in Busy
    BY <1>0, <1>7, <1>9 DEF Moved, Busy
  <2> QED  BY <1>0, <2>1, <2>2, InnerShape, Zenon
<1>11. IsInTransaction(s)' <=> IsInTransaction(s)  BY <1>9, SameParts, Zenon DEF Moved
<1>12. Leased(s)' = Leased(s) \cup {sl}
  <2>1. pcs'[s] = pc /\ c # NoConn  BY <1>9, NoConnAssumption, Zenon DEF Moved
  <2> QED  BY <1>1, <1>5, <2>1, Zenon DEF Leased
<1>13. Leasing(s)'
  <2>1. at'[s]["cmd"] = place /\ todo'[s]["cmd"] = td /\ pcs'[s] = pc /\ txConns'[s] = tx
    BY <1>9, Zenon DEF Moved
  <2>2. place = "get" => td \cap Leased(s)' = {}  BY <1>2, <1>7, <1>12
  <2>3. ASSUME IsInTransaction(s), NEW tl \in Leased(s)' PROVE pc[tl] = tx[tl]
    <3>1. CASE tl = sl  BY <1>5, <2>3, <3>1, Zenon
    <3>2. CASE tl # sl
      <4>1. tl \in Slices /\ tl \in Leased(s)  BY <1>12, <2>3, <3>2 DEF Leased
      <4>2. pcs[s][tl] = txConns[s][tl]  BY <2>3, <4>1, Zenon DEF Shape, Leasing
      <4> QED  BY <1>5, <3>2, <4>1, <4>2
    <3> QED  BY <3>1, <3>2, Zenon
  <2> QED  BY <1>7, <1>11, <1>12, <2>1, <2>2, <2>3 DEF Leasing, Busy, Getting
<1>14. Transaction(s)'
  <2>1. ~IsInTransaction(s)' => txConns'[s] = NoConns  BY <1>0, <1>9, <1>11, BusyFacts, Zenon DEF Moved
  <2> QED  BY <1>10, <2>1, Zenon
<1>15. \A tl \in Slices : \A d :
         /\ Holds(s, tl, d) <=> pcs[s][tl] = d \/ txConns[s][tl] = d
         /\ Holds(s, tl, d)' <=> pc[tl] = d \/ tx[tl] = d
  <2>1. lock'[s] = lock[s] /\ pcs'[s] = pc /\ txConns'[s] = tx  BY <1>9, Zenon DEF Moved
  <2>2. Inside(s)  BY <1>0, <1>10, <2>1, InnerHolds, Zenon
  <2> SUFFICES ASSUME NEW tl \in Slices, NEW d
               PROVE  /\ Holds(s, tl, d) <=> pcs[s][tl] = d \/ txConns[s][tl] = d
                      /\ Holds(s, tl, d)' <=> pc[tl] = d \/ tx[tl] = d
    BY Zenon
  <2>3. /\ Holds(s, tl, d) <=> pcs[s][tl] = d \/ txConns[s][tl] = d
        /\ Holds(s, tl, d)' <=> pcs'[s][tl] = d \/ txConns'[s][tl] = d
    BY <2>2, Zenon DEF Inside
  <2>4. pcs'[s][tl] = pc[tl] /\ txConns'[s][tl] = tx[tl]  BY <2>1, Zenon
  <2> QED  BY <2>3, <2>4, Zenon
<1>16. \A tl \in Slices : \A d :
         /\ Holds(s, tl, d) <=> pcs[s][tl] = d \/ txConns[s][tl] = d
         /\ Holds(s, tl, d)' <=> (tl = sl /\ (c = d \/ tx[sl] = d))
                                 \/ (tl # sl /\ (pcs[s][tl] = d \/ txConns[s][tl] = d))
  <2> TAKE tl \in Slices
  <2>1. CASE tl = sl  BY <1>5, <1>15, <2>1, ZenonT(40)
  <2>2. CASE tl # sl
    <3>1. pc[tl] = pcs[s][tl] /\ tx[tl] = txConns[s][tl]  BY <1>5, <2>2, Zenon
    <3> QED  BY <1>15, <2>2, <3>1, ZenonT(40)
  <2> QED  BY <2>1, <2>2, Zenon
<1>17. Shape(s)'  BY <1>10, <1>13, <1>14, Zenon DEF Shape
<1>18. \E x, T : Moves(s, "cmd", status[s], tx, Updated(pcs[s], sl, c), lock[s], closed[s],
                       x, T, op[s]["cmd"], reply[s])
  BY <1>8, Zenon DEF pc
<1> QED  BY <1>1, <1>3, <1>16, <1>17, <1>18, Zenon DEF HasGot

\* A statement outside a transaction takes a connection (GetFromPool).
LEMMA GetFromPoolKeeps ==
    ASSUME Calm, IInv, NEW s \in Sessions, GetFromPool(s)
    PROVE  Keeps
<1>0. TypeOK /\ Shape(s) /\ "cmd" \in Procs /\ "wheel" \in Procs  BY DEF IInv, Procs
<1>1. PICK c \in Conns : /\ c[1] \in todo[s]["cmd"] /\ Available(c) /\ Take(c)
                         /\ conn' = [conn EXCEPT ![c] = Taken(c)] /\ Got(s, c[1], c)
  BY Zenon DEF GetFromPool
<1>2. at[s]["cmd"] = "getPool"  BY DEF GetFromPool, At
<1>3. UNCHANGED <<sessionVars, op, reply, clientVars, crashed>>  BY DEF GetFromPool
<1>4. ~IsInTransaction(s)  BY <1>0, <1>2 DEF Shape, Leasing
<1>5. HasGot(s, c[1], c, txConns[s])
  <2>1. Fits(txConns[s]) /\ txConns' = [txConns EXCEPT ![s] = txConns[s]]
    BY <1>0, <1>3, Own DEF sessionVars
  <2>2. UNCHANGED <<status, lock, closed, op, reply>>  BY <1>3 DEF sessionVars
  <2>3. at[s]["cmd"] \in {"getTx", "getPool"} /\ c[1] \in todo[s]["cmd"] /\ Got(s, c[1], c)
    BY <1>1, <1>2
  <2> QED  BY <1>0, <1>4, <2>1, <2>2, <2>3, GotFacts, Zenon
<1>6. PICK place, td : Moves(s, "cmd", status[s], txConns[s], Updated(pcs[s], c[1], c), lock[s],
                             closed[s], place, td, op[s]["cmd"], reply[s])
  BY <1>5, Zenon DEF HasGot
<1>7. Sound(Taken(c))  BY <1>1, AvailableFree
<1>8. Holds(s, c[1], c)'  BY <1>5, Zenon DEF HasGot
<1>9. \A tl \in Slices, d \in Conns : d # c => (Holds(s, tl, d)' <=> Holds(s, tl, d))
  <2>1. \A d \in Conns : d # NoConn  BY NoConnAssumption
  <2> QED  BY <1>5, <2>1, Zenon DEF HasGot
<1>10. Histories' /\ Shape(s)' /\ c[1] \in Slices  BY <1>0, <1>3, <1>5, HistorySame, Zenon DEF HasGot
<1> QED  BY <1>0, <1>1, <1>6, <1>7, <1>8, <1>9, <1>10, TakeKeeps, Zenon

\* getTransactionConn fails: the statement has to give up (Refuse).
LEMMA RefuseFacts ==
    ASSUME TypeOK, NEW s \in Sessions, Shape(s), at[s]["cmd"] \in Busy, Refuse(s, "recycle"),
           UNCHANGED <<sessionVars, pcs, op>>
    PROVE  /\ Moves(s, "cmd", status[s], txConns[s], pcs[s], lock[s], closed[s], "recycle", {},
                    op[s]["cmd"], "err")
           /\ Shape(s)' /\ \A tl \in Slices, d \in Conns : Holds(s, tl, d)' <=> Holds(s, tl, d)
<1>0. "cmd" \in Procs /\ "wheel" \in Procs  BY DEF Procs
<1>1. /\ at' = [at EXCEPT ![s]["cmd"] = "recycle"] /\ reply' = [reply EXCEPT ![s] = "err"]
      /\ todo' = [todo EXCEPT ![s]["cmd"] = {}]
  BY Zenon DEF Refuse, Goto
<1>2. Moves(s, "cmd", status[s], txConns[s], pcs[s], lock[s], closed[s], "recycle", {}, op[s]["cmd"], "err")
  BY <1>0, <1>1, Own, OwnGoroutine DEF Moves, sessionVars, Places
<1>3. Moved(s, "cmd", status[s], txConns[s], pcs[s], lock[s], "recycle", {}, op[s]["cmd"])
  BY <1>0, <1>2, MovesMoved, Zenon
<1>4. /\ Wheel(s)' /\ Doing(s)' /\ (\A p \in Procs : at'[s][p] \notin {"begin", "finish"})
      /\ ((~IsInTransaction(s)' => txConns'[s] = NoConns) => Transaction(s)')
  <2>1. op'[s] = op[s]  OBVIOUS
  <2>2. at'[s]["wheel"] = at[s]["wheel"] /\ lock'[s] = lock[s] /\ at'[s]["cmd"] \in Busy
    BY <1>0, <1>3, Zenon DEF Moved, Busy
  <2> QED  BY <1>0, <2>1, <2>2, InnerShape, Zenon
<1>5. Leased(s)' = Leased(s) /\ (IsInTransaction(s)' <=> IsInTransaction(s))
  BY <1>3, SameParts, Zenon DEF Moved
<1>6. Leasing(s)'
  BY <1>0, <1>3, <1>5, Zenon DEF Shape, Leasing, Moved, Busy, Getting
<1>7. Transaction(s)'  BY <1>0, <1>3, <1>4, <1>5, BusyFacts, Zenon DEF Moved
<1>8. \A tl \in Slices, d \in Conns : Holds(s, tl, d)' <=> Holds(s, tl, d)
  <2>1. lock'[s] = lock[s] /\ pcs'[s] = pcs[s] /\ txConns'[s] = txConns[s]  BY <1>3, Zenon DEF Moved
  <2>2. Inside(s)  BY <1>0, <1>4, <2>1, InnerHolds, Zenon
  <2> QED  BY <2>1, <2>2, Zenon DEF Inside
<1> QED  BY <1>2, <1>4, <1>6, <1>7, <1>8, Zenon DEF Shape

\* A statement in a transaction gets the connection of the transaction, or a
\* new one on which a transaction is begun (GetTransactionConn).
LEMMA GetTransactionConnKeeps ==
    ASSUME Calm, IInv, NEW s \in Sessions, GetTransactionConn(s)
    PROVE  Keeps
<1>0. TypeOK /\ Shape(s) /\ "cmd" \in Procs /\ "wheel" \in Procs  BY DEF IInv, Procs
<1>1. at[s]["cmd"] = "getTx" /\ at[s]["cmd"] \in Busy /\ at[s]["cmd"] \in {"getTx", "getPool"}
  BY DEF GetTransactionConn, At, Busy
<1>2. UNCHANGED <<status, lock, closed, op, clientTx, acked, crashed>>  BY DEF GetTransactionConn
<1>3. IsInTransaction(s) /\ Fits(txConns[s]) /\ todo[s]["cmd"] \in SUBSET Slices
  BY <1>0, <1>1, Own, OwnGoroutine DEF Shape, Leasing
<1>4. ASSUME NEW sl \in todo[s]["cmd"], txConns[s][sl] # NoConn, Got(s, sl, txConns[s][sl]),
             UNCHANGED <<txConns, reply, poolVars, applied>>
      PROVE  Keeps
  <2> DEFINE c == txConns[s][sl]
  <2>1. sl \in Slices  BY <1>3
  <2>2. c \in Conns /\ c[1] = sl
    <3>1. c \in Conns \cup {NoConn}  BY <1>3, <2>1, Zenon DEF Fits, Row
    <3>2. c \in Conns  BY <1>4, <3>1
    <3> QED  BY <1>3, <2>1, <3>2, Zenon DEF Fits
  <2>3. txConns' = [txConns EXCEPT ![s] = txConns[s]]  BY <1>0, <1>4, Own
  <2>4. Got(s, sl, c) /\ UNCHANGED <<status, lock, closed, op, reply>>  BY <1>2, <1>4
  <2> HIDE DEF c
  <2>5. txConns[s][sl] = c  BY DEF c
  <2>6. HasGot(s, sl, c, txConns[s])
    BY <1>0, <1>1, <1>3, <1>4, <2>2, <2>3, <2>4, <2>5, GotFacts, Zenon
  <2>7. PICK place, td : Moves(s, "cmd", status[s], txConns[s], Updated(pcs[s], sl, c), lock[s],
                               closed[s], place, td, op[s]["cmd"], reply[s])
    BY <2>6, Zenon DEF HasGot
  <2>8. \A tl \in Slices, d \in Conns : Holds(s, tl, d)' <=> Holds(s, tl, d)
    <3>1. \A d \in Conns : d # NoConn  BY NoConnAssumption
    <3> QED  BY <2>5, <2>6, <3>1, Zenon DEF HasGot
  <2>9. UNCHANGED <<clientVars, crashed>>  BY <1>2, <1>4 DEF clientVars
  <2>10. Histories' /\ Shape(s)'  BY <1>0, <2>6, <2>9, HistorySame, Zenon DEF HasGot
  <2>11. UNCHANGED poolVars  BY <1>4
  <2> QED  BY <1>0, <2>7, <2>8, <2>10, <2>11, SwapKeeps, Zenon
<1>5. ASSUME NEW c \in Conns, c[1] \in todo[s]["cmd"], txConns[s][c[1]] = NoConn, Available(c),
             NEW q \in Sql, NEW o \in Exec(Taken(c), q, s), MakeDurable(o.durable, c[1])
      PROVE  Histories' /\ Sound(o.conn) /\ o.res # "panic" /\ c[1] \in Slices
  <2>1. c[1] \in Slices  BY <1>3, <1>5, Zenon
  <2>2. Sound(Taken(c))  BY <1>5, AvailableFree, Zenon
  <2>3. Sound(o.conn) /\ o.res \in {"ok", "err"}  BY <2>2, ExecFacts, Zenon
  <2>4. applied' \in [Sessions -> SUBSET Slices]  BY <1>0, <1>5, <2>1, DurableTyped
  <2>5. Histories'  BY <1>0, <1>2, <2>4 DEF TypeOK, Histories
  <2> QED  BY <2>1, <2>3, <2>5
<1>6. ASSUME NEW c \in Conns, c[1] \in todo[s]["cmd"], txConns[s][c[1]] = NoConn, Available(c), Take(c),
             NEW r, Sound(r), Histories', conn' = [conn EXCEPT ![c] = r],
             txConns' = [txConns EXCEPT ![s][c[1]] = c], Got(s, c[1], c), UNCHANGED reply
      PROVE  Keeps
  <2> DEFINE tx == Updated(txConns[s], c[1], c)
  <2>1. c[1] \in Slices  BY <1>3, <1>6
  <2>2. txConns' = [txConns EXCEPT ![s] = tx]  BY <1>6, Zenon DEF Updated
  <2>3. Fits(tx) /\ tx[c[1]] = c /\ \A tl \in Slices : tl # c[1] => tx[tl] = txConns[s][tl]
    <3>1. c = NoConn \/ (c \in Conns /\ c[1] = c[1])  OBVIOUS
    <3>2. Becomes(txConns[s], c[1], c, tx)  BY <1>3, <2>1, <3>1, RowSet, Zenon
    <3> QED  BY <3>2, Zenon DEF Becomes
  <2>4. UNCHANGED <<status, lock, closed, op, reply>>  BY <1>2, <1>6
  <2> HIDE DEF tx
  <2>5. HasGot(s, c[1], c, tx)
    BY <1>0, <1>1, <1>3, <1>6, <2>2, <2>3, <2>4, GotFacts, Zenon
  <2>6. PICK place, td : Moves(s, "cmd", status[s], tx, Updated(pcs[s], c[1], c), lock[s],
                               closed[s], place, td, op[s]["cmd"], reply[s])
    BY <2>5, Zenon DEF HasGot
  <2>7. Holds(s, c[1], c)'  BY <2>5, Zenon DEF HasGot
  <2>8. \A tl \in Slices, d \in Conns : d # c => (Holds(s, tl, d)' <=> Holds(s, tl, d))
    <3>1. \A d \in Conns : d # NoConn  BY NoConnAssumption
    <3> QED  BY <1>6, <2>3, <2>5, <3>1, ZenonT(40) DEF HasGot
  <2>9. Shape(s)'  BY <2>5, Zenon DEF HasGot
  <2> QED  BY <1>0, <1>6, <2>1, <2>6, <2>7, <2>8, <2>9, TakeKeeps, Zenon
<1>7. ASSUME NEW c \in Conns, Available(c), conn' = [conn EXCEPT ![c] = Dead], Histories',
             pooled' = IF pooled[c] > 0 THEN [pooled EXCEPT ![c] = @ - 1] ELSE pooled,
             blank' = IF pooled[c] > 0 THEN [blank EXCEPT ![c[1]] = @ + 1] ELSE blank,
             Refuse(s, "recycle"), UNCHANGED <<txConns, pcs>>
      PROVE  Keeps
  <2>1. UNCHANGED <<sessionVars, pcs, op>>  BY <1>2, <1>7 DEF sessionVars
  <2>2. /\ Moves(s, "cmd", status[s], txConns[s], pcs[s], lock[s], closed[s], "recycle", {},
                 op[s]["cmd"], "err")
        /\ Shape(s)' /\ \A tl \in Slices, d \in Conns : Holds(s, tl, d)' <=> Holds(s, tl, d)
    BY <1>0, <1>1, <1>7, <2>1, RefuseFacts, Zenon
  <2> QED  BY <1>0, <1>7, <2>2, DropKeeps, Zenon

<1> DEFINE q == IF IsAutoCommit(s) THEN "begin" ELSE "ac0"
<1>8. q \in Sql  BY DEF Sql
<1>9. ASSUME NEW c \in Conns, c[1] \in todo[s]["cmd"], txConns[s][c[1]] = NoConn, Available(c),
             NEW o \in Exec(Taken(c), q, s), MakeDurable(o.durable, c[1]),
             \/ /\ o.res = "ok" /\ Take(c) /\ conn' = [conn EXCEPT ![c] = o.conn]
                /\ txConns' = [txConns EXCEPT ![s][c[1]] = c] /\ Got(s, c[1], c) /\ UNCHANGED reply
             \/ /\ o.res = "err" /\ conn' = [conn EXCEPT ![c] = Dead]
                /\ pooled' = IF pooled[c] > 0 THEN [pooled EXCEPT ![c] = @ - 1] ELSE pooled
                /\ blank' = IF pooled[c] > 0 THEN [blank EXCEPT ![c[1]] = @ + 1] ELSE blank
                /\ Refuse(s, "recycle") /\ UNCHANGED <<txConns, pcs>>
             \/ o.res = "panic"
      PROVE  Keeps
  <2> HIDE DEF q
  <2>1. Histories' /\ Sound(o.conn) /\ o.res # "panic"  BY <1>5, <1>8, <1>9, Zenon
  <2>2. CASE o.res = "ok"  BY <1>6, <1>9, <2>1, <2>2, Zenon
  <2>3. CASE o.res = "err"  BY <1>7, <1>9, <2>1, <2>3, Zenon
  <2> QED  BY <1>9, <2>1, <2>2, <2>3
<1>10. CASE \E sl \in todo[s]["cmd"] :
              /\ txConns[s][sl] # NoConn
              /\ Got(s, sl, txConns[s][sl])
              /\ UNCHANGED <<txConns, reply, poolVars, applied>>
  BY <1>4, <1>10, Zenon
<1> QED  BY <1>9, <1>10, ZenonT(40) DEF GetTransactionConn

\* A statement outside a transaction gives a connection back (PutConn).
LEMMA PutConnKeeps ==
    ASSUME Calm, IInv, NEW s \in Sessions, PutConn(s)
    PROVE  Keeps
<1>0. TypeOK /\ Shape(s) /\ "cmd" \in Procs /\ "wheel" \in Procs  BY DEF IInv, Procs
<1>1. at[s]["cmd"] = "put" /\ at[s]["cmd"] \in Busy  BY DEF PutConn, At, Busy
<1>2. PICK sl, k :
        /\ sl \in todo[s]["cmd"] /\ k \in Recycle(conn[pcs[s][sl]])
        /\ conn' = [conn EXCEPT ![pcs[s][sl]] = k.conn]
        /\ GiveBack(pcs[s][sl], k)
        /\ MakeDurable(k.durable, sl)
        /\ k.to # "lost" => /\ Visit(s, "cmd", sl, "reply")
                            /\ pcs' = [pcs EXCEPT ![s][sl] = NoConn]
                            /\ UNCHANGED reply
  BY Zenon DEF PutConn
<1>c. PICK c : c = pcs[s][sl]  OBVIOUS
<1>3. UNCHANGED <<sessionVars, op, clientTx, acked, crashed>>  BY DEF PutConn
<1>4. sl \in Slices /\ c \in Conns /\ c[1] = sl /\ todo[s]["cmd"] = Leased(s)
  <2>1. todo[s]["cmd"] = Leased(s)  BY <1>0, <1>1 DEF Shape, Leasing
  <2>2. sl \in Slices /\ c # NoConn  BY <1>2, <1>c, <2>1 DEF Leased
  <2>3. Fits(pcs[s])  BY <1>0, Own
  <2>4. c \in Conns \cup {NoConn}  BY <1>c, <2>2, <2>3 DEF Fits, Row
  <2>5. c \in Conns  BY <2>2, <2>4
  <2>6. c[1] = sl  BY <1>c, <2>2, <2>3, <2>5 DEF Fits
  <2> QED  BY <2>1, <2>2, <2>5, <2>6
<1>5. Holds(s, sl, c)  BY <1>c, Zenon DEF Holds
<1>6. Sound(conn[c]) /\ k \in Recycle(conn[c]) /\ k.to # "lost"
  <2>1. Sound(conn[c])  BY <1>4, <1>5, HeldSound
  <2>2. k \in Recycle(conn[c])  BY <1>2, <1>c
  <2> QED  BY <2>1, <2>2, RecycleFacts
<1>7. PICK place \in {"put", "reply"} :
        at' = [at EXCEPT ![s]["cmd"] = place] /\ (place = "reply" => todo[s]["cmd"] = {sl})
  <2>1. Visit(s, "cmd", sl, "reply")  BY <1>2, <1>6
  <2>2. at = [at EXCEPT ![s]["cmd"] = "put"]  BY <1>0, <1>1, OwnGoroutine
  <2>3. CASE todo[s]["cmd"] = {sl}
    <3>1. at' = [at EXCEPT ![s]["cmd"] = "reply"]  BY <2>1, <2>3, Zenon DEF Visit, Goto
    <3> QED  BY <2>3, <3>1, Zenon
  <2>4. CASE todo[s]["cmd"] # {sl}
    <3>1. at' = [at EXCEPT ![s]["cmd"] = "put"]  BY <2>1, <2>2, <2>4, Zenon DEF Visit, Goto
    <3>2. "put" # "reply"  OBVIOUS
    <3> QED  BY <3>1, <3>2, Zenon
  <2> QED  BY <2>3, <2>4
<1> DEFINE td == todo[s]["cmd"] \ {sl}
           pc == Updated(pcs[s], sl, NoConn)
<1>8. todo' = [todo EXCEPT ![s]["cmd"] = td] /\ td \in SUBSET Slices
  BY <1>0, <1>2, <1>6, OwnGoroutine DEF Visit
<1>9. pcs' = [pcs EXCEPT ![s] = pc]  BY <1>2, <1>6, Zenon DEF Updated
<1>10. Fits(pc) /\ pc[sl] = NoConn /\ \A tl \in Slices : tl # sl => pc[tl] = pcs[s][tl]
  <2>1. Fits(pcs[s])  BY <1>0, Own
  <2>2. Becomes(pcs[s], sl, NoConn, pc)  BY <1>4, <2>1, RowSet, Zenon
  <2> QED  BY <2>2, Zenon DEF Becomes
<1> HIDE DEF td, pc
<1>11. Moves(s, "cmd", status[s], txConns[s], pc, lock[s], closed[s], place, td, op[s]["cmd"], reply[s])
  <2>1. UNCHANGED reply  BY <1>2, <1>6
  <2> QED  BY <1>0, <1>3, <1>7, <1>8, <1>9, <1>10, <2>1, Own, OwnGoroutine, Zenon DEF Moves, sessionVars, Places
<1>12. Moved(s, "cmd", status[s], txConns[s], pc, lock[s], place, td, op[s]["cmd"])
  BY <1>0, <1>11, MovesMoved, Zenon
<1>13. /\ Wheel(s)' /\ Doing(s)' /\ (\A p \in Procs : at'[s][p] \notin {"begin", "finish"})
       /\ ((~IsInTransaction(s)' => txConns'[s] = NoConns) => Transaction(s)')
  <2>1. op'[s] = op[s]  BY <1>3
  <2>2. at'[s]["wheel"] = at[s]["wheel"] /\ lock'[s] = lock[s] /\ at'[s]["cmd"] \in Busy \cup {"reply"}
    BY <1>0, <1>7, <1>12 DEF Moved, Busy
  <2> QED  BY <1>0, <1>1, <2>1, <2>2, InnerShape, Zenon
<1>14. ~IsInTransaction(s) /\ ~IsInTransaction(s)' /\ txConns[s] = NoConns
  BY <1>0, <1>1, <1>12, BusyFacts, SameParts, Zenon DEF Shape, Leasing, Moved
<1>15. Leased(s)' = td
  <2>1. pcs'[s] = pc  BY <1>12 DEF Moved
  <2> QED  BY <1>4, <1>10, <2>1 DEF Leased, td
<1>16. place = "reply" => pc = NoConns
  <2>1. ASSUME place = "reply" PROVE \A tl \in Slices : pc[tl] = NoConn
    <3>1. Leased(s)' = {}  BY <1>7, <1>15, <2>1 DEF td
    <3> QED  BY <1>12, <3>1 DEF Leased, Moved
  <2>2. pc \in Row  BY <1>10 DEF Fits
  <2>3. pc = [tl \in Slices |-> pc[tl]]  BY <2>2 DEF Row
  <2> QED  BY <2>1, <2>3 DEF NoConns
<1>17. Leasing(s)'
  BY <1>7, <1>12, <1>14, <1>15, <1>16 DEF Leasing, Moved, Busy, Getting
<1>18. Transaction(s)'  BY <1>12, <1>13, <1>14, Zenon DEF Moved
<1>19. \A tl \in Slices : \A d : /\ Holds(s, tl, d) <=> pcs[s][tl] = d \/ NoConns[tl] = d
                                 /\ Holds(s, tl, d)' <=> pc[tl] = d \/ NoConns[tl] = d
  <2>1. lock'[s] = lock[s] /\ pcs'[s] = pc /\ txConns'[s] = NoConns  BY <1>12, <1>14, Zenon DEF Moved
  <2>2. Inside(s)  BY <1>0, <1>1, <1>13, <2>1, InnerHolds, Zenon
  <2> SUFFICES ASSUME NEW tl \in Slices, NEW d
               PROVE  /\ Holds(s, tl, d) <=> pcs[s][tl] = d \/ NoConns[tl] = d
                      /\ Holds(s, tl, d)' <=> pc[tl] = d \/ NoConns[tl] = d
    BY Zenon
  <2>3. /\ Holds(s, tl, d) <=> pcs[s][tl] = d \/ txConns[s][tl] = d
        /\ Holds(s, tl, d)' <=> pcs'[s][tl] = d \/ txConns'[s][tl] = d
    BY <2>2, Zenon DEF Inside
  <2>4. pcs'[s][tl] = pc[tl] /\ txConns'[s][tl] = NoConns[tl] /\ txConns[s][tl] = NoConns[tl]
    BY <1>14, <2>1, Zenon
  <2> QED  BY <2>3, <2>4, Zenon
<1>20. \A d \in Conns, tl \in Slices : NoConns[tl] # d /\ NoConn # d  BY NoConnAssumption DEF NoConns
<1>21. \A tl \in Slices : ~Holds(s, tl, c)'
  <2>1. \A tl \in Slices : pcs[s][tl] = c => tl = sl  BY <1>0, <1>4, Own DEF Fits
  <2>2. \A tl \in Slices : pc[tl] # c  BY <1>4, <1>10, <1>20, <2>1, Zenon
  <2> TAKE tl \in Slices
  <2>3. Holds(s, tl, c)' <=> pc[tl] = c \/ NoConns[tl] = c  BY <1>19, Zenon
  <2>4. pc[tl] # c /\ NoConns[tl] # c  BY <1>4, <1>20, <2>2, Zenon
  <2> QED  BY <2>3, <2>4, Zenon
<1>22. \A tl \in Slices, d \in Conns : d # c => (Holds(s, tl, d)' <=> Holds(s, tl, d))
  BY <1>c, <1>10, <1>19, <1>20, Zenon
<1>23. Histories'
  <2>1. applied' \in [Sessions -> SUBSET Slices]  BY <1>0, <1>2, <1>4, DurableTyped
  <2> QED  BY <1>0, <1>3, <2>1, Zenon DEF TypeOK, Histories
<1>24. Shape(s)'  BY <1>13, <1>17, <1>18 DEF Shape
<1>25. conn' = [conn EXCEPT ![c] = k.conn] /\ GiveBack(c, k)  BY <1>2, <1>c
<1>26. sl \in Slices /\ c \in Conns  BY <1>4
<1> QED  BY <1>0, <1>5, <1>6, <1>11, <1>21, <1>22, <1>23, <1>24, <1>25, <1>26, GiveKeeps, Zenon

\* BEGIN on one of a transaction's connections (BeginConn).
LEMMA BeginConnKeeps ==
    ASSUME Calm, IInv, NEW s \in Sessions, BeginConn(s)
    PROVE  Keeps
<1>0. TypeOK /\ Shape(s) /\ "cmd" \in Procs /\ "wheel" \in Procs  BY DEF IInv, Procs
<1>1. at[s]["cmd"] = "begin" /\ at[s]["wheel"] = "idle" /\ todo[s]["cmd"] \subseteq InTx(s)
  BY <1>0 DEF BeginConn, At, Shape, Wheel, Transaction, Closing
<1>2. PICK sl, o :
        /\ sl \in todo[s]["cmd"] /\ o \in Exec(conn[txConns[s][sl]], "begin", s)
        /\ conn' = [conn EXCEPT ![txConns[s][sl]] = o.conn]
        /\ MakeDurable(o.durable, sl)
        /\ o.res = "ok" => todo' = [todo EXCEPT ![s]["cmd"] = @ \ {sl}] /\ UNCHANGED <<lock, at, reply>>
        /\ o.res # "ok" => Refuse(s, "reply") /\ lock' = [lock EXCEPT ![s] = "free"]
  BY Zenon DEF BeginConn
<1>3. PICK c : c = txConns[s][sl]  OBVIOUS
<1>4. UNCHANGED <<status, txConns, closed, pcs, op, pooled, blank, clientTx, acked, crashed>>
  BY DEF BeginConn
<1>5. sl \in Slices /\ c \in Conns  BY <1>0, <1>1, <1>2, <1>3, InTxConn
<1>6. \A tl : ~Letting(s, tl)  BY <1>1 DEF Letting, Procs
<1>7. \A tl : ~Released(s, tl)  BY <1>0, <1>6, Own, ReleasedIs DEF Shape
<1>8. Holds(s, sl, c)  BY <1>3, <1>7, Zenon DEF Holds
<1>9. Sound(o.conn)
  <2>1. Sound(conn[c])  BY <1>5, <1>8, HeldSound
  <2>2. "begin" \in Sql /\ o \in Exec(conn[c], "begin", s)  BY <1>2, <1>3 DEF Sql
  <2> QED  BY <2>1, <2>2, ExecFacts
<1>10. PICK place \in {"begin", "reply"}, lk \in {"free", lock[s]}, td \in SUBSET todo[s]["cmd"],
            rp \in {"ok", "err"} :
         /\ at' = [at EXCEPT ![s]["cmd"] = place] /\ lock' = [lock EXCEPT ![s] = lk]
         /\ todo' = [todo EXCEPT ![s]["cmd"] = td] /\ reply' = [reply EXCEPT ![s] = rp]
         /\ (place = "begin" => lk = lock[s]) /\ (place = "reply" => lk = "free")
  <2>1. CASE o.res = "ok"
    <3>1. todo' = [todo EXCEPT ![s]["cmd"] = todo[s]["cmd"] \ {sl}]  BY <1>2, <2>1
    <3>2. at' = at /\ lock' = lock /\ reply' = reply  BY <1>2, <2>1
    <3>3. at' = [at EXCEPT ![s]["cmd"] = "begin"]  BY <1>0, <1>1, <3>2, OwnGoroutine
    <3>4. lock' = [lock EXCEPT ![s] = lock[s]] /\ reply' = [reply EXCEPT ![s] = reply[s]]
          /\ reply[s] \in {"ok", "err"}
      BY <1>0, <3>2, Own
    <3>5. todo[s]["cmd"] \ {sl} \in SUBSET todo[s]["cmd"] /\ lock[s] \in {"free", lock[s]} /\ "begin" # "reply"
      OBVIOUS
    <3> QED  BY <3>1, <3>3, <3>4, <3>5, Zenon
  <2>2. CASE o.res # "ok"
    <3>1. /\ at' = [at EXCEPT ![s]["cmd"] = "reply"] /\ reply' = [reply EXCEPT ![s] = "err"]
          /\ todo' = [todo EXCEPT ![s]["cmd"] = {}] /\ lock' = [lock EXCEPT ![s] = "free"]
      BY <1>2, <2>2, Zenon DEF Refuse, Goto
    <3>2. {} \in SUBSET todo[s]["cmd"] /\ "begin" # "reply"  OBVIOUS
    <3> QED  BY <3>1, <3>2, Zenon
  <2> QED  BY <2>1, <2>2, Zenon
<1>11. lk \in Procs \cup {"free"} /\ td \in SUBSET Slices /\ td \subseteq InTx(s)
  BY <1>0, <1>1, <1>10, Own DEF InTx
<1>12. Moves(s, "cmd", status[s], txConns[s], pcs[s], lk, closed[s], place, td, op[s]["cmd"], rp)
  BY <1>0, <1>4, <1>10, <1>11, Own, OwnGoroutine, Zenon DEF Moves, Places
<1>13. Moved(s, "cmd", status[s], txConns[s], pcs[s], lk, place, td, op[s]["cmd"])
  BY <1>0, <1>12, MovesMoved, Zenon
<1>14. Wheel(s)' /\ Doing(s)'
  <2>1. /\ at'[s]["cmd"] = place /\ at'[s]["wheel"] = "idle" /\ lock'[s] = lk
        /\ op'[s]["cmd"] = op[s]["cmd"]
    BY <1>0, <1>1, <1>13 DEF Moved
  <2>2. op[s]["cmd"] = "begin" /\ \A p \in Procs : lock[s] = p <=> at[s][p] \in {"begin", "finish"}
    BY <1>0, <1>1, Zenon DEF Shape, Doing
  <2>3. lock[s] = "cmd" /\ "free" \notin Procs  BY <1>0, <1>1, <2>2 DEF Procs
  <2>4. Wheel(s)'  BY <1>10, <2>1 DEF Wheel, Closing
  <2>5. \A p \in Procs : lk = p <=> at'[s][p] \in {"begin", "finish"}
    <3>1. CASE place = "begin"  BY <1>10, <2>1, <2>3, <3>1 DEF Procs
    <3>2. CASE place = "reply"  BY <1>10, <2>1, <2>3, <3>2 DEF Procs
    <3> QED  BY <1>10, <3>1, <3>2
  <2>6. Doing(s)'  BY <1>10, <2>1, <2>2, <2>5 DEF Doing, Busy
  <2> QED  BY <2>4, <2>6
<1>15. Leasing(s)'
  <2>1. pcs[s] = NoConns /\ Leased(s)' = {} /\ at'[s]["cmd"] \notin Busy
    BY <1>0, <1>1, <1>10, <1>13, SameParts DEF Shape, Leasing, Moved, Busy
  <2> QED  BY <1>13, <2>1, Zenon DEF Leasing, Moved, Busy, Getting
<1>16. Transaction(s)'
  BY <1>0, <1>1, <1>10, <1>11, <1>13, SameParts DEF Shape, Transaction, Moved, Procs
<1>17. \A tl \in Slices, d \in Conns : Holds(s, tl, d)' <=> Holds(s, tl, d)
  <2>1. \A tl : ~Letting(s, tl)'  BY <1>0, <1>1, <1>10, <1>13 DEF Letting, Procs, Moved
  <2>2. lock'[s] \in Procs \cup {"free"} /\ pcs'[s] = pcs[s] /\ txConns'[s] = txConns[s]
    BY <1>11, <1>13, Zenon DEF Moved
  <2>3. \A tl : ~Released(s, tl)'  BY <1>14, <2>1, <2>2, ReleasedIs, Zenon
  <2> QED  BY <1>7, <2>2, <2>3, Zenon DEF Holds
<1>18. Histories'
  <2>1. applied' \in [Sessions -> SUBSET Slices]  BY <1>0, <1>2, <1>5, DurableTyped
  <2> QED  BY <1>0, <1>4, <2>1, Zenon DEF TypeOK, Histories
<1>19. Shape(s)'  BY <1>14, <1>15, <1>16, Zenon DEF Shape
<1>20. conn' = [conn EXCEPT ![c] = o.conn] /\ UNCHANGED <<pooled, blank>>  BY <1>2, <1>3, <1>4
<1> QED  BY <1>0, <1>5, <1>8, <1>9, <1>12, <1>17, <1>18, <1>19, <1>20, WorkKeeps, Zenon

\* One of a transaction's connections is released (FinishConn).
LEMMA FinishConnKeeps ==
    ASSUME Calm, IInv, NEW s \in Sessions, NEW p \in Procs, FinishConn(s, p)
    PROVE  Keeps
<1>0. TypeOK /\ Shape(s) /\ "cmd" \in Procs /\ "wheel" \in Procs  BY DEF IInv, Procs
<1>1. at[s][p] = "finish" /\ todo[s][p] \subseteq InTx(s)  BY <1>0 DEF FinishConn, At, Shape, Transaction
<1>2. op[s][p] \in Enders /\ Statement(op[s][p]) \in Sql
  <2>1. op[s][p] \in Enders
    <3>1. CASE p = "cmd"  BY <1>0, <1>1, <3>1, Zenon DEF Shape, Doing
    <3>2. CASE p = "wheel"  BY <1>0, <1>1, <3>2, Zenon DEF Shape, Wheel, Closing, Enders
    <3> QED  BY <3>1, <3>2 DEF Procs
  <2> QED  BY <2>1 DEF Statement, Enders, Sql
<1>3. PICK sl, o, k :
        /\ sl \in todo[s][p] /\ o \in Exec(conn[txConns[s][sl]], Statement(op[s][p]), s)
        /\ o.res # "panic" => k \in Recycle(o.conn)
        /\ conn' = [conn EXCEPT ![txConns[s][sl]] = k.conn]
        /\ GiveBack(txConns[s][sl], k)
        /\ MakeDurable(o.durable \cup k.durable, sl)
        /\ reply' = reply \/ reply' = [reply EXCEPT ![s] = "err"]
        /\ k.to # "lost" => todo' = [todo EXCEPT ![s][p] = @ \ {sl}] /\ UNCHANGED <<crashed, lock, at>>
  <2>1. PICK sl, o :
          /\ sl \in todo[s][p] /\ o \in Exec(conn[txConns[s][sl]], Statement(op[s][p]), s)
          /\ \E k \in IF o.res = "panic" THEN {[conn |-> o.conn, to |-> "lost", durable |-> {}]}
                      ELSE Recycle(o.conn) :
               /\ conn' = [conn EXCEPT ![txConns[s][sl]] = k.conn]
               /\ GiveBack(txConns[s][sl], k)
               /\ MakeDurable(o.durable \cup k.durable, sl)
               /\ reply' = IF o.res = "ok" /\ k.to # "lost" THEN reply ELSE [reply EXCEPT ![s] = "err"]
               /\ IF k.to = "lost"
                    THEN /\ crashed' = (p = "wheel")
                         /\ lock' = [lock EXCEPT ![s] = "free"]
                         /\ todo' = [todo EXCEPT ![s][p] = {}]
                         /\ Goto(s, p, CASE op[s][p] = "close" -> "done" [] op[s][p] = "quit" -> "check"
                                         [] OTHER -> "reply")
                    ELSE /\ todo' = [todo EXCEPT ![s][p] = @ \ {sl}]
                         /\ UNCHANGED <<crashed, lock, at>>
    BY Zenon DEF FinishConn
  <2>2. PICK k \in IF o.res = "panic" THEN {[conn |-> o.conn, to |-> "lost", durable |-> {}]}
                   ELSE Recycle(o.conn) :
          /\ conn' = [conn EXCEPT ![txConns[s][sl]] = k.conn]
          /\ GiveBack(txConns[s][sl], k)
          /\ MakeDurable(o.durable \cup k.durable, sl)
          /\ reply' = IF o.res = "ok" /\ k.to # "lost" THEN reply ELSE [reply EXCEPT ![s] = "err"]
          /\ k.to # "lost" => todo' = [todo EXCEPT ![s][p] = @ \ {sl}] /\ UNCHANGED <<crashed, lock, at>>
    BY <2>1, Zenon
  <2>3. o.res # "panic" => k \in Recycle(o.conn)  BY <2>2
  <2>4. reply' = reply \/ reply' = [reply EXCEPT ![s] = "err"]  BY <2>2, Zenon
  <2> QED  BY <2>1, <2>2, <2>3, <2>4, Zenon
<1>4. PICK c : c = txConns[s][sl]  OBVIOUS
<1>5. UNCHANGED <<status, txConns, closed, pcs, op, clientTx, acked>>  BY DEF FinishConn
<1>6. /\ sl \in Slices /\ c \in Conns /\ c[1] = sl /\ \A tl \in Slices : txConns[s][tl] = c => tl = sl
  BY <1>0, <1>1, <1>3, <1>4, InTxConn, SMTT(30)
<1>7. \A q \in Procs : q # p => at[s][q] # "finish"  BY <1>0, <1>1, Zenon DEF Shape, Doing
<1>8. \A tl : Released(s, tl) <=> tl \notin todo[s][p]
  <2>1. \A tl : Letting(s, tl) <=> tl \notin todo[s][p]  BY <1>1, <1>7, Zenon DEF Letting
  <2> QED  BY <1>0, <2>1, Own, ReleasedIs DEF Shape
<1>9. Holds(s, sl, c)  BY <1>3, <1>4, <1>8, Zenon DEF Holds
<1>10. Sound(o.conn) /\ k \in Recycle(o.conn) /\ k.to # "lost"
  <2>1. Sound(conn[c])  BY <1>6, <1>9, HeldSound
  <2>2. o \in Exec(conn[c], Statement(op[s][p]), s)  BY <1>3, <1>4
  <2>3. Sound(o.conn) /\ o.res \in {"ok", "err"}  BY <1>2, <2>1, <2>2, ExecFacts
  <2>4. k \in Recycle(o.conn)  BY <1>3, <2>3
  <2> QED  BY <2>3, <2>4, RecycleFacts, Zenon
<1>11. PICK rp \in {"ok", "err"} : reply' = [reply EXCEPT ![s] = rp]
  <2>1. reply[s] \in {"ok", "err"} /\ reply = [reply EXCEPT ![s] = reply[s]]  BY <1>0, Own
  <2> QED  BY <1>3, <2>1, Zenon
<1>12. PICK td : td = todo[s][p] \ {sl}  BY Zenon
<1>13. /\ todo' = [todo EXCEPT ![s][p] = td] /\ td \in SUBSET Slices /\ td \subseteq InTx(s)
       /\ UNCHANGED <<crashed, lock, at>>
  BY <1>0, <1>1, <1>3, <1>10, <1>12, OwnGoroutine
<1>14. Moves(s, p, status[s], txConns[s], pcs[s], lock[s], closed[s], at[s][p], td, op[s][p], rp)
  BY <1>0, <1>5, <1>11, <1>13, Own, OwnGoroutine, ZenonT(40) DEF Moves
<1>15. Moved(s, p, status[s], txConns[s], pcs[s], lock[s], at[s][p], td, op[s][p])
  BY <1>0, <1>14, MovesMoved, Zenon
<1>16. Wheel(s)' /\ Doing(s)'  BY <1>0, <1>5, <1>13, Zenon DEF Shape, Wheel, Doing
<1>17. pcs[s] = NoConns /\ at[s]["cmd"] \notin Busy  BY <1>0, <1>1, EndingFacts, Zenon
<1>18. Leasing(s)'
  <2>1. pcs'[s] = NoConns /\ Leased(s)' = {} /\ at'[s]["cmd"] \notin Busy
    BY <1>13, <1>15, <1>17, SameParts DEF Moved
  <2> QED  BY <2>1, Zenon DEF Leasing, Busy, Getting
<1>19. Transaction(s)'
  <2>1. at'[s][p] = "finish" /\ todo'[s][p] \subseteq InTx(s)'
    BY <1>1, <1>13, <1>15, SameParts DEF Moved
  <2>2. \A q \in Procs : q # p => at'[s][q] \notin {"begin", "finish"}
    BY <1>0, <1>1, <1>13 DEF Shape, Doing
  <2> QED  BY <2>1, <2>2, Zenon DEF Transaction
<1>20. \A tl : Released(s, tl)' <=> tl \notin td
  <2>1. \A tl : Letting(s, tl)' <=> tl \notin td  BY <1>1, <1>7, <1>13, <1>15 DEF Letting, Moved
  <2>2. lock'[s] \in Procs \cup {"free"}  BY <1>0, <1>13, Own
  <2> QED  BY <1>16, <2>1, <2>2, ReleasedIs, Zenon
<1>21. \A tl \in Slices, d \in Conns :
         /\ Holds(s, tl, d) <=> txConns[s][tl] = d /\ tl \in todo[s][p]
         /\ Holds(s, tl, d)' <=> txConns[s][tl] = d /\ tl \in td
  <2>1. \A d \in Conns, tl \in Slices : NoConns[tl] # d  BY NoConnAssumption DEF NoConns
  <2>2. pcs'[s] = NoConns /\ txConns'[s] = txConns[s]  BY <1>15, <1>17, Zenon DEF Moved
  <2> QED  BY <1>8, <1>17, <1>20, <2>1, <2>2, Zenon DEF Holds
<1>22. \A tl \in Slices : ~Holds(s, tl, c)'  BY <1>6, <1>12, <1>21, ZenonT(40)
<1>23. \A tl \in Slices, d \in Conns : d # c => (Holds(s, tl, d)' <=> Holds(s, tl, d))
  BY <1>4, <1>12, <1>21, Zenon
<1>24. Histories'
  <2>1. applied' \in [Sessions -> SUBSET Slices]  BY <1>0, <1>3, <1>6, DurableTyped
  <2> QED  BY <1>0, <1>5, <1>13, <2>1, Zenon DEF TypeOK, Histories
<1>25. Shape(s)'  BY <1>16, <1>18, <1>19 DEF Shape
<1>26. conn' = [conn EXCEPT ![c] = k.conn] /\ GiveBack(c, k)  BY <1>3, <1>4
<1>27. sl \in Slices /\ c \in Conns  BY <1>6
<1> QED  BY <1>9, <1>10, <1>14, <1>22, <1>23, <1>24, <1>25, <1>26, <1>27, GiveKeeps, Zenon

\* The server drops a connection (Break).
LEMMA BreakKeeps ==
    ASSUME IInv, NEW c \in Conns, Break(c)
    PROVE  Keeps
<1>1. /\ conn' = [conn EXCEPT ![c] = Lost(conn[c])] /\ conn[c].live
      /\ UNCHANGED <<sessionVars, controlVars, pooled, blank, clientVars, crashed>>
  BY DEF Break
<1>2. TypeOK /\ Pool /\ c[1] \in Slices /\ Connected(c)  BY DEF IInv, Pool, Conns
<1>3. Sound(conn[c])  BY <1>1, <1>2 DEF TypeOK, Connected, Sound
<1>4. /\ Lost(conn[c]) \in ConnType /\ Lost(conn[c]).live /\ Tidy(Lost(conn[c]))
      /\ Lost(conn[c]).closed = conn[c].closed /\ Lost(conn[c]).srv = Clean
  BY <1>3, LostSound DEF Sound
<1>5. \A s \in Sessions : Apart(s)  BY <1>1, Zenon DEF Apart, sessionVars, controlVars
<1>6. /\ \A s \in Sessions : Shape(s)'
      /\ \A s \in Sessions, sl \in Slices, d \in Conns : Holds(s, sl, d)' <=> Holds(s, sl, d)
  BY <1>5, ApartShape DEF IInv
<1>7. pooled[c] \in {0, 1} /\ (pooled[c] = 1 => ~conn[c].closed) /\ blank[c[1]] \in Nat
  BY <1>2 DEF Connected, TypeOK
<1>8. pooled' = [pooled EXCEPT ![c] = pooled[c]] /\ blank' = [blank EXCEPT ![c[1]] = blank[c[1]]]
  BY <1>1, <1>2 DEF TypeOK
<1>9. Held(c)' <=> Held(c)  BY <1>6, Zenon DEF Held
<1>10. pooled[c] + blank[c[1]] + Bit(Held(c)') = pooled[c] + blank[c[1]] + Bit(Held(c))
  BY <1>9, Zenon DEF Bit
<1>11. \A s, t \in Sessions, sl, tl \in Slices :
         /\ Holds(s, sl, c)' => pooled[c] = 0
         /\ Holds(s, sl, c)' /\ Holds(t, tl, c)' => s = t
  <2>1. \A s \in Sessions, sl \in Slices : Holds(s, sl, c)' <=> Holds(s, sl, c)  BY <1>6, Zenon
  <2>2. \A s, t \in Sessions, sl, tl \in Slices :
          (Holds(s, sl, c) => pooled[c] = 0) /\ (Holds(s, sl, c) /\ Holds(t, tl, c) => s = t)
    BY <1>2, Zenon DEF Pool, Leases
  <2> QED  BY <2>1, <2>2
<1>12. Change(c, Lost(conn[c]), pooled[c], blank[c[1]])
  <2>1. pooled[c] = 1 => ~Lost(conn[c]).closed  BY <1>4, <1>7, Zenon
  <2>2. \A d \in Conns : d # c => \A s \in Sessions, sl \in Slices : Holds(s, sl, d)' <=> Holds(s, sl, d)
    BY <1>6, Zenon
  <2> QED  BY <1>1, <1>4, <1>7, <1>8, <1>10, <1>11, <2>1, <2>2, Zenon DEF Change
<1>13. Pool' /\ PoolTypes' /\ Balanced  BY <1>2, <1>12, ChangeKeeps, Zenon DEF PoolTypes
<1>14. TypeOK'
  <2>1. /\ status' = status /\ txConns' = txConns /\ lock' = lock /\ closed' = closed
        /\ pcs' = pcs /\ at' = at /\ todo' = todo /\ op' = op /\ reply' = reply
        /\ clientTx' = clientTx /\ acked' = acked /\ applied' = applied /\ crashed' = crashed
    BY <1>1, Zenon DEF sessionVars, controlVars, clientVars
  <2> QED  BY <1>2, <1>13, <2>1 DEF TypeOK, PoolTypes
<1> QED  BY <1>6, <1>13, <1>14, Zenon DEF IInv, Keeps

=============================================================================
