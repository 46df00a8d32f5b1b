----------------------- MODULE SessionExecutorProofs -----------------------
(***************************************************************************)
(* Sessions share the backend connections properly, for any number of      *)
(* sessions, slices and connections: theorems about SessionExecutor.       *)
(***************************************************************************)
EXTENDS SessionStepProofs, SessionHistoryProofs, FiniteSetTheorems

\* The invariant holds at first.
LEMMA InitHolds == ASSUME Init PROVE IInv
<1>1. TypeOK
  <2>1. Dead \in ConnType  BY DeadFacts
  <2>2. \A c \in Conns : NoConn # c  BY NoConnAssumption
  <2>3. PoolSize \in Nat  BY SessionAssumption
  <2>4. status \in [Sessions -> [inTrans : BOOLEAN, autocommit : BOOLEAN]]  BY Zenon DEF Init
  <2>5. /\ txConns \in [Sessions -> [Slices -> Conns \cup {NoConn}]]
        /\ pcs \in [Sessions -> [Slices -> Conns \cup {NoConn}]]
        /\ \A s \in Sessions, sl \in Slices, c \in Conns :
             txConns[s][sl] = c \/ pcs[s][sl] = c => c[1] = sl
    BY <2>2 DEF Init, NoConns
  <2>6. /\ lock \in [Sessions -> Procs \cup {"free"}] /\ closed \in [Sessions -> BOOLEAN]
        /\ reply \in [Sessions -> {"ok", "err"}] /\ crashed \in BOOLEAN
        /\ clientTx \in [Sessions -> BOOLEAN]
    BY Zenon DEF Init
  <2>7. /\ at \in [Sessions -> [Procs -> Places]] /\ todo \in [Sessions -> [Procs -> SUBSET Slices]]
        /\ op \in [Sessions -> [Procs -> Commands]]
    BY DEF Init, Places, Commands
  <2>8. /\ conn \in [Conns -> ConnType] /\ pooled \in [Conns -> Nat] /\ blank \in [Slices -> Nat]
        /\ acked \in [Sessions -> SUBSET Slices] /\ applied \in [Sessions -> SUBSET Slices]
    BY <2>1, <2>3 DEF Init
  <2> QED  BY <2>4, <2>5, <2>6, <2>7, <2>8 DEF TypeOK
<1>2. ASSUME NEW s \in Sessions
      PROVE  /\ pcs[s] = NoConns /\ txConns[s] = NoConns /\ lock[s] = "free" /\ ~IsInTransaction(s)
             /\ \A p \in Procs : at[s][p] = "idle"
  <2>1. status[s] = [inTrans |-> FALSE, autocommit |-> TRUE]  BY DEF Init
  <2>2. ~IsInTransaction(s)  BY <2>1, SMTT(30) DEF IsInTransaction, IsAutoCommit
  <2> QED  BY <2>2 DEF Init
<1>3. ASSUME NEW s \in Sessions PROVE Shape(s)
  <2>1. at[s]["cmd"] = "idle" /\ at[s]["wheel"] = "idle"  BY <1>2 DEF Procs
  <2>2. Wheel(s) /\ Doing(s)  BY <1>2, <2>1 DEF Wheel, Doing, Closing, Busy, Procs
  <2>3. Leased(s) = {}  BY <1>2, SameParts
  <2>4. Leasing(s)  BY <1>2, <2>1, <2>3 DEF Leasing, Busy, Getting
  <2>5. Transaction(s)  BY <1>2 DEF Transaction
  <2> QED  BY <2>2, <2>4, <2>5 DEF Shape
<1>4. \A s \in Sessions, sl \in Slices, c \in Conns : ~Holds(s, sl, c)
  <2>1. \A sl \in Slices, c \in Conns : NoConns[sl] # c  BY NoConnAssumption DEF NoConns
  <2> QED  BY <1>2, <2>1 DEF Holds
<1>5. Pool
  <2>1. \A c \in Conns : pooled[c] = 0 /\ conn[c] = Dead  BY DEF Init
  <2>2. \A c \in Conns : Connected(c)
    <3>1. 0 \in {0, 1} /\ 0 # 1  OBVIOUS
    <3> QED  BY <2>1, <3>1, DeadFacts, Zenon DEF Connected
  <2>3. Leases  BY <1>4, Zenon DEF Leases
  <2> QED  BY <2>2, <2>3 DEF Pool
<1> QED  BY <1>1, <1>3, <1>5 DEF IInv

\* Every step keeps the invariant, and passes at most one token on.
LEMMA StepHolds == ASSUME Calm, IInv, [Next]_vars PROVE Keeps
<1>1. ASSUME NEW s \in Sessions, Query(s) \/ Control(s) \/ Disconnect(s) \/ WheelFires(s) PROVE Keeps
  BY <1>1, QueryKeeps, ControlKeeps, DisconnectKeeps, WheelFiresKeeps, Zenon
<1>2. ASSUME NEW s \in Sessions, Statements(s) PROVE Keeps
  BY <1>2, GetBackendConnKeeps, GetFromPoolKeeps, GetFailsKeeps, GetTransactionConnKeeps, ExecuteKeeps,
     RecycleBackendConnsKeeps, PutConnKeeps, Zenon DEF Statements
<1>3. ASSUME NEW s \in Sessions, NEW p \in Procs, Ending(s, p) PROVE Keeps
  BY <1>3, RollbackKeeps, FinishConnKeeps, FinishDoneKeeps, CloseCheckKeeps, CloseStoreKeeps, Zenon DEF Ending
<1>4. ASSUME NEW s \in Sessions, HandleBegin(s) \/ BeginConn(s) \/ BeginDone(s) \/ Reply(s) PROVE Keeps
  BY <1>4, HandleBeginKeeps, BeginConnKeeps, BeginDoneKeeps, ReplyKeeps, Zenon
<1>5. ASSUME NEW s \in Sessions, Commit(s) \/ SetAutoCommitOn(s) \/ SetAutoCommitOff(s) PROVE Keeps
  BY <1>5, CommitKeeps, SetAutoCommitOnKeeps, SetAutoCommitOffKeeps, Zenon
<1>6. "cmd" \in Procs /\ "wheel" \in Procs  BY DEF Procs
<1>7. ASSUME NEW s \in Sessions, Serve(s) PROVE Keeps  BY <1>2, <1>3, <1>4, <1>5, <1>6, <1>7, Zenon DEF Serve
<1>8. CASE Next  BY <1>1, <1>3, <1>6, <1>7, <1>8, BreakKeeps, Zenon DEF Next
<1>9. CASE UNCHANGED vars
  <2>1. UNCHANGED <<sessionVars, controlVars, poolVars, clientVars, crashed>>  BY <1>9 DEF vars
  <2>2. TypeOK /\ Pool  BY DEF IInv
  <2>3. \A s \in Sessions : Apart(s)  BY <2>1, Zenon DEF Apart, sessionVars, controlVars
  <2>4. /\ \A s \in Sessions : Shape(s)'
        /\ \A s \in Sessions, sl \in Slices, d \in Conns : Holds(s, sl, d)' <=> Holds(s, sl, d)
    BY <2>3, ApartShape DEF IInv
  <2>5. UNCHANGED poolVars  BY <2>1
  <2>6. Pool' /\ Balanced  BY <2>2, <2>4, <2>5, SameKeeps, Zenon
  <2>7. TypeOK'  BY <2>1, <2>2, SMTT(30) DEF TypeOK, sessionVars, controlVars, poolVars, clientVars
  <2> QED  BY <2>4, <2>6, <2>7, Zenon DEF IInv, Keeps
<1> QED  BY <1>8, <1>9

\* Sessions and pools stay in order: who holds which connection, and what
\* state it is in (executor.go, pooled_connection.go).
THEOREM SessionsInvariant == ASSUME Calm PROVE Spec => []IInv
<1>1. Init => IInv  BY InitHolds
<1>2. IInv /\ [Next]_vars => IInv'  BY StepHolds DEF Keeps
<1> QED  BY <1>1, <1>2, PTL DEF Spec

\* A connection that is held has one holder, for its own slice.
LEMMA OneHolder ==
    ASSUME IInv, NEW c \in Conns, NEW x \in Holders(c) PROVE Holders(c) = {x} /\ pooled[c] = 0
<1>1. TypeOK /\ Leases  BY DEF IInv, Pool
<1>2. ASSUME NEW y \in Holders(c)
      PROVE  y \in Sessions \X Slices /\ Holds(y[1], y[2], c) /\ y[2] = c[1]
  <2>1. y \in Sessions \X Slices /\ Holds(y[1], y[2], c)  BY DEF Holders
  <2>2. y[1] \in Sessions /\ y[2] \in Slices  BY <2>1
  <2>3. txConns[y[1]][y[2]] = c \/ pcs[y[1]][y[2]] = c  BY <2>1 DEF Holds
  <2> QED  BY <1>1, <2>1, <2>2, <2>3, SMTT(30) DEF TypeOK
<1>3. x[1] \in Sessions /\ x[2] \in Slices /\ Holds(x[1], x[2], c)  BY <1>2
<1>4. pooled[c] = 0  BY <1>1, <1>3, Zenon DEF Leases
<1>5. ASSUME NEW y \in Holders(c) PROVE y = x
  <2>1. y[1] \in Sessions /\ y[2] \in Slices /\ Holds(y[1], y[2], c)  BY <1>2
  <2>2. y[1] = x[1]  BY <1>1, <1>3, <2>1, ZenonT(40) DEF Leases
  <2>3. y[2] = x[2]  BY <1>2
  <2>4. x \in Sessions \X Slices /\ y \in Sessions \X Slices  BY <1>2
  <2> QED  BY <2>2, <2>3, <2>4
<1> QED  BY <1>4, <1>5

\* The invariant says what the properties of the pools ask.
LEMMA InvariantIsEnough == ASSUME IInv PROVE OneUser /\ PoolClean
<1>1. TypeOK /\ Pool  BY DEF IInv
<1>2. ASSUME NEW c \in Conns PROVE pooled[c] + Cardinality(Holders(c)) <= 1
  <2>1. pooled[c] \in {0, 1}  BY <1>1 DEF Pool, Connected
  <2>2. CASE Holders(c) = {}
    <3>1. Cardinality(Holders(c)) = 0  BY <2>2, FS_EmptySet
    <3> QED  BY <2>1, <3>1
  <2>3. CASE Holders(c) # {}
    <3>1. PICK x : x \in Holders(c)  BY <2>3
    <3>2. Holders(c) = {x} /\ pooled[c] = 0  BY <3>1, OneHolder
    <3>3. Cardinality({x}) = 1  BY FS_Singleton
    <3> QED  BY <3>2, <3>3
  <2> QED  BY <2>2, <2>3
<1>3. ASSUME NEW c \in Conns, pooled[c] > 0
      PROVE  conn[c].srv = Clean /\ ~conn[c].closed /\ conn[c].live
  <2>1. Connected(c)  BY <1>1 DEF Pool
  <2>2. pooled[c] = 1  BY <1>3, <2>1 DEF Connected
  <2> QED  BY <2>1, <2>2 DEF Connected
<1> QED  BY <1>2, <1>3 DEF OneUser, PoolClean

(* The variables of the executor, of the session and of the connections    *)
(* keep their types.                                                       *)
THEOREM SessionTypes == ASSUME Calm PROVE Spec => []TypeOK
<1>1. IInv => TypeOK  BY DEF IInv
<1> QED  BY <1>1, SessionsInvariant, PTL

(* However getTransactionConn, GetConn, the loops of commit and rollback,  *)
(* Recycle and a timeout interleave, over any number of sessions, a        *)
(* backend connection is idle in its pool or in use by one session.        *)
THEOREM OneUserHolds == ASSUME Calm PROVE Spec => []OneUser
<1>1. IInv => OneUser  BY InvariantIsEnough
<1> QED  BY <1>1, SessionsInvariant, PTL

(* ResetConnection, which trusts dc.status, gives back to the pool only    *)
(* connections whose server session has autocommit on and no transaction.  *)
THEOREM PoolCleanHolds == ASSUME Calm PROVE Spec => []PoolClean
<1>1. IInv => PoolClean  BY InvariantIsEnough
<1> QED  BY <1>1, SessionsInvariant, PTL

-----------------------------------------------------------------------------
(* Every token of a pool is somewhere.                                     *)

Tokens(sl) ==
    /\ IsFiniteSet(Wrapped(sl)) /\ IsFiniteSet(InUse(sl))
    /\ Cardinality(Wrapped(sl)) + blank[sl] + Cardinality(InUse(sl)) = PoolSize

\* Two finite sets that differ in one element at most.
LEMMA OneApart ==
    ASSUME NEW S, NEW T, NEW x, IsFiniteSet(S), S \ {x} = T \ {x}
    PROVE  IsFiniteSet(T) /\ Cardinality(T) + Bit(x \in S) = Cardinality(S) + Bit(x \in T)
<1>1. IsFiniteSet(S \ {x}) /\ Cardinality(S \ {x}) \in Nat
  BY FS_RemoveElement, FS_CardinalityType
<1>2. ASSUME NEW R, R \ {x} = S \ {x}
      PROVE  IsFiniteSet(R) /\ Cardinality(R) = Cardinality(S \ {x}) + Bit(x \in R)
  <2>1. CASE x \in R
    <3>1. R = (S \ {x}) \cup {x} /\ x \notin S \ {x}  BY <1>2, <2>1
    <3>2. IsFiniteSet((S \ {x}) \cup {x})
          /\ Cardinality((S \ {x}) \cup {x}) = Cardinality(S \ {x}) + 1
      BY <1>1, <3>1, FS_AddElement
    <3> QED  BY <2>1, <3>1, <3>2 DEF Bit
  <2>2. CASE x \notin R
    <3>1. R = S \ {x}  BY <1>2, <2>2
    <3> QED  BY <1>1, <2>2, <3>1 DEF Bit
  <2> QED  BY <2>1, <2>2
<1>3. IsFiniteSet(T) /\ Cardinality(T) = Cardinality(S \ {x}) + Bit(x \in T)  BY <1>2
<1>4. Cardinality(S) = Cardinality(S \ {x}) + Bit(x \in S)  BY <1>2
<1>5. Bit(x \in S) \in Nat /\ Bit(x \in T) \in Nat  BY DEF Bit
<1> QED  BY <1>1, <1>3, <1>4, <1>5

\* No connection is in two wrappers.
LEMMA WrappedOne ==
    ASSUME NEW f, \A c \in Conns : f[c] \in {0, 1}, NEW sl
    PROVE  UNION {{c} \X (1..f[c]) : c \in {d \in Conns : d[1] = sl}}
             = {<<c, 1>> : c \in {d \in Conns : d[1] = sl /\ f[d] = 1}}
<1> DEFINE L == UNION {{c} \X (1..f[c]) : c \in {d \in Conns : d[1] = sl}}
           R == {<<c, 1>> : c \in {d \in Conns : d[1] = sl /\ f[d] = 1}}
<1>1. ASSUME NEW x \in L PROVE x \in R
  <2>1. PICK c \in Conns : c[1] = sl /\ x \in {c} \X (1..f[c])  BY <1>1
  <2>2. PICK n \in 1..f[c] : x = <<c, n>>  BY <2>1
  <2>3. f[c] = 1 /\ n = 1  BY <2>2
  <2> QED  BY <2>1, <2>2, <2>3
<1>2. ASSUME NEW x \in R PROVE x \in L
  <2>1. PICK c \in Conns : c[1] = sl /\ f[c] = 1 /\ x = <<c, 1>>  BY <1>2
  <2>2. 1 \in 1..f[c]  BY <2>1
  <2>3. x \in {c} \X (1..f[c])  BY <2>1, <2>2
  <2> QED  BY <2>1, <2>3
<1> QED  BY <1>1, <1>2

\* The connections of a pool that are in use, and its wrappers.
InUseIs(sl) == InUse(sl) = {c \in Conns : c[1] = sl /\ Held(c)}
WrappedIs(sl) == Wrapped(sl) = {<<c, 1>> : c \in {d \in Conns : d[1] = sl /\ pooled[d] = 1}}

\* The connections of a pool that are in use are those that are held.
LEMMA HeldInUse == \A sl : InUseIs(sl) /\ InUseIs(sl)'
<1>1. ASSUME NEW c PROVE Holders(c) # {} <=> Held(c)
  <2>1. ASSUME Holders(c) # {} PROVE Held(c)
    <3>1. PICK x \in Sessions \X Slices : Holds(x[1], x[2], c)  BY <2>1 DEF Holders
    <3>2. x[1] \in Sessions /\ x[2] \in Slices  OBVIOUS
    <3> QED  BY <3>1, <3>2, Zenon DEF Held
  <2>2. ASSUME Held(c) PROVE Holders(c) # {}
    <3>1. PICK s \in Sessions, sl \in Slices : Holds(s, sl, c)  BY <2>2, Zenon DEF Held
    <3>2. <<s, sl>> \in Sessions \X Slices /\ <<s, sl>>[1] = s /\ <<s, sl>>[2] = sl  OBVIOUS
    <3>3. <<s, sl>> \in Holders(c)  BY <3>1, <3>2 DEF Holders
    <3> QED  BY <3>3
  <2> QED  BY <2>1, <2>2
<1>2. ASSUME NEW c PROVE Holders(c)' # {} <=> Held(c)'
  <2>1. ASSUME Holders(c)' # {} PROVE Held(c)'
    <3>1. PICK x \in Sessions \X Slices : Holds(x[1], x[2], c)'  BY <2>1 DEF Holders
    <3>2. x[1] \in Sessions /\ x[2] \in Slices  OBVIOUS
    <3> QED  BY <3>1, <3>2, Zenon DEF Held
  <2>2. ASSUME Held(c)' PROVE Holders(c)' # {}
    <3>1. PICK s \in Sessions, sl \in Slices : Holds(s, sl, c)'  BY <2>2, Zenon DEF Held
    <3>2. <<s, sl>> \in Sessions \X Slices /\ <<s, sl>>[1] = s /\ <<s, sl>>[2] = sl  OBVIOUS
    <3>3. <<s, sl>> \in Holders(c)'  BY <3>1, <3>2 DEF Holders
    <3> QED  BY <3>3
  <2> QED  BY <2>1, <2>2
<1> QED  BY <1>1, <1>2, Zenon DEF InUse, InUseIs

\* A transfer of one token loses none.
LEMMA TransferKeeps ==
    ASSUME IInv, IInv', NEW c \in Conns, NEW n \in {0, 1}, NEW b \in Nat, Transfer(c, n, b),
           NEW sl \in Slices, Tokens(sl)
    PROVE  Tokens(sl)'
<1>0. /\ pooled'[c] = n /\ \A d \in Conns : d # c => pooled'[d] = pooled[d]
      /\ \A tl \in Slices : blank'[tl] = IF tl = c[1] THEN b ELSE blank[tl]
  BY DEF IInv, TypeOK, Transfer
<1>1. \A d \in Conns : d # c => (Held(d)' <=> Held(d))  BY Zenon DEF Transfer
<1>2. InUseIs(sl) /\ InUseIs(sl)'  BY HeldInUse
<1>3. WrappedIs(sl) /\ WrappedIs(sl)'
  <2>1. \A d \in Conns : pooled[d] \in {0, 1} /\ pooled'[d] \in {0, 1}
    BY Zenon DEF IInv, Pool, Connected
  <2>2. WrappedIs(sl)  BY <2>1, WrappedOne DEF WrappedIs, Wrapped
  <2>3. WrappedIs(sl)'  BY <2>1, WrappedOne DEF WrappedIs, Wrapped
  <2> QED  BY <2>2, <2>3
<1>4. InUse(sl) \ {c} = InUse(sl)' \ {c}  BY <1>1, <1>2 DEF InUseIs
<1>5. Wrapped(sl) \ {<<c, 1>>} = Wrapped(sl)' \ {<<c, 1>>}  BY <1>0, <1>3 DEF WrappedIs
<1>7. /\ IsFiniteSet(InUse(sl)')
      /\ Cardinality(InUse(sl)') + Bit(c \in InUse(sl)) = Cardinality(InUse(sl)) + Bit(c \in InUse(sl)')
  BY <1>4, OneApart DEF Tokens
<1>8. /\ IsFiniteSet(Wrapped(sl)')
      /\ Cardinality(Wrapped(sl)') + Bit(<<c, 1>> \in Wrapped(sl))
           = Cardinality(Wrapped(sl)) + Bit(<<c, 1>> \in Wrapped(sl)')
  BY <1>5, OneApart DEF Tokens
<1>9. /\ Cardinality(Wrapped(sl)) \in Nat /\ Cardinality(Wrapped(sl)') \in Nat
      /\ Cardinality(InUse(sl)) \in Nat /\ Cardinality(InUse(sl)') \in Nat
  BY <1>7, <1>8, FS_CardinalityType DEF Tokens
<1>10. (c \in InUse(sl) <=> c[1] = sl /\ Held(c)) /\ (c \in InUse(sl)' <=> c[1] = sl /\ Held(c)')
  BY <1>2 DEF InUseIs
<1>11. /\ <<c, 1>> \in Wrapped(sl) <=> c[1] = sl /\ pooled[c] = 1
       /\ <<c, 1>> \in Wrapped(sl)' <=> c[1] = sl /\ n = 1
  BY <1>0, <1>3 DEF WrappedIs
<1>12. Cardinality(Wrapped(sl)') + blank'[sl] + Cardinality(InUse(sl)') = PoolSize
  <2>1. blank[sl] \in Nat /\ PoolSize \in Nat /\ pooled[c] \in {0, 1}
    BY SessionAssumption DEF IInv, TypeOK, Pool, Connected
  <2>2. Cardinality(Wrapped(sl)) + blank[sl] + Cardinality(InUse(sl)) = PoolSize
    BY DEF Tokens
  <2>3. CASE c[1] # sl
    <3>1. blank'[sl] = blank[sl]  BY <1>0, <2>3
    <3>2. Cardinality(Wrapped(sl)') = Cardinality(Wrapped(sl))
          /\ Cardinality(InUse(sl)') = Cardinality(InUse(sl))
      BY <1>7, <1>8, <1>9, <1>10, <1>11, <2>3 DEF Bit
    <3> QED  BY <2>2, <3>1, <3>2
  <2>4. CASE c[1] = sl
    <3>1. blank'[sl] = b  BY <1>0, <2>4
    <3>2. Cardinality(Wrapped(sl)') + pooled[c] = Cardinality(Wrapped(sl)) + n
      BY <1>8, <1>11, <2>1, <2>4 DEF Bit
    <3>3. Cardinality(InUse(sl)') + Bit(Held(c)) = Cardinality(InUse(sl)) + Bit(Held(c)')
      BY <1>7, <1>10, <2>4, Zenon DEF Bit
    <3>4. n + b + Bit(Held(c)') = pooled[c] + blank[sl] + Bit(Held(c))
      BY <2>4, Zenon DEF Transfer
    <3>5. Bit(Held(c)) \in Nat /\ Bit(Held(c)') \in Nat  BY DEF Bit
    <3> QED  BY <1>9, <2>1, <2>2, <3>1, <3>2, <3>3, <3>4, <3>5
  <2> QED  BY <2>3, <2>4
<1> QED  BY <1>7, <1>8, <1>12 DEF Tokens

\* Nor does any step.
LEMMA TokensStep ==
    ASSUME Calm, IInv, [Next]_vars, \A sl \in Slices : Tokens(sl) PROVE \A sl \in Slices : Tokens(sl)'
<1>1. IInv' /\ Balanced  BY StepHolds DEF Keeps
<1>2. ASSUME pooled' = pooled, blank' = blank, \A c \in Conns : Held(c)' <=> Held(c), NEW sl \in Slices
      PROVE  Tokens(sl)'
  <2>1. InUse(sl)' = InUse(sl)  BY <1>2, HeldInUse DEF InUseIs
  <2>2. Wrapped(sl)' = Wrapped(sl)  BY <1>2 DEF Wrapped
  <2> QED  BY <1>2, <2>1, <2>2, Zenon DEF Tokens
<1> QED  BY <1>1, <1>2, TransferKeeps, Zenon DEF Balanced

\* At first every wrapper is blank.
LEMMA TokensInit == ASSUME Init, NEW sl \in Slices PROVE Tokens(sl)
<1>1. \A c \in Conns : pooled[c] = 0  BY DEF Init
<1>2. \A s \in Sessions, tl \in Slices, c \in Conns : ~Holds(s, tl, c)
  <2>1. \A tl \in Slices, c \in Conns : NoConns[tl] # c  BY NoConnAssumption DEF NoConns
  <2>2. \A s \in Sessions : pcs[s] = NoConns /\ txConns[s] = NoConns  BY DEF Init
  <2> QED  BY <2>1, <2>2, Zenon DEF Holds
<1>3. InUse(sl) = {}  BY <1>2, HeldInUse DEF InUseIs, Held
<1>4. Wrapped(sl) = {}
  <2>1. \A c \in Conns : pooled[c] \in {0, 1}  BY <1>1
  <2>2. WrappedIs(sl)  BY <2>1, WrappedOne DEF WrappedIs, Wrapped
  <2> QED  BY <1>1, <2>2 DEF WrappedIs
<1>5. IsFiniteSet({}) /\ Cardinality({}) = 0  BY FS_EmptySet
<1>6. blank[sl] = PoolSize /\ PoolSize \in Nat  BY SessionAssumption DEF Init
<1> QED  BY <1>3, <1>4, <1>5, <1>6 DEF Tokens

(* Failed Gets, failed BEGINs, failed statements and lost connections give *)
(* back every token they took: a pool never shrinks and never grows.       *)
THEOREM TokensKeptHolds == ASSUME Calm PROVE Spec => []TokensKept
<1> DEFINE AllTokens == \A sl \in Slices : Tokens(sl)
<1>1. Init => AllTokens  BY TokensInit
<1>2. IInv /\ AllTokens /\ [Next]_vars => AllTokens'  BY TokensStep
<1>3. AllTokens => TokensKept  BY DEF Tokens, TokensKept
<1> HIDE DEF AllTokens
<1> QED  BY <1>1, <1>2, <1>3, SessionsInvariant, PTL DEF Spec

-----------------------------------------------------------------------------
(* Sessions end.                                                           *)

\* A session that ends has let go of its connections when it is gone, and no
\* goroutine has met a connection that is not there (Session.Close).
THEOREM EndsInvariant == ASSUME Calm PROVE Spec => []Ends
<1>1. Init => Ends  BY DEF Init, Ends, Over, ClosingTx
<1>2. IInv /\ Ends /\ [Next]_vars => Ends'
  <2>1. ASSUME UNCHANGED vars, Ends PROVE Ends'
    <3>1. UNCHANGED <<at, op, txConns, closed, crashed>>  BY <2>1 DEF vars, sessionVars, controlVars
    <3> QED  BY <2>1, <3>1 DEF Ends, Over, ClosingTx
  <2> QED  BY <2>1, EndsStep
<1> QED  BY <1>1, <1>2, SessionsInvariant, PTL DEF Spec

(* Whichever of Run, quit and the wheel closes the session, and in         *)
(* whatever order, Close has rolled back and recycled every connection     *)
(* once nobody is left to do it.                                           *)
THEOREM GoneHoldsNothingHolds == ASSUME Calm PROVE Spec => []GoneHoldsNothing
<1>1. ASSUME IInv, Ends PROVE GoneHoldsNothing
  <2>1. ASSUME NEW s \in Sessions, at[s]["cmd"] = "done", at[s]["wheel"] \in {"idle", "done"}
        PROVE  InTx(s) = {} /\ Leased(s) = {}
    <3>1. Over(s)  BY <1>1 DEF Ends
    <3>2. txConns[s] = NoConns  BY <2>1, <3>1 DEF Over, ClosingTx, Procs
    <3>3. pcs[s] = NoConns  BY <1>1, <2>1 DEF IInv, Shape, Leasing, Busy
    <3> QED  BY <3>2, <3>3 DEF InTx, Leased, NoConns
  <2> QED  BY <2>1 DEF GoneHoldsNothing
<1> QED  BY <1>1, SessionsInvariant, EndsInvariant, PTL

-----------------------------------------------------------------------------
(* What COMMIT and ROLLBACK promise.                                       *)

\* The invariant of the histories holds at first.
LEMMA HistoryInit == ASSUME Init PROVE HInv
<1>1. IInv  BY InitHolds
<1>2. Up
  <2>1. \A c \in Conns : conn[c] = Dead  BY DEF Init
  <2> QED  BY <2>1, DeadFacts DEF Up
<1>3. ASSUME NEW s \in Sessions PROVE History(s)
  <2>1. /\ txConns[s] = NoConns /\ pcs[s] = NoConns /\ at[s]["cmd"] = "idle" /\ op[s]["cmd"] = "none"
        /\ reply[s] = "ok" /\ status[s].inTrans = FALSE /\ clientTx[s] = FALSE
        /\ acked[s] = {} /\ applied[s] = {}
    BY DEF Init, Procs
  <2>2. \A sl \in Slices, c \in Conns : NoConns[sl] # c  BY NoConnAssumption DEF NoConns
  <2>3. Ours(s) /\ Plain(s) /\ Kept(s) /\ Begun(s)  BY <2>1, <2>2 DEF Ours, Plain, Kept, Begun
  <2>4. Client(s)
    BY <2>1 DEF Client, Known, Nothing, InStep, LetGo, Queries, Controls
  <2> QED  BY <2>3, <2>4 DEF History
<1> QED  BY <1>1, <1>2, <1>3 DEF HInv

\* Every step keeps the invariant of the histories.
LEMMA HistoryStep == ASSUME Quiet, HInv, [Next]_vars PROVE HInv'
<1>0. IInv' /\ "break" \notin Allowed
  <2>1. Calm /\ "break" \notin Allowed  BY DEF Quiet, Calm
  <2>2. IInv  BY DEF HInv
  <2> QED  BY <2>1, <2>2, StepHolds DEF Keeps
<1>1. ASSUME NEW s \in Sessions, Query(s) \/ Control(s) \/ Disconnect(s) \/ WheelFires(s) PROVE HInv'
  BY <1>0, <1>1, QueryHistory, ControlHistory, DisconnectHistory, WheelFiresHistory, Zenon
<1>2. ASSUME NEW s \in Sessions, Statements(s) PROVE HInv'
  BY <1>0, <1>2, GetBackendConnHistory, GetFromPoolHistory, GetFailsHistory, GetTransactionConnHistory,
     ExecuteHistory, RecycleBackendConnsHistory, PutConnHistory, Zenon DEF Statements
<1>3. ASSUME NEW s \in Sessions, NEW p \in Procs, Ending(s, p) PROVE HInv'
  BY <1>0, <1>3, RollbackHistory, FinishConnHistory, FinishDoneHistory, CloseCheckHistory, CloseStoreHistory,
     Zenon DEF Ending
<1>4. ASSUME NEW s \in Sessions, HandleBegin(s) \/ BeginConn(s) \/ BeginDone(s) \/ Reply(s) PROVE HInv'
  BY <1>0, <1>4, HandleBeginHistory, BeginConnHistory, BeginDoneHistory, ReplyHistory, Zenon
<1>5. ASSUME NEW s \in Sessions, Commit(s) \/ SetAutoCommitOn(s) \/ SetAutoCommitOff(s) PROVE HInv'
  BY <1>0, <1>5, CommitHistory, SetAutoCommitOnHistory, SetAutoCommitOffHistory, Zenon
<1>6. "cmd" \in Procs /\ "wheel" \in Procs  BY DEF Procs
<1>7. ASSUME NEW s \in Sessions, Serve(s) PROVE HInv'  BY <1>2, <1>3, <1>4, <1>5, <1>6, <1>7, Zenon DEF Serve
<1>8. CASE Next
  <2>1. \A c \in Conns : ~Break(c)  BY <1>0 DEF Break
  <2> QED  BY <1>1, <1>3, <1>6, <1>7, <1>8, <2>1, Zenon DEF Next
<1>9. CASE UNCHANGED vars
  <2>1. UNCHANGED <<status, txConns, lock, closed, pcs, at, todo, op, reply, conn, clientTx, acked, applied>>
    BY <1>9 DEF vars, sessionVars, controlVars, poolVars, clientVars
  <2>2. Up'  BY <2>1 DEF HInv, Up
  <2>3. ASSUME NEW s \in Sessions PROVE History(s)'
    <3>1. Apart(s)  BY <2>1 DEF Apart
    <3>2. History(s) /\ acked[s] \subseteq Slices  BY DEF HInv, IInv, TypeOK
    <3> QED  BY <2>1, <3>1, <3>2, OtherKeeps
  <2> QED  BY <1>0, <2>2, <2>3 DEF HInv
<1> QED  BY <1>8, <1>9

\* Every acknowledged write is durable or waits in the transaction of its
\* session, and nothing else does (Commit, Rollback, handleBegin).
THEOREM HistoryInvariant == ASSUME Quiet PROVE Spec => []HInv
<1>1. Init => HInv  BY HistoryInit
<1>2. HInv /\ [Next]_vars => HInv'  BY HistoryStep
<1> QED  BY <1>1, <1>2, PTL DEF Spec

\* The invariant of the histories says what COMMIT and ROLLBACK promise.
LEMMA HistoryIsEnough == ASSUME HInv PROVE CommitDurable /\ RollbackClean
<1>1. ASSUME NEW s \in Sessions, at[s]["cmd"] = "reply", reply[s] = "ok", op[s]["cmd"] \in {"commit", "begin", "ac1"}
      PROVE  acked[s] \subseteq applied[s]
  <2>1. IInv /\ TypeOK /\ Shape(s) /\ History(s)  BY DEF HInv, IInv
  <2>2. Keeping(s)  BY <1>1, <2>1 DEF Shape, Wheel, Closing, Keeping
  <2>3. acked[s] \subseteq Slices  BY <2>1 DEF TypeOK
  <2>4. \A sl \in Slices : ~Waiting(s, sl)
    <3>1. CASE op[s]["cmd"] = "begin"
      BY <1>1, <2>1, <3>1 DEF History, Begun, Waiting
    <3>2. CASE op[s]["cmd"] # "begin"
      <4>1. txConns[s] = NoConns  BY <1>1, <2>1, <3>2 DEF History, Client, LetGo
      <4> QED  BY <4>1, NoConnAssumption DEF Waiting, NoConns
    <3> QED  BY <3>1, <3>2
  <2> QED  BY <2>1, <2>2, <2>3, <2>4 DEF History, Kept
<1>2. CommitDurable  BY <1>1 DEF CommitDurable
<1>3. RollbackClean  BY DEF HInv, History, Client, Nothing, RollbackClean
<1> QED  BY <1>2, <1>3

(* When COMMIT, BEGIN or SET autocommit = 1 is answered with OK, the loop  *)
(* of its handler has made durable every write that the proxy acknowledged *)
(* in the transaction, on any number of slices, as long as no connection   *)
(* is lost and the client does not set autocommit inside a transaction.    *)
THEOREM CommitDurableHolds == ASSUME Quiet PROVE Spec => []CommitDurable
<1>1. HInv => CommitDurable  BY HistoryIsEnough
<1> QED  BY <1>1, HistoryInvariant, PTL

(* When ROLLBACK is answered with OK, no write of the transaction has      *)
(* become durable: getBackendConn ran none of them outside it.             *)
THEOREM RollbackCleanHolds == ASSUME Quiet PROVE Spec => []RollbackClean
<1>1. HInv => RollbackClean  BY HistoryIsEnough
<1> QED  BY <1>1, HistoryInvariant, PTL
=============================================================================
