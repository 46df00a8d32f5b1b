--------------------------- MODULE ReadWriteSplit ---------------------------
(***************************************************************************)
(* Which server a statement of one session goes to: doQuery and the        *)
(* routing helpers of proxy/server/executor.go, the tables that the plan's *)
(* Checker notes (proxy/plan/plan.go), the user's properties               *)
(* (proxy/server/namespace.go) and Slice.GetConn (backend/slice.go).       *)
(*                                                                         *)
(* Each server is the master, a replica beside the proxy, a replica for    *)
(* statistics beside the proxy, or a replica in the master's data centre.  *)
(* When master_dc is set, the proxy itself is in the master's data centre. *)
(***************************************************************************)
EXTENDS Integers, Sequences, FiniteSets

CONSTANTS Tables,    \* the logical tables
          Sharded,   \* those with a shard rule
          writeElapsedInterval   \* of the proxy's configuration, in ticks of the clock

ASSUME SplitAssumption == writeElapsedInterval \in Nat

MasterFlag == "master"
SlaveFlag == "slave"
MasterDCFlag == "masterDC"

\* What Preview makes of a statement, as far as it is told apart here: one that
\* is handled without a plan - begin, commit - does not read or write a table.
StatementKinds == {"select", "insert", "replace", "update", "delete"}

\* The leading comment of a statement.
Comments == {"none", "/*master*/", "/*master_dc_slave*/"}

\* A statement names its tables in the order in which its syntax tree is
\* visited; only a select or an update names several, and here none twice.  The
\* comment matters to a select only.
Statements ==
  {s \in [kind : StatementKinds, tables : UNION {[1..n -> Tables] : n \in 1..2}, comment : Comments] :
     /\ Len(s.tables) = 2 => s.tables[1] # s.tables[2]
     /\ s.kind \in {"select", "update"} \/ Len(s.tables) = 1
     /\ s.kind = "select" \/ s.comment = "none"}

Users == [readOnly : BOOLEAN, rwSplit : BOOLEAN, statistic : BOOLEAN]

VARIABLES rwUser,      \* the user's properties
          rwMasterDC,  \* namespace.masterDC
          rwElapsed,   \* se.elapsedTables: table -> the time since its last write, up to
                       \* the interval
          rwInTrans,   \* se.isInTransaction()
          rwWrote,     \* history: table -> the time since its last write, and whether it is one
                       \* the session notes: no REPLACE, and of a table the Checker sees
          rwLast       \* history: the last statement that ran, the server it ran on, and which
                       \* recent writes of its tables there were

splitVars == <<rwUser, rwMasterDC, rwElapsed, rwInTrans, rwWrote, rwLast>>

Nodes == {"master", "slave", "statistic", "masterDCSlave"}
NoStatement == [kind |-> "none", comment |-> "none", recent |-> FALSE, noted |-> FALSE, node |-> "master"]

SplitTypeOK ==
  /\ rwUser \in Users /\ rwMasterDC \in BOOLEAN /\ rwInTrans \in BOOLEAN
  /\ DOMAIN rwElapsed \subseteq Tables /\ DOMAIN rwWrote \subseteq Tables
  /\ rwLast.node \in Nodes

SplitInit ==
  /\ rwUser \in Users /\ rwMasterDC \in BOOLEAN
  /\ rwElapsed = <<>> /\ rwWrote = <<>>
  /\ rwInTrans = FALSE
  /\ rwLast = NoStatement

-----------------------------------------------------------------------------
\* The tables that the Checker notes: it stops at the first one that is sharded.
ElapsedTables(tables) ==
  {tables[i] : i \in {j \in DOMAIN tables : \A k \in 1..(j - 1) : tables[k] \notin Sharded}}

GetRWSplit(user) == IF user.rwSplit THEN SlaveFlag ELSE MasterFlag

isSQLNotAllowedByUser(user, kind) == user.readOnly /\ kind \in {"delete", "insert", "update"}

\* The entries of new, and those of old for the other tables.
Overlaid(new, old) == [t \in DOMAIN new \cup DOMAIN old |-> IF t \in DOMAIN new THEN new[t] ELSE old[t]]

updateWriteTableCurrentTime(s) ==
  IF s.kind \in {"insert", "update", "delete"}
    THEN Overlaid([t \in ElapsedTables(s.tables) |-> 0], rwElapsed)
    ELSE rwElapsed

\* Mutant: the first table alone decides.
FirstTableRecent(tables) ==
  \E t \in {tables[1]} \cap DOMAIN rwElapsed : rwElapsed[t] < writeElapsedInterval

readRequestIsReadMaster(tables) ==
  \E t \in ElapsedTables(tables) \cap DOMAIN rwElapsed : rwElapsed[t] < writeElapsedInterval

getExecuteFlagFromSlave(s) ==
  CASE s.kind # "select" -> MasterFlag
    [] s.kind = "select" /\ s.comment = "/*master*/" -> MasterFlag
    [] s.kind = "select" /\ s.comment # "/*master*/" /\ ~rwMasterDC
         /\ (s.comment = "/*master_dc_slave*/" \/ readRequestIsReadMaster(s.tables)) -> MasterDCFlag
    [] OTHER -> GetRWSplit(rwUser)

\* GetConn: the servers it may return a connection of.  Where a replica fails,
\* the master stands in for it; the other pools have no stand-in, and their
\* errors end the statement.
SplitGetConn(flag, statistic) ==
  CASE flag = SlaveFlag /\ statistic -> {"statistic"}
    [] flag = SlaveFlag /\ ~statistic -> {"slave", "master"}
    [] flag = MasterDCFlag -> {"masterDCSlave"}
    [] OTHER -> {"master"}

\* getBackendConn: in a transaction always the master.
getBackendConn(flag) == IF rwInTrans THEN {"master"} ELSE SplitGetConn(flag, rwUser.statistic)

TablesOf(s) == {s.tables[i] : i \in DOMAIN s.tables}

\* The tables of ts whose last write is recent.
Recent(ts) == {t \in ts \cap DOMAIN rwWrote : rwWrote[t].at < writeElapsedInterval}

Ran(s, node) ==
  [kind |-> s.kind, comment |-> s.comment, node |-> node,
   recent |-> Recent(TablesOf(s)) # {},
   noted |-> \E t \in Recent(ElapsedTables(s.tables)) : rwWrote[t].noted]

\* doQuery, up to the plan's execution on one slice.  The times are noted before
\* it runs, and stay when it fails.
doQuery(s) ==
  /\ ~isSQLNotAllowedByUser(rwUser, s.kind)
  /\ rwElapsed' = updateWriteTableCurrentTime(s)
  /\ \E node \in getBackendConn(getExecuteFlagFromSlave(s)) : rwLast' = Ran(s, node)
  /\ rwWrote' = IF s.kind = "select" THEN rwWrote
                ELSE Overlaid([t \in TablesOf(s) |->
                                [at |-> 0, noted |-> s.kind # "replace" /\ t \in ElapsedTables(s.tables)]],
                              rwWrote)
  /\ UNCHANGED <<rwUser, rwMasterDC, rwInTrans>>

\* No connection, or an error of the server: the statement has not run.
doQueryFails(s) ==
  /\ ~isSQLNotAllowedByUser(rwUser, s.kind)
  /\ rwElapsed' = updateWriteTableCurrentTime(s)
  /\ UNCHANGED <<rwUser, rwMasterDC, rwInTrans, rwWrote, rwLast>>

handleBegin ==
  /\ rwInTrans' = TRUE
  /\ UNCHANGED <<rwUser, rwMasterDC, rwElapsed, rwWrote, rwLast>>

handleCommit ==
  /\ rwInTrans' = FALSE
  /\ UNCHANGED <<rwUser, rwMasterDC, rwElapsed, rwWrote, rwLast>>

\* The clock, which is taken not to go back.
Tick ==
  LET Older(n) == IF n < writeElapsedInterval THEN n + 1 ELSE n
  IN  /\ rwElapsed' = [t \in DOMAIN rwElapsed |-> Older(rwElapsed[t])]
      /\ rwWrote' = [t \in DOMAIN rwWrote |-> [rwWrote[t] EXCEPT !.at = Older(@)]]
      /\ UNCHANGED <<rwUser, rwMasterDC, rwInTrans, rwLast>>

SplitNext ==
  \/ \E s \in Statements : doQuery(s) \/ doQueryFails(s)
  \/ handleBegin \/ handleCommit \/ Tick

SplitSpec == SplitInit /\ [][SplitNext]_splitVars

-----------------------------------------------------------------------------
NodeInMasterDC(node) == node \in {"master", "masterDCSlave"} \/ rwMasterDC

\* A statement that writes runs on the master, and so does every one that asks
\* for it.  A select of a table that the session has inserted into, updated or
\* deleted from within the interval runs in the master's data centre - as far as
\* the Checker gets to see the table, which it does not behind the first sharded
\* one.
ReadYourWrites ==
  /\ rwLast.kind # "select" \/ rwLast.comment = "/*master*/" => rwLast.node = "master"
  /\ rwLast.noted => NodeInMasterDC(rwLast.node)

\* What the comment of readRequestIsReadMaster says: within one connection, a
\* read of a table goes to the master's data centre while the session's last
\* write of that table is recent.  REPLACE is not noted, nor is a table behind
\* the first sharded one.
RecentReadsInMasterDC == rwLast.recent => NodeInMasterDC(rwLast.node)

\* What the configuration says of rw_split = 0: the user's reads are not split
\* off to replicas, unless a comment asks for it.
UnsplitReadsMaster ==
  ~rwUser.rwSplit /\ rwLast.comment # "/*master_dc_slave*/" => rwLast.node = "master"
=============================================================================
