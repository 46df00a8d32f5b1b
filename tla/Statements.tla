----------------------------- MODULE Statements -----------------------------
(***************************************************************************)
(* Prepared statements of one session (proxy/server/executor_stmt.go and   *)
(* the prepare and close handlers of executor_handle.go).                  *)
(*                                                                         *)
(* A statement keeps the arguments of its next execution: long data that   *)
(* the client sends ahead, and the values of the execute packet.  An       *)
(* argument is nil, a number of long-data chunks, or a value; how values   *)
(* are written into the text is in Lexer.  The session serves one command  *)
(* at a time, so each handler is a single action.                          *)
(***************************************************************************)
EXTENDS Integers, Sequences, SequencesExt, FiniteSets

CONSTANTS ParamCounts,  \* numbers of parameters of the prepared statements
          Values,       \* values of a parameter in an execute packet
          MaxStmts,     \* bound: statements prepared
          MaxChunks     \* bound: chunks of long data for a parameter

Nil == [kind |-> "nil"]
Chunks(n) == [kind |-> "long", n |-> n]
Value(v) == [kind |-> "value", v |-> v]

Args == {Nil} \cup {Chunks(n) : n \in 1..(MaxChunks + 1)} \cup {Value(v) : v \in Values}

VARIABLES stStmts,   \* se.stmts: id -> paramCount, args and whether types are bound
          stNext,    \* se.stmtID
          stLong,    \* history: id -> the chunks the client sent for each parameter
          stFailed,  \* history: statements whose last binding failed
          stRan      \* history: the last execution: what was bound, what was run, and
                     \* whether a binding had failed before

statementsVars == <<stStmts, stNext, stLong, stFailed, stRan>>

StatementsTypeOK ==
  /\ stNext \in 0..MaxStmts
  /\ DOMAIN stStmts \subseteq 0..(stNext - 1)
  /\ \A id \in DOMAIN stStmts :
       LET s == stStmts[id] IN s.paramCount \in ParamCounts /\ s.args \in [1..s.paramCount -> Args]

NothingRan == [stale |-> FALSE, bound |-> <<>>, args |-> <<>>]

StatementsInit == stStmts = <<>> /\ stNext = 0 /\ stLong = <<>> /\ stFailed = {} /\ stRan = NothingRan

NoArgs(n) == [i \in 1..n |-> Nil]

\* Mutant: the arguments stay for the next execution.
KeepParams(s) == s

ResetParams(s) == [s EXCEPT !.args = NoArgs(s.paramCount)]

\* handleStmtPrepare, for a statement whose placeholders calcParams counts.
handleStmtPrepare(n) ==
  /\ stNext < MaxStmts
  /\ stStmts' = (stNext :> [paramCount |-> n, args |-> NoArgs(n), types |-> FALSE]) @@ stStmts
  /\ stLong' = (stNext :> [i \in 1..n |-> 0]) @@ stLong
  /\ stNext' = stNext + 1
  /\ UNCHANGED <<stFailed, stRan>>

\* handleStmtSendLongData: the first chunk makes the argument, others are
\* appended, to bytes only.  An unknown statement or parameter is an error,
\* and nothing changes.
handleStmtSendLongData(id, p) ==
  /\ id \in DOMAIN stStmts /\ p <= stStmts[id].paramCount
  /\ stLong[id][p] < MaxChunks
  /\ LET a == stStmts[id].args[p]
     IN  /\ a.kind # "value"
         /\ stStmts' = [stStmts EXCEPT ![id].args[p] = Chunks(IF a = Nil THEN 1 ELSE a.n + 1)]
  /\ stLong' = [stLong EXCEPT ![id][p] = @ + 1]
  /\ UNCHANGED <<stNext, stFailed, stRan>>

\* bindStmtArgs: a parameter with the null bit is nil, one that has an argument
\* already keeps it, and any other takes the next value of the packet.
\* nulls: the null bits; typed: the parameters have types; values: the values
\* of the packet.  The result has the arguments even when it fails.
bindStmtArgs(args, nulls, typed, values) ==
  LET Bind(r, i) ==
        CASE r.err -> r
          [] ~r.err /\ i \in nulls -> [r EXCEPT !.args[i] = Nil]
          [] ~r.err /\ i \notin nulls /\ ~typed -> [r EXCEPT !.err = TRUE]
          [] ~r.err /\ i \notin nulls /\ typed /\ r.args[i] # Nil -> r
          [] OTHER -> IF r.rest = <<>> THEN [r EXCEPT !.err = TRUE]
                      ELSE [r EXCEPT !.args[i] = Value(Head(r.rest)), !.rest = Tail(r.rest)]
  IN  FoldLeft(Bind, [args |-> args, rest |-> values, err |-> FALSE], [i \in 1..Len(args) |-> i])

\* The client's packet for a binding of the parameters, a value of Values,
\* "null" or "long": the null bits and the values in order, with the types
\* when it has not sent them before.  cut values are missing at its end.
Nulls(b) == {i \in DOMAIN b : b[i] = "null"}

Sent(b, cut) ==
  LET values == SelectSeq(b, LAMBDA v : v \in Values)
  IN  SubSeq(values, 1, Len(values) - cut)

Bound(id, b) ==
  [i \in DOMAIN b |-> CASE b[i] = "null" -> Nil
                        [] b[i] = "long" -> Chunks(stLong[id][i])
                        [] OTHER -> Value(b[i])]

\* The bindings a client can ask for: a parameter with long data is long or null.
Bindings(id) ==
  {b \in [1..stStmts[id].paramCount -> Values \cup {"null", "long"}] :
     \A i \in DOMAIN b : b[i] # "null" => (b[i] = "long" <=> stLong[id][i] > 0)}

\* handleStmtExecute: an error while binding returns before the deferred reset
\* of the arguments is in place; afterwards they are reset whether the query
\* fails or not.
handleStmtExecute(id, b, types, cut) ==
  /\ id \in DOMAIN stStmts /\ b \in Bindings(id)
  /\ cut <= Cardinality({i \in DOMAIN b : b[i] \in Values})
  /\ LET s == stStmts[id]
         typed == types \/ s.types
         r == bindStmtArgs(s.args, Nulls(b), typed, Sent(b, cut))
     IN  IF r.err
           THEN /\ stStmts' = [stStmts EXCEPT ![id].args = r.args, ![id].types = typed]
                /\ stFailed' = stFailed \cup {id}
                /\ UNCHANGED <<stLong, stRan>>
           ELSE /\ stStmts' = [stStmts EXCEPT ![id] = ResetParams([s EXCEPT !.types = typed])]
                /\ stLong' = [stLong EXCEPT ![id] = [i \in DOMAIN b |-> 0]]
                /\ stRan' = [stale |-> id \in stFailed, bound |-> Bound(id, b), args |-> r.args]
                /\ stFailed' = stFailed \ {id}
  /\ UNCHANGED stNext

handleStmtReset(id) ==
  /\ id \in DOMAIN stStmts
  /\ stStmts' = [stStmts EXCEPT ![id] = ResetParams(@)]
  /\ stLong' = [stLong EXCEPT ![id] = [i \in DOMAIN stLong[id] |-> 0]]
  /\ stFailed' = stFailed \ {id}
  /\ UNCHANGED <<stNext, stRan>>

handleStmtClose(id) ==
  /\ id \in DOMAIN stStmts
  /\ stStmts' = [i \in DOMAIN stStmts \ {id} |-> stStmts[i]]
  /\ stLong' = [i \in DOMAIN stLong \ {id} |-> stLong[i]]
  /\ stFailed' = stFailed \ {id}
  /\ UNCHANGED <<stNext, stRan>>

StatementsNext ==
  \/ \E n \in ParamCounts : handleStmtPrepare(n)
  \/ \E id \in DOMAIN stStmts :
       \/ handleStmtReset(id)
       \/ handleStmtClose(id)
       \/ \E p \in 1..stStmts[id].paramCount : handleStmtSendLongData(id, p)
       \/ \E b \in Bindings(id), types \in BOOLEAN, cut \in {0, 1} : handleStmtExecute(id, b, types, cut)

-----------------------------------------------------------------------------
\* A statement is run with the arguments that the client bound for this
\* execution: its long data with every chunk, and no argument of an earlier
\* one.  Where a binding failed, the arguments bound before the error stay
\* until the statement is reset, so this is asked of the others only.
RunAsBound == ~stRan.stale => stRan.args = stRan.bound
=============================================================================
