----------------------------- MODULE SessionLoop -----------------------------
(***************************************************************************)
(* A client session from accept to its end: onConn (proxy/server/server.go),*)
(* the handshake, Run and writeResponse (proxy/server/session.go), the     *)
(* dispatch of commands (ExecuteCommand, proxy/server/executor.go) and the *)
(* session gauge of the statistics (proxy/server/manager.go,               *)
(* stats/counters.go).  All sessions belong to one namespace, which an     *)
(* administrator deletes and creates while clients come and go; each       *)
(* lookup of the manager reads the tables of that moment.  The idle        *)
(* timeout closes a session from another goroutine (module TimeWheel).     *)
(*                                                                         *)
(* A panic of a session's goroutine ends the session: Run and onConn       *)
(* recover it; one of another goroutine ends the proxy.  What a command    *)
(* does to transactions and backends is module SessionExecutor; of it only *)
(* the connection of a transaction that lost its socket is kept, since     *)
(* rollback, which Close calls, panics on it.                              *)
(***************************************************************************)
EXTENDS Integers, FiniteSetsExt

CONSTANTS
  LoopSessions,
  MaxCommands, MaxReloads, MaxClears    \* bounds

VARIABLES
  slAt,        \* where the goroutine of a session is
  slNs,        \* the namespace a session found, "" for none
  slClosed,    \* Session.closed
  slCmd,       \* the command a session executes, then the kind of its response
  slSent,      \* bound: the commands a client has sent
  slBroken,    \* the sessions whose transaction holds a connection without a socket
  slDown,      \* an unrecovered panic ended the proxy
  slLoaded,    \* whether the current tables of the manager have the namespace and its users
  slCounters,  \* the counters by name: the cell the map holds, and its value
  slCell,      \* the cell a session's Add has looked up
  slCount      \* bounds: reloads and clearings so far

loopVars == <<slAt, slNs, slClosed, slCmd, slSent, slBroken, slDown, slLoaded, slCounters, slCell, slCount>>

Silent == {"quit", "stmtClose", "longData"}                 \* "no response", except to an error
Running == {"query", "execute"}                             \* handleQuery
Looking == {"initDB", "fieldList", "prepare"}               \* others that look the namespace up
Commands == Silent \cup Running \cup Looking \cup {"ping", "reset", "setOption", "other"}

LoopInit ==
  /\ slAt = [s \in LoopSessions |-> "none"]
  /\ slNs = [s \in LoopSessions |-> ""]
  /\ slClosed = [s \in LoopSessions |-> FALSE]
  /\ slCmd = [s \in LoopSessions |-> [cmd |-> "none", resp |-> "none"]]
  /\ slSent = [s \in LoopSessions |-> 0]
  /\ slBroken = {} /\ slDown = FALSE
  /\ slLoaded = TRUE
  /\ slCounters = [c \in {"sessions", "errors"} |-> [cell |-> 0, n |-> 0]]
  /\ slCell = [s \in LoopSessions |-> 0]
  /\ slCount = [reloads |-> 0, clears |-> 0]

Go(s, at) == slAt' = [slAt EXCEPT ![s] = at]

---------------------------------------------------------------------------
(* stats/counters.go.  Add finds the cell of a name under the lock and     *)
(* adds to it after; ResetAll replaces the map, so that a cell found       *)
(* before counts no more.                                                  *)
getValueAddr(s, name) == slCell' = [slCell EXCEPT ![s] = slCounters[name].cell]
AddInt64(s, name, v) ==
  slCounters' = IF slCell[s] = slCounters[name].cell
                THEN [slCounters EXCEPT ![name].n = @ + v] ELSE slCounters
ResetAll(names) ==
  slCounters' = [c \in DOMAIN slCounters |->
                   IF c \in names THEN [cell |-> slCounters[c].cell + 1, n |-> 0] ELSE slCounters[c]]

\* Mutant: the hourly task clears the session gauge along with the counters.
clearAll ==
  /\ slCount.clears < MaxClears
  /\ slCount' = [slCount EXCEPT !.clears = @ + 1]
  /\ ResetAll(DOMAIN slCounters)
  /\ UNCHANGED <<slAt, slNs, slClosed, slCmd, slSent, slBroken, slDown, slLoaded, slCell>>
clearLargeCounters ==
  /\ slCount.clears < MaxClears
  /\ slCount' = [slCount EXCEPT !.clears = @ + 1]
  /\ ResetAll({"errors"})
  /\ UNCHANGED <<slAt, slNs, slClosed, slCmd, slSent, slBroken, slDown, slLoaded, slCell>>

\* A change or deletion of the namespace is committed.
Reload ==
  /\ slCount.reloads < MaxReloads
  /\ slCount' = [slCount EXCEPT !.reloads = @ + 1]
  /\ slLoaded' = ~slLoaded
  /\ UNCHANGED <<slAt, slNs, slClosed, slCmd, slSent, slBroken, slDown, slCounters, slCell>>

---------------------------------------------------------------------------
(* onConn and Handshake                                                    *)

Others == <<slCmd, slSent, slBroken, slDown, slLoaded, slCounters, slCell, slCount>>

Accept(s) ==
  /\ slAt[s] = "none" /\ Go(s, "hello")
  /\ UNCHANGED <<slNs, slClosed, Others>>
HandshakeFails(s) ==
  /\ slAt[s] \in {"hello", "named"} /\ Go(s, "end")
  /\ UNCHANGED <<slNs, slClosed, Others>>
CheckUser(s) ==
  /\ slAt[s] = "hello" /\ Go(s, IF slLoaded THEN "user" ELSE "end")
  /\ UNCHANGED <<slNs, slClosed, Others>>
CheckPassword(s) ==
  /\ slAt[s] = "user" /\ Go(s, IF slLoaded THEN "password" ELSE "end")
  /\ UNCHANGED <<slNs, slClosed, Others>>
GetNamespaceByUser(s) ==
  /\ slAt[s] = "password" /\ Go(s, "named")
  /\ slNs' = [slNs EXCEPT ![s] = IF slLoaded THEN "n" ELSE ""]
  /\ UNCHANGED <<slClosed, Others>>
\* A namespace that is not there is a nil pointer, whose method panics.
IsAllowConnect(s) ==
  /\ slAt[s] = "named"
  /\ \E allowed \in BOOLEAN :
       Go(s, IF slNs[s] = "n" /\ slLoaded /\ allowed THEN "incr" ELSE "end")
  /\ UNCHANGED <<slNs, slClosed, Others>>

(* IncrSessionCount and DescSessionCount, each in the two steps of Add.    *)
(* The deferred function of Run closes the session before the second one.  *)
(* When the session is not closed yet, Close rolls its transaction back,   *)
(* which panics on a connection without a socket: onConn recovers it, and  *)
(* the rest of the deferred function is skipped.                           *)
CountLookup(s) ==
  /\ slAt[s] = "incr" /\ Go(s, "incrAdd")
  /\ getValueAddr(s, "sessions")
  /\ UNCHANGED <<slNs, slClosed, slCmd, slSent, slBroken, slDown, slLoaded, slCounters, slCount>>
DeferredClose(s) ==
  /\ slAt[s] = "leave"
  /\ slClosed' = [slClosed EXCEPT ![s] = TRUE]
  /\ IF s \in slBroken /\ ~slClosed[s]
     THEN Go(s, "lost") /\ UNCHANGED slCell
     ELSE Go(s, "descAdd") /\ getValueAddr(s, "sessions")
  /\ UNCHANGED <<slNs, slCmd, slSent, slBroken, slDown, slLoaded, slCounters, slCount>>
IncrSessionCount(s) ==
  /\ slAt[s] = "incrAdd" /\ Go(s, "loop")
  /\ AddInt64(s, "sessions", 1)
  /\ UNCHANGED <<slNs, slClosed, slCmd, slSent, slBroken, slDown, slLoaded, slCell, slCount>>
DescSessionCount(s) ==
  /\ slAt[s] = "descAdd" /\ Go(s, "end")
  /\ AddInt64(s, "sessions", -1)
  /\ UNCHANGED <<slNs, slClosed, slCmd, slSent, slBroken, slDown, slLoaded, slCell, slCount>>

---------------------------------------------------------------------------
(* Run: read a command, execute it, write the response.                    *)

\* The loop ends when the session is closed, or nothing can be read; an empty
\* packet makes data[0] panic.
LeaveLoop(s) ==
  /\ slAt[s] = "loop" /\ Go(s, "leave")
  /\ UNCHANGED <<slNs, slClosed, Others>>
CommandsLeft == MapThenSumSet(LAMBDA t : slSent[t], LoopSessions) < MaxCommands   \* bound
ReadEphemeralPacket(s) ==
  /\ slAt[s] = "loop" /\ ~slClosed[s]
  /\ CommandsLeft
  /\ \E cmd \in Commands : slCmd' = [slCmd EXCEPT ![s] = [cmd |-> cmd, resp |-> "none"]]
  /\ slSent' = [slSent EXCEPT ![s] = @ + 1]
  /\ Go(s, "exec")
  /\ UNCHANGED <<slNs, slClosed, slBroken, slDown, slLoaded, slCounters, slCell, slCount>>

(* The responses a command may get.  No code returns ErrBadConn, which     *)
(* writeResponse would end the session for.                                *)
Responses(cmd) ==
  CASE cmd \in {"quit", "stmtClose"} -> {"noop"}
    [] cmd = "longData" -> {"noop", "error"}
    [] cmd = "setOption" -> {"eof"}
    [] cmd = "ping" -> {"ok"}
    [] cmd = "other" -> {"error"}
    [] cmd \in {"initDB", "reset"} -> {"ok", "error"}
    [] cmd = "prepare" -> {"prepare", "error"}
    [] cmd = "fieldList" -> {"fields", "error"}
    [] OTHER -> {"result", "error"}

(* handleQuery: a statement of the black list is refused before it is      *)
(* recorded, and the panic without the namespace, or on a connection       *)
(* without a socket, is recovered: an error in each case.  Otherwise the   *)
(* outcome is recorded.                                                    *)
handleQuery(cmd) ==
  {[resp |-> "error", recorded |-> FALSE]} \cup
  IF slLoaded THEN {[resp |-> r, recorded |-> TRUE] : r \in Responses(cmd)} ELSE {}

\* Errors of statements are counted.
RecordSessionSQLMetrics(resp) ==
  slCounters' = IF resp = "error"
                THEN [slCounters EXCEPT !["errors"].n = @ + 1] ELSE slCounters

(* writePacket: the connection that a statement of a transaction writes to *)
(* breaks, and the three attempts to reconnect fail: the statement ends    *)
(* with an error, and the transaction keeps the connection, with no        *)
(* socket.  What uses it later panics.                                     *)
writePacket(s, resp) ==
  slBroken' \in IF resp = "error" THEN {slBroken, slBroken \cup {s}} ELSE {slBroken}

(* A statement on several slices uses the connection in goroutines of its  *)
(* own, whose panic ends the proxy (executeInMultiSlices).  Without the    *)
(* namespace the commands other than statements that look it up take the   *)
(* session down with a panic; so does what uses the connection without a   *)
(* socket in the session's goroutine.                                      *)
ExecuteCommand(s) ==
  LET cmd == slCmd[s].cmd
      Respond(resp) == slCmd' = [slCmd EXCEPT ![s].resp = resp] /\ Go(s, "write")
      panics == (cmd \in Looking /\ ~slLoaded) \/ (cmd = "quit" /\ s \in slBroken)
  IN
  /\ slAt[s] = "exec"
  /\ \/ cmd \in Running /\ \E x \in handleQuery(cmd) :
          /\ Respond(x.resp)
          /\ IF x.recorded THEN RecordSessionSQLMetrics(x.resp) /\ writePacket(s, x.resp)
             ELSE UNCHANGED <<slCounters, slBroken>>
          /\ UNCHANGED slDown
     \/ /\ cmd \in Running /\ slLoaded /\ s \in slBroken /\ slDown' = TRUE
        /\ UNCHANGED <<slAt, slCmd, slCounters, slBroken>>
     \/ /\ panics \/ (cmd = "fieldList" /\ s \in slBroken)
        /\ Go(s, "leave")
        /\ UNCHANGED <<slCmd, slCounters, slBroken, slDown>>
     \/ /\ cmd \notin Running /\ ~panics
        /\ \E resp \in Responses(cmd) :
             /\ Respond(resp)
             /\ IF cmd = "fieldList" THEN writePacket(s, resp) ELSE UNCHANGED slBroken
        /\ UNCHANGED <<slCounters, slDown>>
  /\ UNCHANGED <<slNs, slClosed, slSent, slLoaded, slCell, slCount>>

writeResponse(s) ==
  /\ slAt[s] = "write" /\ (slClosed[s] => slCmd[s].resp = "noop")
  /\ Go(s, "loop")
  /\ slClosed' = [slClosed EXCEPT ![s] = @ \/ slCmd[s].cmd = "quit"]
  /\ slCmd' = [slCmd EXCEPT ![s] = [cmd |-> "none", resp |-> "none"]]
  /\ UNCHANGED <<slNs, slSent, slBroken, slDown, slLoaded, slCounters, slCell, slCount>>
\* Run closes the session; a panic of that Close finds it marked as closed.
writeFails(s) ==
  /\ slAt[s] = "write" /\ slCmd[s].resp # "noop" /\ Go(s, "leave")
  /\ slClosed' = [slClosed EXCEPT ![s] = TRUE]
  /\ UNCHANGED <<slNs, Others>>

\* The idle timeout: the wheel calls Session.Close in a goroutine of its own.
Timeout(s) ==
  /\ slAt[s] \in {"incr", "incrAdd", "loop", "exec", "write", "leave"} /\ ~slClosed[s]
  /\ slClosed' = [slClosed EXCEPT ![s] = TRUE]
  /\ slDown' = (s \in slBroken)
  /\ UNCHANGED <<slAt, slNs, slCmd, slSent, slBroken, slLoaded, slCounters, slCell, slCount>>

LoopNext ==
  /\ ~slDown
  /\ \/ \E s \in LoopSessions :
          \/ Accept(s) \/ HandshakeFails(s) \/ CheckUser(s) \/ CheckPassword(s)
          \/ GetNamespaceByUser(s) \/ IsAllowConnect(s) \/ CountLookup(s) \/ DeferredClose(s)
          \/ IncrSessionCount(s) \/ DescSessionCount(s) \/ LeaveLoop(s)
          \/ ReadEphemeralPacket(s) \/ ExecuteCommand(s) \/ writeResponse(s) \/ writeFails(s)
          \/ Timeout(s)
     \/ Reload \/ clearLargeCounters

LoopSpec == LoopInit /\ [][LoopNext]_loopVars

---------------------------------------------------------------------------
(* The session gauge counts the sessions between IncrSessionCount and      *)
(* DescSessionCount, whatever ends them (a client that goes away, a panic, *)
(* a timeout), although Add works in two steps and the counters next to it *)
(* are cleared every hour; and besides them exactly the sessions whose     *)
(* deferred Close panicked in the rollback on a connection without a       *)
(* socket ("lost"), which stay in the gauge for good: Run's deferred       *)
(* function never gets to DescSessionCount for them.                       *)
SessionsCounted ==
  slCounters["sessions"].n =
    Cardinality({s \in LoopSessions : slAt[s] \in {"loop", "exec", "write", "leave", "descAdd", "lost"}})
=============================================================================
