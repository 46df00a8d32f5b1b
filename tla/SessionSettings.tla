--------------------------- MODULE SessionSettings ---------------------------
(***************************************************************************)
(* The settings of a client session - database, character set, collation   *)
(* and session variables - and how the backend connections it borrows take *)
(* them over: mysql/variables.go, the SET and USE handlers of              *)
(* proxy/server/executor_handle.go, initBackendConn of executor.go, and    *)
(* UseDB, SetCharset, SetSessionVariables and WriteSetStatement of         *)
(* backend/direct_connection.go.                                           *)
(*                                                                         *)
(* A connection serves one session at a time: for a statement, or until    *)
(* the session's transaction ends.  It goes back to its pool with whatever *)
(* its server last had set.  When a packet cannot be written because the   *)
(* pipe is broken, the connection reconnects and is used on, on a new      *)
(* session of the server; attempts to reconnect that fail are module       *)
(* SessionExecutor.                                                        *)
(***************************************************************************)
EXTENDS Integers, Sequences, FiniteSets

CONSTANTS SettingSessions,    \* client sessions
          Conns,       \* pooled backend connections
          DBs,         \* physical databases
          Variables,   \* the names of variableVerifyFuncMap
          Valid,       \* the values their verify functions accept
          Invalid,     \* and others
          CharsetIds,  \* character set -> its default collation
          CollationNameToCharset,  \* collation -> its character set
          DefaultCharset           \* of the namespace

Charsets == DOMAIN CharsetIds
CollationNames == DOMAIN CollationNameToCharset

\* The default collation of a character set belongs to it (mysql/charset.go).
ASSUME CharsetsAgree ==
  /\ DefaultCharset \in Charsets
  /\ \A charset \in Charsets : /\ CharsetIds[charset] \in CollationNames
                               /\ CollationNameToCharset[CharsetIds[charset]] = charset

\* No database, a variable that is not set, and the server's default value.
NoDB == ""
Unset == "unset"
Default == "default"

Unsets == [v \in Variables |-> Unset]

VARIABLES svSession,  \* the settings of each session
          svConn,     \* what each DirectConnection holds to be set on its server
          svServer,   \* what its server has set
          svHolder,   \* the session that has borrowed each connection
          svClosed,   \* DirectConnection.closed: set by a reconnect, and never reset
          svSince,    \* history: what has happened to a connection, see below
          svMet       \* history: how a statement that has just run met its connection

settingsVars == <<svSession, svConn, svServer, svHolder, svClosed, svSince, svMet>>

NoOne == "nobody"
ASSUME NoOneIsNone == NoOne \notin SettingSessions

Settings(db, charset, collation, variables) ==
  [db |-> db, charset |-> charset, collation |-> collation, variables |-> variables]

Asked(s) == [s EXCEPT !.variables = [v \in Variables |-> IF s.variables[v] = Unset THEN Default ELSE s.variables[v]]]

\* The settings that a statement finds otherwise than its session has them.
\* A session without a database does not ask for one.
Differs(asked, met) == {f \in DOMAIN asked : asked[f] # met[f] /\ ~(f = "db" /\ asked.db = NoDB)}

SettingsTypeOK ==
  LET Settable == Valid \cup {Unset, Default}
      AllSettings == [db : DBs \cup {NoDB}, charset : Charsets, collation : CollationNames, variables : [Variables -> Settable]]
  IN  /\ svSession \in [SettingSessions -> AllSettings]
      /\ svServer \in [Conns -> AllSettings]
      /\ \A c \in Conns : svConn[c].settings \in AllSettings /\ svConn[c].unused \subseteq Variables

(* History of a connection: a SET was refused on it; it has reconnected    *)
(* and no SET was written on it since; or neither.                         *)
Histories == {"clean", "refused", "reconnected"}

\* No statement has just run.
NoneMet == [since |-> "clean", wrong |-> {}]

\* NewDirectConnection connects without a database, with the collation of its pool.
FreshSettings == Settings(NoDB, DefaultCharset, CharsetIds[DefaultCharset], Unsets)

SettingsInit ==
  /\ \E d \in DBs \cup {NoDB}, l \in CollationNames :
       svSession = [s \in SettingSessions |-> Settings(d, CollationNameToCharset[l], l, Unsets)]
  /\ svConn = [c \in Conns |-> [settings |-> FreshSettings, unused |-> {}]]
  /\ svServer = [c \in Conns |-> Asked(FreshSettings)]
  /\ svHolder = [c \in Conns |-> NoOne]
  /\ svClosed = {}
  /\ svSince = [c \in Conns |-> "clean"]
  /\ svMet = NoneMet

Changed(s, new) ==
  /\ svSession' = [svSession EXCEPT ![s] = new]
  /\ svMet' = NoneMet
  /\ UNCHANGED <<svConn, svServer, svHolder, svClosed, svSince>>

-----------------------------------------------------------------------------
\* handleUseDB
handleUseDB(s, d) == Changed(s, [svSession[s] EXCEPT !.db = d])

\* SET character_set_results, character_set_client or character_set_connection;
\* NULL and an unknown name change nothing.
SetCharacterSet(s, charset) ==
  Changed(s, [svSession[s] EXCEPT !.charset = charset, !.collation = CharsetIds[charset]])

\* SET NAMES with the collation named; one of another character set is an error.
SetNamesCollate(s, charset, collation) ==
  /\ CollationNameToCharset[collation] = charset
  /\ Changed(s, [svSession[s] EXCEPT !.charset = charset, !.collation = collation])

\* SessionVariables.Set behind setStringSessionVariable and setIntSessionVariable:
\* a value that verify refuses is an error, DEFAULT deletes the variable.  (For
\* sql_safe_updates DEFAULT is no on-off value, and an error before that.)
VariablesSet(variables, v, value) == IF value \in Valid THEN [variables EXCEPT ![v] = value] ELSE variables

VariablesDelete(variables, v) == [variables EXCEPT ![v] = Unset]

SetSessionVariable(s, v, value) ==
  /\ ~(v = "sql_safe_updates" /\ value = Default)
  /\ Changed(s, [svSession[s] EXCEPT !.variables = IF value = Default THEN VariablesDelete(@, v) ELSE VariablesSet(@, v, value)])

-----------------------------------------------------------------------------
\* SetEqualsWith, on a connection's variables: what is set and what is to be
\* unset, for the variables dst of a session.
SetEqualsWith(own, dst) ==
  LET src == own.settings.variables
      IsSet(vs) == {v \in Variables : vs[v] # Unset}
  IN  CASE IsSet(src) = {} /\ IsSet(dst) # {} ->
             [changed |-> TRUE, conn |-> [own EXCEPT !.settings.variables = dst]]
        [] IsSet(src) # {} /\ IsSet(dst) = {} ->
             [changed |-> TRUE, conn |-> [own EXCEPT !.settings.variables = Unsets,
                                                     !.unused = @ \cup IsSet(src)]]
        [] OTHER ->
             [changed |-> src # dst, conn |-> [own EXCEPT !.settings.variables = dst,
                                                          !.unused = @ \cup (IsSet(src) \ IsSet(dst))]]

\* UseDB, for a database that is named and not held to be in use.
UseDB(own, d) == [own EXCEPT !.settings.db = d]

SetCharset(own, charset, collation) ==
  [changed |-> own.settings.charset # charset \/ own.settings.collation # collation,
   conn |-> [own EXCEPT !.settings.charset = charset, !.settings.collation = collation]]

\* WriteSetStatement: one SET statement, the unused variables last.
Written(own, server) ==
  [server EXCEPT !.charset = own.settings.charset, !.collation = own.settings.collation,
                 !.variables = [v \in Variables |-> CASE v \in own.unused -> Default
                                                      [] v \notin own.unused /\ own.settings.variables[v] # Unset ->
                                                           own.settings.variables[v]
                                                      [] OTHER -> server.variables[v]]]

\* Mutant: only a change of the variables is written to the server.
VariablesOnly(charsetChanged, variablesChanged) == variablesChanged

MustWrite(charsetChanged, variablesChanged) == charsetChanged \/ variablesChanged

(* connect after a broken pipe: the handshake names the database and the   *)
(* collation that the connection holds to be set; its variables are not    *)
(* sent, and the new session of the server has the defaults.               *)
Reconnected(own) ==
  Asked(Settings(own.settings.db, CollationNameToCharset[own.settings.collation], own.settings.collation, Unsets))

\* Connection c, its server and its history after a step.
Left(c, conn, server, since) ==
  /\ svConn' = [svConn EXCEPT ![c] = conn]
  /\ svServer' = [svServer EXCEPT ![c] = server]
  /\ svSince' = [svSince EXCEPT ![c] = since]

(* initBackendConn and the statement after it, on a connection from the    *)
(* pool or that of the session's transaction.  The server may refuse USE,  *)
(* and then nothing else happens; or the SET, and then the connection has  *)
(* the settings down as done already.  The pipe may be broken for the USE, *)
(* or for the SET or the statement: then the connection reconnects, and    *)
(* the statement ends with an error.                                       *)
Execute(s, c, outcome) ==
  LET want == svSession[s]
      mustUse == svConn[c].settings.db # want.db /\ want.db # NoDB
      used == IF mustUse THEN UseDB(svConn[c], want.db) ELSE svConn[c]
      inDB == [svServer[c] EXCEPT !.db = IF mustUse THEN want.db ELSE @]
      charset == SetCharset(used, want.charset, want.collation)
      variables == SetEqualsWith(charset.conn, want.variables)
      write == MustWrite(charset.changed, variables.changed)
      done == [variables.conn EXCEPT !.unused = IF write THEN {} ELSE @]
      server == IF write THEN Written(variables.conn, inDB) ELSE inDB
      since == IF write /\ svSince[c] = "reconnected" THEN "clean" ELSE svSince[c]
  IN  /\ svHolder[c] \in {NoOne, s} /\ svHolder' = [svHolder EXCEPT ![c] = s]
      /\ \/ /\ outcome = "useRefused" /\ mustUse
            /\ svMet' = NoneMet /\ UNCHANGED <<svConn, svServer, svClosed, svSince>>
         \/ /\ outcome = "useBroken" /\ mustUse
            /\ Left(c, svConn[c], Reconnected(svConn[c]), "reconnected")
            /\ svClosed' = svClosed \cup {c} /\ svMet' = NoneMet
         \/ /\ outcome = "setRefused" /\ write
            /\ Left(c, done, inDB, "refused")
            /\ svMet' = NoneMet /\ UNCHANGED svClosed
         \/ /\ outcome = "broken"
            /\ Left(c, done, Reconnected(done), "reconnected")
            /\ svClosed' = svClosed \cup {c} /\ svMet' = NoneMet
         \/ /\ outcome = "ok"
            /\ Left(c, done, server, since)
            /\ svMet' = [since |-> since, wrong |-> Differs(Asked(want), server)]
            /\ UNCHANGED svClosed
      /\ UNCHANGED svSession

Outcomes == {"useRefused", "useBroken", "setRefused", "broken", "ok"}

\* A new connection takes the place of c in the pool.
NewDirectConnection(c) ==
  /\ Left(c, [settings |-> FreshSettings, unused |-> {}], Asked(FreshSettings), "clean")
  /\ svClosed' = svClosed \ {c}

(* PooledConnection.Recycle, after the statement or at the end of the      *)
(* transaction: the place of a closed connection is filled by a new one.   *)
Recycle(c) ==
  /\ svHolder[c] # NoOne /\ svHolder' = [svHolder EXCEPT ![c] = NoOne]
  /\ IF c \in svClosed THEN NewDirectConnection(c) ELSE UNCHANGED <<svConn, svServer, svClosed, svSince>>
  /\ svMet' = NoneMet /\ UNCHANGED svSession

\* The pool closes a connection that is idle.
IdleClosed(c) ==
  /\ svHolder[c] = NoOne
  /\ NewDirectConnection(c)
  /\ svMet' = NoneMet /\ UNCHANGED <<svSession, svHolder>>

SettingsNext ==
  \/ \E s \in SettingSessions :
       \/ \E d \in DBs : handleUseDB(s, d)
       \/ \E charset \in Charsets : SetCharacterSet(s, charset)
       \/ \E charset \in Charsets, collation \in CollationNames : SetNamesCollate(s, charset, collation)
       \/ \E v \in Variables, value \in Valid \cup Invalid \cup {Default} : SetSessionVariable(s, v, value)
       \/ \E c \in Conns, outcome \in Outcomes : Execute(s, c, outcome)
  \/ \E c \in Conns : Recycle(c) \/ IdleClosed(c)

SettingsSpec == SettingsInit /\ [][SettingsNext]_settingsVars

-----------------------------------------------------------------------------
(* What a statement may find otherwise than its session has it, by the     *)
(* history of the connection it runs on.                                   *)
Excused(since) ==
  CASE since = "clean" -> {}
    [] since = "reconnected" -> {"variables"}
    [] since = "refused" -> {"charset", "collation", "variables"}

(* A statement meets a server with the settings of its session, whatever   *)
(* sessions used the connection before: the database, the character set,   *)
(* the variables the session has set, and the defaults for the others.  (A *)
(* session that has chosen no database runs in the one its connection was  *)
(* used with last.)  There are two exceptions, and the database is right   *)
(* in both.  In a transaction, after the connection has reconnected and    *)
(* until the session changes a setting and so has a SET written, the       *)
(* variables are the server's defaults (writePacket, initBackendConn); the *)
(* pool never hands such a connection to another session.  After the       *)
(* server refused a SET, which the connection has down as done, character  *)
(* set and variables may be others for as long as the connection lives.    *)
MetAsAsked ==
  /\ svMet.wrong \subseteq Excused(svMet.since)
  /\ \A c \in Conns : svHolder[c] = NoOne => svSince[c] # "reconnected"
=============================================================================
