---------------------------- MODULE ServerProofs ----------------------------
(***************************************************************************)
(* Theorems about two parts of the proxy server: the settings of its       *)
(* sessions (SessionSettings), and changing its configuration              *)
(* (ConfigReload).                                                         *)
(***************************************************************************)
EXTENDS SessionSettings, ConfigReload, TLAPS

-----------------------------------------------------------------------------
(* The session settings, for any number of sessions, connections, names    *)
(* and values: a statement meets the settings its session asked for.  The  *)
(* invariant: what a connection has down as set is what its server has,    *)
(* unless a SET was refused; after a reconnect, all but the variables.     *)

(* Settings are records of the four fields, their variables a function on  *)
(* all names.                                                              *)
AreSettings(r) ==
  /\ r = Settings(r.db, r.charset, r.collation, r.variables)
  /\ r.variables = [v \in Variables |-> r.variables[v]]

Pooled(x) == [settings |-> x, unused |-> {}]

\* The character set is that of the collation.
Coded(r) == r.charset = CollationNameToCharset[r.collation]

\* The settings x, with no variable set.
Bare(x) == Settings(x.db, x.charset, x.collation, Unsets)

(* A server that has srv set agrees with a connection that has x down as   *)
(* set, as far as the connection's history allows.                         *)
Agree(x, srv, since) ==
  /\ since \in Histories
  /\ srv.db = x.db
  /\ since = "clean" => srv = Asked(x)
  /\ since = "reconnected" => srv = Asked(Bare(x))

SessionsKept ==
  /\ svSession = [s \in SettingSessions |-> svSession[s]]
  /\ \A s \in SettingSessions : AreSettings(svSession[s]) /\ Coded(svSession[s])

(* What a DirectConnection holds to be set is set on its server, as far as *)
(* its history allows, and nothing is left to be unset between statements. *)
ConnsKept ==
  /\ svConn = [c \in Conns |-> Pooled(svConn[c].settings)]
  /\ svServer = [c \in Conns |-> svServer[c]]
  /\ svSince = [c \in Conns |-> svSince[c]]
  /\ \A c \in Conns : /\ AreSettings(svConn[c].settings) /\ Coded(svConn[c].settings)
                      /\ AreSettings(svServer[c])
                      /\ Agree(svConn[c].settings, svServer[c], svSince[c])

(* A connection that has reconnected is closed, and a closed connection is *)
(* never in the pool.                                                      *)
ClosedKept ==
  /\ svHolder = [c \in Conns |-> svHolder[c]]
  /\ \A c \in Conns : /\ svSince[c] = "reconnected" => c \in svClosed
                      /\ svHolder[c] = NoOne => c \notin svClosed

JustMet == svMet.wrong \subseteq Excused(svMet.since)

SettingsInv == SessionsKept /\ ConnsKept /\ ClosedKept /\ JustMet

\* What Settings makes is a record of settings.
LEMMA SettingsAre ==
    ASSUME NEW d, NEW h, NEW l, NEW vs, vs = [v \in Variables |-> vs[v]]
    PROVE  AreSettings(Settings(d, h, l, vs))
BY DEF AreSettings, Settings

\* Changing the character set and the collation changes nothing else.
LEMMA Recoded ==
    ASSUME NEW r, NEW h, NEW l, AreSettings(r)
    PROVE  [r EXCEPT !.charset = h, !.collation = l] = Settings(r.db, h, l, r.variables)
<1>1. [r EXCEPT !.charset = h] = Settings(r.db, h, r.collation, r.variables)  BY DEF AreSettings, Settings
<1>2. [Settings(r.db, h, r.collation, r.variables) EXCEPT !.collation = l] = Settings(r.db, h, l, r.variables)
  BY DEF Settings
<1>3. [r EXCEPT !.charset = h, !.collation = l] = [[r EXCEPT !.charset = h] EXCEPT !.collation = l]
  OBVIOUS
<1> QED  BY <1>1, <1>2, <1>3, Zenon

\* What a session asks of a server: the defaults for the variables it has not set.
LEMMA AskedAre ==
    ASSUME NEW r, AreSettings(r)
    PROVE  /\ Asked(r) = Settings(r.db, r.charset, r.collation,
                           [v \in Variables |-> IF r.variables[v] = Unset THEN Default ELSE r.variables[v]])
           /\ AreSettings(Asked(r))
<1> DEFINE vs == [v \in Variables |-> IF r.variables[v] = Unset THEN Default ELSE r.variables[v]]
<1>1. Asked(r) = [r EXCEPT !.variables = vs]  BY DEF Asked
<1>2. vs = [v \in Variables |-> vs[v]]  OBVIOUS
<1> HIDE DEF vs
<1>3. Asked(r) = Settings(r.db, r.charset, r.collation, vs)  BY <1>1 DEF AreSettings, Settings
<1>4. AreSettings(Asked(r))  BY <1>2, <1>3, SettingsAre
<1> QED  BY <1>3, <1>4 DEF vs

\* The settings of a new connection (NewDirectConnection).
LEMMA FreshAre == AreSettings(FreshSettings)
<1>1. Unsets = [v \in Variables |-> Unsets[v]]  BY DEF Unsets
<1> QED  BY <1>1, SettingsAre DEF FreshSettings

\* A new connection agrees with its server.
LEMMA FreshAgree ==
    /\ AreSettings(FreshSettings) /\ Coded(FreshSettings)
    /\ AreSettings(Asked(FreshSettings))
    /\ Agree(FreshSettings, Asked(FreshSettings), "clean")
<1>1. AreSettings(FreshSettings) /\ AreSettings(Asked(FreshSettings))  BY FreshAre, AskedAre, Zenon
<1>2. Coded(FreshSettings)  BY CharsetsAgree DEF Coded, FreshSettings, Settings
<1>3. Asked(FreshSettings).db = FreshSettings.db
  <2> DEFINE r == FreshSettings
             vs == [v \in Variables |-> IF r.variables[v] = Unset THEN Default ELSE r.variables[v]]
  <2>1. Asked(r) = Settings(r.db, r.charset, r.collation, vs)  BY <1>1, AskedAre, Zenon
  <2> HIDE DEF r, vs
  <2>2. Asked(r).db = r.db  BY <2>1 DEF Settings
  <2> QED  BY <2>2 DEF r
<1> QED  BY <1>1, <1>2, <1>3, Zenon DEF Agree, Histories

\* No statement has run yet.
LEMMA NoneJustMet == ASSUME svMet = NoneMet PROVE JustMet
BY DEF NoneMet, JustMet, Excused

\* Sessions and connections start with the defaults.
LEMMA SettingsInitInv == SettingsInit => SettingsInv
<1> SUFFICES ASSUME SettingsInit PROVE SettingsInv
  OBVIOUS
<1>1. PICK d \in DBs \cup {NoDB}, l \in CollationNames :
        svSession = [s \in SettingSessions |-> Settings(d, CollationNameToCharset[l], l, Unsets)]
  BY DEF SettingsInit
<1>2. Unsets = [v \in Variables |-> Unsets[v]]  BY DEF Unsets
<1>3. AreSettings(Settings(d, CollationNameToCharset[l], l, Unsets))  BY <1>2, SettingsAre
<1>4. Coded(Settings(d, CollationNameToCharset[l], l, Unsets))  BY DEF Coded, Settings
<1>5. SessionsKept  BY <1>1, <1>3, <1>4, Zenon DEF SessionsKept
<1>6. /\ svConn = [c \in Conns |-> Pooled(FreshSettings)]
      /\ svServer = [c \in Conns |-> Asked(FreshSettings)]
      /\ svSince = [c \in Conns |-> "clean"]
  BY DEF SettingsInit, Pooled
<1>7. \A c \in Conns : svConn[c].settings = FreshSettings /\ svServer[c] = Asked(FreshSettings) /\ svSince[c] = "clean"
  BY <1>6 DEF Pooled
<1>8. /\ svConn = [c \in Conns |-> Pooled(svConn[c].settings)]
      /\ svServer = [c \in Conns |-> svServer[c]] /\ svSince = [c \in Conns |-> svSince[c]]
  BY <1>6, <1>7
<1>9. ConnsKept  BY <1>7, <1>8, FreshAgree, Zenon DEF ConnsKept
<1>10. ClosedKept  BY <1>7, Zenon DEF SettingsInit, ClosedKept
<1>11. JustMet  BY NoneJustMet DEF SettingsInit
<1> QED  BY <1>5, <1>9, <1>10, <1>11 DEF SettingsInv

(* A step that changes one session's settings, and no connection.          *)
LEMMA ChangedInv ==
    ASSUME SettingsInv, NEW s \in SettingSessions, NEW new, AreSettings(new), Coded(new), Changed(s, new)
    PROVE  SettingsInv'
<1>1. /\ svSession' = [svSession EXCEPT ![s] = new]
      /\ UNCHANGED <<svConn, svServer, svHolder, svClosed, svSince>> /\ svMet' = NoneMet
  BY DEF Changed
<1>2. SessionsKept /\ ConnsKept /\ ClosedKept  BY DEF SettingsInv
<1>3. svSession' = [x \in SettingSessions |-> IF x = s THEN new ELSE svSession[x]]
  BY <1>1, <1>2 DEF SessionsKept
<1>4. SessionsKept'  BY <1>2, <1>3, Zenon DEF SessionsKept
<1>5. ConnsKept' /\ ClosedKept'  BY <1>1, <1>2 DEF ConnsKept, ClosedKept
<1>6. JustMet'  BY <1>1 DEF NoneMet, JustMet, Excused
<1> QED  BY <1>4, <1>5, <1>6 DEF SettingsInv

\* USE and SET change what the session wants and reach no server yet.
LEMMA SetInv ==
    ASSUME SettingsInv, NEW s \in SettingSessions,
           \/ \E d \in DBs : handleUseDB(s, d)
           \/ \E charset \in Charsets : SetCharacterSet(s, charset)
           \/ \E charset \in Charsets, collation \in CollationNames : SetNamesCollate(s, charset, collation)
           \/ \E v \in Variables, value \in Valid \cup Invalid \cup {Default} : SetSessionVariable(s, v, value)
    PROVE  SettingsInv'
<1> DEFINE r == svSession[s]
<1>1. AreSettings(r) /\ Coded(r)  BY DEF SettingsInv, SessionsKept
<1>2. PICK new : Changed(s, new) /\ AreSettings(new) /\ Coded(new)
  <2>1. CASE \E d \in DBs : handleUseDB(s, d)
    <3>1. PICK d \in DBs : Changed(s, [r EXCEPT !.db = d])  BY <2>1 DEF handleUseDB
    <3>2. [r EXCEPT !.db = d] = Settings(d, r.charset, r.collation, r.variables)
      BY <1>1 DEF AreSettings, Settings
    <3>3. Coded(Settings(d, r.charset, r.collation, r.variables))  BY <1>1 DEF Coded, Settings
    <3>4. AreSettings(Settings(d, r.charset, r.collation, r.variables))  BY <1>1, SettingsAre DEF AreSettings
    <3> QED  BY <3>1, <3>2, <3>3, <3>4, Zenon
  <2>2. ASSUME NEW h, NEW l, h = CollationNameToCharset[l], Changed(s, [r EXCEPT !.charset = h, !.collation = l])
        PROVE  \E new : Changed(s, new) /\ AreSettings(new) /\ Coded(new)
    <3>1. [r EXCEPT !.charset = h, !.collation = l] = Settings(r.db, h, l, r.variables)
      BY <1>1, Recoded, Zenon
    <3>2. AreSettings(Settings(r.db, h, l, r.variables))  BY <1>1, SettingsAre DEF AreSettings
    <3>3. Coded(Settings(r.db, h, l, r.variables))  BY <2>2 DEF Coded, Settings
    <3> QED  BY <3>1, <3>2, <3>3, <2>2, Zenon
  <2>3. CASE \E charset \in Charsets : SetCharacterSet(s, charset)
    BY <2>3, <2>2, CharsetsAgree, Zenon DEF SetCharacterSet
  <2>4. CASE \E charset \in Charsets, collation \in CollationNames : SetNamesCollate(s, charset, collation)
    BY <2>4, <2>2, Zenon DEF SetNamesCollate
  <2>5. CASE \E v \in Variables, value \in Valid \cup Invalid \cup {Default} : SetSessionVariable(s, v, value)
    <3>1. PICK v \in Variables, value \in Valid \cup Invalid \cup {Default} : SetSessionVariable(s, v, value)
      BY <2>5
    <3> DEFINE vs == IF value = Default THEN VariablesDelete(r.variables, v)
                     ELSE VariablesSet(r.variables, v, value)
    <3>2. Changed(s, [r EXCEPT !.variables = vs])  BY <3>1 DEF SetSessionVariable
    <3>3. vs = [x \in Variables |-> vs[x]]
      BY <1>1, Zenon DEF AreSettings, VariablesDelete, VariablesSet
    <3> HIDE DEF vs
    <3>4. [r EXCEPT !.variables = vs] = Settings(r.db, r.charset, r.collation, vs)
      BY <1>1 DEF AreSettings, Settings
    <3>5. Coded(Settings(r.db, r.charset, r.collation, vs))  BY <1>1 DEF Coded, Settings
    <3> QED  BY <3>2, <3>3, <3>4, <3>5, SettingsAre
  <2> QED  BY <2>1, <2>3, <2>4, <2>5
<1> QED  BY <1>2, ChangedInv

(* The variables that are set in src and not in dst.                       *)
Off(src, dst) == {v \in Variables : src[v] # Unset /\ dst[v] = Unset}

\* What is left to be unset, replaced.
LEMMA Unuse ==
    ASSUME NEW a, NEW b, NEW u
    PROVE  [[settings |-> a, unused |-> b] EXCEPT !.unused = u] = [settings |-> a, unused |-> u]
OBVIOUS

(* SetEqualsWith leaves the variables of the session and, to be unset, the *)
(* others that were set; nothing to write means that they were the same.   *)
LEMMA VariablesTaken ==
    ASSUME NEW x, AreSettings(x), NEW dst, dst = [v \in Variables |-> dst[v]]
    PROVE  LET r == SetEqualsWith(Pooled(x), dst) IN
           /\ r.conn = [settings |-> Settings(x.db, x.charset, x.collation, dst),
                        unused |-> Off(x.variables, dst)]
           /\ ~r.changed => x.variables = dst
<1> DEFINE src == x.variables
           IsSet(vs) == {v \in Variables : vs[v] # Unset}
           own == Pooled(x)
           y == Settings(x.db, x.charset, x.collation, dst)
<1>1. src = [v \in Variables |-> src[v]] /\ own.settings = x /\ own.unused = {}
  BY DEF AreSettings, Pooled
<1>2. [own EXCEPT !.settings.variables = dst] = [settings |-> y, unused |-> {}]
  <2>1. [x EXCEPT !.variables = dst] = y  BY DEF AreSettings, Settings
  <2>2. [own EXCEPT !.settings.variables = dst] = [settings |-> [x EXCEPT !.variables = dst], unused |-> {}]
    BY DEF Pooled
  <2> QED  BY <2>1, <2>2
<1>3. \A u : [own EXCEPT !.settings.variables = dst, !.unused = u] = [settings |-> y, unused |-> u]
  <2> TAKE u
  <2>1. [own EXCEPT !.settings.variables = dst, !.unused = u]
          = [[own EXCEPT !.settings.variables = dst] EXCEPT !.unused = u]
    OBVIOUS
  <2>2. [[settings |-> y, unused |-> {}] EXCEPT !.unused = u] = [settings |-> y, unused |-> u]
    BY Unuse, Zenon
  <2> QED  BY <2>1, <2>2, <1>2, Zenon
<1> DEFINE r == SetEqualsWith(own, dst)
           z == [settings |-> y, unused |-> Off(src, dst)]
<1> SUFFICES r.conn = z /\ (~r.changed => src = dst)
  OBVIOUS
<1>4. CASE IsSet(src) = {} /\ IsSet(dst) # {}
  <2>1. SetEqualsWith(own, dst) = [changed |-> TRUE, conn |-> [own EXCEPT !.settings.variables = dst]]
    BY <1>1, <1>4 DEF SetEqualsWith
  <2>2. Off(src, dst) = {}  BY <1>4 DEF Off
  <2>3. r = [changed |-> TRUE, conn |-> z]  BY <2>1, <2>2, <1>2, Zenon
  <2> HIDE DEF r, z
  <2> QED  BY <2>3
<1>5. CASE IsSet(src) # {} /\ IsSet(dst) = {}
  <2>1. dst = Unsets  BY <1>5 DEF Unsets
  <2>2. IsSet(src) = Off(src, dst)  BY <1>5 DEF Off
  <2>3. SetEqualsWith(own, dst)
          = [changed |-> TRUE, conn |-> [own EXCEPT !.settings.variables = Unsets,
                                                    !.unused = own.unused \cup IsSet(src)]]
    BY <1>1, <1>5, Zenon DEF SetEqualsWith
  <2>4. own.unused \cup IsSet(src) = Off(src, dst)  BY <1>1, <2>2
  <2>5. r = [changed |-> TRUE, conn |-> z]  BY <2>1, <2>3, <2>4, <1>3, Zenon
  <2> HIDE DEF r, z
  <2> QED  BY <2>5
<1>6. CASE ~(IsSet(src) = {} /\ IsSet(dst) # {}) /\ ~(IsSet(src) # {} /\ IsSet(dst) = {})
  <2>1. SetEqualsWith(own, dst)
          = [changed |-> src # dst,
             conn |-> [own EXCEPT !.settings.variables = dst,
                                  !.unused = own.unused \cup (IsSet(src) \ IsSet(dst))]]
    BY <1>1, <1>6, Zenon DEF SetEqualsWith
  <2>2. own.unused \cup (IsSet(src) \ IsSet(dst)) = Off(src, dst)  BY <1>1 DEF Off
  <2>3. r = [changed |-> src # dst, conn |-> z]  BY <2>1, <2>2, <1>3, Zenon
  <2> DEFINE differ == src # dst
  <2>4. r = [changed |-> differ, conn |-> z]  BY <2>3
  <2> HIDE DEF r, z, differ
  <2>5. r.conn = z /\ r.changed = differ  BY <2>4
  <2>6. ~r.changed => ~differ  BY <2>5, Zenon
  <2> QED  BY <2>5, <2>6 DEF differ
<1> QED  BY <1>4, <1>5, <1>6

(* A connection record, with other settings.                               *)
LEMMA Repool ==
    ASSUME NEW x, NEW y
    PROVE  [Pooled(x) EXCEPT !.settings = y] = Pooled(y)
BY DEF Pooled

\* UseDB changes the database of a connection.
LEMMA DBTaken ==
    ASSUME NEW x, AreSettings(x), NEW d
    PROVE  UseDB(Pooled(x), d) = Pooled(Settings(d, x.charset, x.collation, x.variables))
<1>1. [x EXCEPT !.db = d] = Settings(d, x.charset, x.collation, x.variables)  BY DEF AreSettings, Settings
<1>2. Pooled(x).settings = x  BY DEF Pooled
<1>3. UseDB(Pooled(x), d) = [Pooled(x) EXCEPT !.settings = [Pooled(x).settings EXCEPT !.db = d]]
  BY DEF UseDB
<1> QED  BY <1>1, <1>2, <1>3, Repool, ZenonT(40)

\* SetCharset changes character set and collation, and tells whether they were others.
LEMMA CharsetTaken ==
    ASSUME NEW x, AreSettings(x), NEW h, NEW l
    PROVE  /\ SetCharset(Pooled(x), h, l).conn = Pooled(Settings(x.db, h, l, x.variables))
           /\ SetCharset(Pooled(x), h, l).changed = (x.charset # h \/ x.collation # l)
<1> DEFINE y == Settings(x.db, h, x.collation, x.variables)
           z == Settings(x.db, h, l, x.variables)
           own == Pooled(x)
           conn == [own EXCEPT !.settings.charset = h, !.settings.collation = l]
           changed == x.charset # h \/ x.collation # l
<1>1. [x EXCEPT !.charset = h] = y /\ [y EXCEPT !.collation = l] = z  BY DEF AreSettings, Settings
<1>2. own.settings = x /\ Pooled(y).settings = y  BY DEF Pooled
<1>3. [own EXCEPT !.settings.charset = h] = [own EXCEPT !.settings = [own.settings EXCEPT !.charset = h]]
  OBVIOUS
<1>4. [own EXCEPT !.settings.charset = h] = Pooled(y)
  <2>1. [own.settings EXCEPT !.charset = h] = y  BY <1>1, <1>2
  <2>2. [own EXCEPT !.settings = y] = Pooled(y)
    <3> HIDE DEF y
    <3> QED  BY Repool, Zenon
  <2> HIDE DEF own, y
  <2> QED  BY <1>3, <2>1, <2>2, Zenon
<1>5. conn = [Pooled(y) EXCEPT !.settings.collation = l]  BY <1>4, Zenon
<1> HIDE DEF y, z
<1>6. [Pooled(y) EXCEPT !.settings.collation = l] = [Pooled(y) EXCEPT !.settings = z]  BY <1>1, <1>2
<1>7. conn = Pooled(z)  BY <1>5, <1>6, Repool
<1>8. SetCharset(own, h, l) = [changed |-> changed, conn |-> conn]  BY <1>2, Zenon DEF SetCharset
<1> HIDE DEF conn, changed
<1>9. SetCharset(own, h, l).conn = conn /\ SetCharset(own, h, l).changed = changed  BY <1>8
<1> QED  BY <1>7, <1>9, Zenon DEF changed, z

(* What the SET statement makes of a server's variables: off is unset, and *)
(* the others are set where vs sets them.                                  *)
Rewritten(vs, off, old) ==
  [v \in Variables |-> CASE v \in off -> Default
                        [] v \notin off /\ vs[v] # Unset -> vs[v]
                        [] OTHER -> old[v]]

\* The one SET statement writes the variables set and unsets those no longer used.
LEMMA ServerTakes ==
    ASSUME NEW y, NEW srv, AreSettings(srv), NEW off
    PROVE  Written([settings |-> y, unused |-> off], srv)
             = Settings(srv.db, y.charset, y.collation, Rewritten(y.variables, off, srv.variables))
<1> DEFINE own == [settings |-> y, unused |-> off]
           vs == Rewritten(y.variables, off, srv.variables)
<1>1. own.settings = y /\ own.unused = off  OBVIOUS
<1> HIDE DEF own
<1>2. Written(own, srv) = [srv EXCEPT !.charset = y.charset, !.collation = y.collation, !.variables = vs]
  BY <1>1 DEF Written, Rewritten
<1> HIDE DEF vs
<1>3. [srv EXCEPT !.charset = y.charset, !.collation = y.collation]
        = Settings(srv.db, y.charset, y.collation, srv.variables)
  BY Recoded, Zenon
<1>4. [srv EXCEPT !.charset = y.charset, !.collation = y.collation, !.variables = vs]
        = [[srv EXCEPT !.charset = y.charset, !.collation = y.collation] EXCEPT !.variables = vs]
  OBVIOUS
<1>5. [Settings(srv.db, y.charset, y.collation, srv.variables) EXCEPT !.variables = vs]
        = Settings(srv.db, y.charset, y.collation, vs)
  BY DEF Settings
<1>6. Written(own, srv) = Settings(srv.db, y.charset, y.collation, vs)
  BY <1>2, <1>3, <1>4, <1>5, Zenon
<1> QED  BY <1>6 DEF own, vs

(* The settings x, with d for the database and those of want for the rest. *)
Met(x, d, want) == Settings(d, want.charset, want.collation, want.variables)

(* Nothing has to be written where the session asks for what is held.      *)
Same(x, want) == x.charset = want.charset /\ x.collation = want.collation /\ x.variables = want.variables

\* y are settings, in the database d, with the other fields of want.
IsMet(y, d, want) ==
  /\ y = Settings(d, want.charset, want.collation, want.variables)
  /\ AreSettings(y) /\ Coded(y)
  /\ y.charset = want.charset /\ y.collation = want.collation /\ y.variables = want.variables /\ y.db = d

\* The session's settings on a connection are settings, with the session's fields.
LEMMA MetAre ==
    ASSUME NEW x, NEW d, NEW want, AreSettings(want), Coded(want)
    PROVE  IsMet(Met(x, d, want), d, want)
<1> DEFINE y == Met(x, d, want)
<1>1. y = Settings(d, want.charset, want.collation, want.variables) /\ AreSettings(y)
  BY SettingsAre DEF Met, AreSettings
<1>2. y.charset = want.charset /\ y.collation = want.collation /\ y.variables = want.variables /\ y.db = d
  BY <1>1 DEF Settings
<1>3. Coded(y)  BY <1>2 DEF Coded
<1> HIDE DEF y
<1>4. IsMet(y, d, want)  BY <1>1, <1>2, <1>3, Zenon DEF IsMet
<1> QED  BY <1>4 DEF y

(* What initBackendConn writes to a server, of which a connection holds x: *)
(* it has the session's settings afterwards, if the variables that the     *)
(* connection holds to be unset were at their defaults.                    *)
LEMMA WriteMeets ==
    ASSUME NEW x, AreSettings(x), NEW want, AreSettings(want), Coded(want), NEW d,
           NEW srv, AreSettings(srv), srv.db = d,
           \A v \in Variables : x.variables[v] = Unset => srv.variables[v] = Default
    PROVE  Written([settings |-> Met(x, d, want), unused |-> Off(x.variables, want.variables)], srv)
             = Asked(Met(x, d, want))
<1> DEFINE y == Met(x, d, want)
           off == Off(x.variables, want.variables)
           ask(vs) == [v \in Variables |-> IF vs[v] = Unset THEN Default ELSE vs[v]]
           vs == Rewritten(want.variables, off, srv.variables)
<1>1. /\ AreSettings(y)
      /\ y.charset = want.charset /\ y.collation = want.collation /\ y.variables = want.variables /\ y.db = d
  <2>1. IsMet(y, d, want)  BY MetAre, Zenon
  <2> HIDE DEF y
  <2> QED  BY <2>1, Zenon DEF IsMet
<1> HIDE DEF y
<1>2. Asked(y) = Settings(d, want.charset, want.collation, ask(want.variables))  BY <1>1, AskedAre
<1>3. Written([settings |-> y, unused |-> off], srv) = Settings(d, want.charset, want.collation, vs)
  <2>1. Written([settings |-> y, unused |-> off], srv)
          = Settings(srv.db, y.charset, y.collation, Rewritten(y.variables, off, srv.variables))
    BY ServerTakes, Zenon
  <2> QED  BY <2>1, <1>1
<1>4. ASSUME NEW v \in Variables PROVE vs[v] = ask(want.variables)[v]
  <2>1. CASE want.variables[v] # Unset
    <3>1. v \notin off  BY <2>1 DEF Off
    <3> QED  BY <3>1, <2>1 DEF Rewritten
  <2>2. CASE want.variables[v] = Unset /\ x.variables[v] # Unset
    <3>1. v \in off  BY <2>2 DEF Off
    <3> QED  BY <3>1, <2>2 DEF Rewritten
  <2>3. CASE want.variables[v] = Unset /\ x.variables[v] = Unset
    <3>1. v \notin off  BY <2>3 DEF Off
    <3> QED  BY <3>1, <2>3 DEF Rewritten
  <2> QED  BY <2>1, <2>2, <2>3
<1>5. vs = ask(want.variables)  BY <1>4 DEF Rewritten
<1> HIDE DEF vs, ask
<1>6. Written([settings |-> y, unused |-> off], srv) = Asked(y)  BY <1>2, <1>3, <1>5
<1> QED  BY <1>6 DEF y

\* A server that has what x asks for, in the database d, has what x with d asks for.
LEMMA InDatabase ==
    ASSUME NEW x, AreSettings(x), NEW d
    PROVE  [Asked(x) EXCEPT !.db = d] = Asked(Settings(d, x.charset, x.collation, x.variables))
<1> DEFINE vs == [v \in Variables |-> IF x.variables[v] = Unset THEN Default ELSE x.variables[v]]
           z == Settings(d, x.charset, x.collation, x.variables)
<1>1. AreSettings(z) /\ z.db = d /\ z.charset = x.charset /\ z.collation = x.collation /\ z.variables = x.variables
  BY SettingsAre DEF AreSettings, Settings
<1>2. Asked(x) = Settings(x.db, x.charset, x.collation, vs)  BY AskedAre, Zenon
<1> HIDE DEF z
<1>3. Asked(z) = Settings(d, x.charset, x.collation, vs)  BY <1>1, AskedAre
<1> HIDE DEF vs
<1>4. [Asked(x) EXCEPT !.db = d] = Asked(z)  BY <1>2, <1>3 DEF Settings
<1> QED  BY <1>4 DEF z

\* A server with z differs from what the session asks for at most in fs, when it
\* agrees in the other fields.
LEMMA DiffersIn ==
    ASSUME NEW want, AreSettings(want), NEW z, z.db = want.db \/ want.db = NoDB, NEW fs,
           "charset" \in fs \/ z.charset = want.charset,
           "collation" \in fs \/ z.collation = want.collation,
           "variables" \in fs \/ z.variables = Asked(want).variables
    PROVE  Differs(Asked(want), z) \subseteq fs
<1> DEFINE vs == [v \in Variables |-> IF want.variables[v] = Unset THEN Default ELSE want.variables[v]]
           a == Asked(want)
<1>1. a = Settings(want.db, want.charset, want.collation, vs)  BY AskedAre, Zenon
<1> HIDE DEF vs
<1>2. /\ DOMAIN a = {"db", "charset", "collation", "variables"}
      /\ a.db = want.db /\ a.charset = want.charset /\ a.collation = want.collation
  BY <1>1 DEF Settings
<1> HIDE DEF a
<1>3. a = Asked(want)  BY DEF a
<1>4. ASSUME NEW f \in DOMAIN a, a[f] # z[f], ~(f = "db" /\ a.db = NoDB) PROVE f \in fs
  <2>1. CASE f = "db"  BY <1>2, <1>4, <2>1
  <2>2. CASE f = "charset"  BY <1>2, <1>4, <2>2
  <2>3. CASE f = "collation"  BY <1>2, <1>4, <2>3
  <2>4. CASE f = "variables"  BY <1>3, <1>4, <2>4
  <2> QED  BY <1>2, <1>4, <2>1, <2>2, <2>3, <2>4
<1> QED  BY <1>3, <1>4, Zenon DEF Differs

(* What initBackendConn makes of a server that has srv set, and of the     *)
(* history of the connection that holds x.                                 *)
Taken(x, d, want, srv, write) ==
  IF write THEN Written([settings |-> Met(x, d, want), unused |-> Off(x.variables, want.variables)], srv) ELSE srv
Now(since, write) == IF write /\ since = "reconnected" THEN "clean" ELSE since

(* A connection that agrees with its server, as far as its history allows, *)
(* still does when it has taken over the settings of a session, and the    *)
(* server has what the session asks for, as far as the history allows.     *)
LEMMA TakenAgrees ==
    ASSUME NEW x, AreSettings(x), NEW want, AreSettings(want), Coded(want),
           NEW d, d = want.db \/ want.db = NoDB,
           NEW old, AreSettings(old), NEW since, Agree(x, old, since),
           NEW srv, srv = [old EXCEPT !.db = d],
           NEW write, write \in BOOLEAN, ~write => Same(x, want)
    PROVE  LET z == Taken(x, d, want, srv, write) IN
           /\ AreSettings(srv) /\ AreSettings(z)
           /\ Agree(Met(x, d, want), z, Now(since, write))
           /\ Differs(Asked(want), z) \subseteq Excused(Now(since, write))
<1> DEFINE y == Met(x, d, want)
           z == Taken(x, d, want, srv, write)
           now == Now(since, write)
           off == Off(x.variables, want.variables)
<1>1. /\ y = Settings(d, want.charset, want.collation, want.variables)
      /\ AreSettings(y) /\ Coded(y)
      /\ y.charset = want.charset /\ y.collation = want.collation /\ y.variables = want.variables /\ y.db = d
  <2>1. IsMet(y, d, want)  BY MetAre, Zenon
  <2> HIDE DEF y
  <2> QED  BY <2>1, Zenon DEF IsMet
<1>2. /\ srv = Settings(d, old.charset, old.collation, old.variables)
      /\ srv.db = d /\ srv.variables = old.variables
  BY DEF AreSettings, Settings
<1>3. AreSettings(srv)  BY <1>2, SettingsAre DEF AreSettings
<1>4. AreSettings(z) /\ z.db = d
  <2>1. CASE ~write  BY <1>2, <1>3, <2>1 DEF Taken
  <2>2. CASE write
    <3> DEFINE vs == Rewritten(y.variables, off, srv.variables)
    <3>1. z = Written([settings |-> y, unused |-> off], srv)  BY <2>2 DEF Taken
    <3> HIDE DEF y, z, off
    <3>2. z = Settings(d, y.charset, y.collation, vs)  BY <1>2, <1>3, <3>1, ServerTakes, Zenon
    <3>3. vs = [v \in Variables |-> vs[v]]  BY DEF Rewritten
    <3> HIDE DEF vs
    <3> QED  BY <3>2, <3>3, SettingsAre DEF Settings
  <2> QED  BY <2>1, <2>2
<1>5. since \in Histories /\ (since = "clean" => old = Asked(x)) /\ (since = "reconnected" => old = Asked(Bare(x)))
  BY DEF Agree
<1>6. AreSettings(Bare(x))
  <2>1. Unsets = [v \in Variables |-> Unsets[v]]  BY DEF Unsets
  <2> QED  BY <2>1, SettingsAre DEF Bare
<1>7. CASE since = "clean" \/ (since = "reconnected" /\ write)
  <2>1. now = "clean"  BY <1>7, Zenon DEF Now
  <2>2. z = Asked(y)
    <3>1. CASE write
      <4>1. ASSUME NEW v \in Variables, x.variables[v] = Unset PROVE srv.variables[v] = Default
        <5>1. CASE since = "clean"
          <6> DEFINE vs == [w \in Variables |-> IF x.variables[w] = Unset THEN Default ELSE x.variables[w]]
          <6>1. old = Settings(x.db, x.charset, x.collation, vs)  BY <1>5, <5>1, AskedAre, Zenon
          <6>2. vs[v] = Default  BY <4>1
          <6> HIDE DEF vs
          <6>3. old.variables = vs  BY <6>1 DEF Settings
          <6> QED  BY <6>2, <6>3, <1>2
        <5>2. CASE since = "reconnected"
          <6> DEFINE b == Bare(x)
                     vs == [w \in Variables |-> IF b.variables[w] = Unset THEN Default ELSE b.variables[w]]
          <6>1. old = Settings(b.db, b.charset, b.collation, vs)  BY <1>5, <1>6, <5>2, AskedAre, Zenon
          <6>2. b.variables = Unsets  BY DEF Bare, Settings
          <6>3. vs[v] = Default  BY <6>2 DEF Unsets
          <6> HIDE DEF vs, b
          <6>4. old.variables = vs  BY <6>1 DEF Settings
          <6> QED  BY <6>3, <6>4, <1>2
        <5> QED  BY <1>7, <5>1, <5>2
      <4> HIDE DEF y, off
      <4>2. Written([settings |-> Met(x, d, want), unused |-> Off(x.variables, want.variables)], srv)
              = Asked(Met(x, d, want))
        BY <4>1, <1>2, <1>3, WriteMeets, Zenon
      <4> QED  BY <3>1, <4>2, Zenon DEF Taken, y
    <3>2. CASE ~write
      <4>1. old = Asked(x) /\ Same(x, want)  BY <1>5, <1>7, <3>2
      <4>2. srv = Asked(Settings(d, x.charset, x.collation, x.variables))  BY <4>1, InDatabase
      <4>3. Settings(d, x.charset, x.collation, x.variables) = y  BY <1>1, <4>1 DEF Same
      <4> HIDE DEF y
      <4> QED  BY <3>2, <4>2, <4>3 DEF Taken
    <3> QED  BY <3>1, <3>2
  <2>3. Agree(y, z, now)
    <3> HIDE DEF y, z, now
    <3> QED  BY <2>1, <2>2, <1>1, <1>4 DEF Agree, Histories
  <2>4. Differs(Asked(want), z) \subseteq {}
    <3> DEFINE vs == [w \in Variables |-> IF want.variables[w] = Unset THEN Default ELSE want.variables[w]]
    <3> HIDE DEF y, z
    <3>1. Asked(want) = Settings(want.db, want.charset, want.collation, vs)  BY AskedAre, Zenon
    <3>2. Asked(y) = Settings(d, want.charset, want.collation, vs)  BY <1>1, AskedAre
    <3> HIDE DEF vs
    <3>3. z.charset = want.charset /\ z.collation = want.collation /\ z.variables = Asked(want).variables
      BY <2>2, <3>1, <3>2 DEF Settings
    <3> QED  BY <3>3, <1>4, DiffersIn, Zenon
  <2>5. Excused(now) = {}  BY <2>1 DEF Excused
  <2> QED  BY <2>3, <2>4, <2>5, <1>3, <1>4
<1>8. CASE since = "reconnected" /\ ~write
  <2>1. now = "reconnected" /\ z = srv /\ Same(x, want)  BY <1>8, Zenon DEF Now, Taken
  <2> DEFINE b == Bare(x)
  <2>2. b.charset = x.charset /\ b.collation = x.collation /\ b.variables = Unsets  BY DEF Bare, Settings
  <2>3. srv = Asked(Settings(d, b.charset, b.collation, b.variables))
    <3> HIDE DEF b
    <3>1. old = Asked(b) /\ AreSettings(b)  BY <1>5, <1>6, <1>8 DEF b
    <3> QED  BY <3>1, InDatabase
  <2>4. Settings(d, b.charset, b.collation, b.variables) = Bare(y)
    <3> HIDE DEF y, b
    <3> QED  BY <1>1, <2>1, <2>2 DEF Bare, Same
  <2>5. Agree(y, z, now)
    <3> HIDE DEF y, z, now, b
    <3> QED  BY <2>1, <2>3, <2>4, <1>1, <1>4 DEF Agree, Histories
  <2>6. Differs(Asked(want), z) \subseteq {"variables"}
    <3>1. AreSettings(Bare(y)) /\ Bare(y).charset = want.charset /\ Bare(y).collation = want.collation
      <4> HIDE DEF y
      <4>1. Unsets = [v \in Variables |-> Unsets[v]]  BY DEF Unsets
      <4> QED  BY <4>1, <1>1, SettingsAre DEF Bare, Settings
    <3> DEFINE e == Bare(y)
               vs == [w \in Variables |-> IF e.variables[w] = Unset THEN Default ELSE e.variables[w]]
    <3>2. Asked(e) = Settings(e.db, e.charset, e.collation, vs)  BY <3>1, AskedAre, Zenon
    <3> HIDE DEF vs, e, y, z, b
    <3>3. z = Asked(e)  BY <2>1, <2>3, <2>4 DEF e
    <3>4. z.charset = want.charset /\ z.collation = want.collation
      <4>1. e.charset = want.charset /\ e.collation = want.collation  BY <3>1 DEF e
      <4> QED  BY <4>1, <3>2, <3>3 DEF Settings
    <3> QED  BY <3>4, <1>4, DiffersIn, Zenon
  <2>7. Excused(now) = {"variables"}  BY <2>1 DEF Excused
  <2> QED  BY <2>5, <2>6, <2>7, <1>3, <1>4
<1>9. CASE since = "refused"
  <2>1. now = "refused"  BY <1>9, Zenon DEF Now
  <2>2. Agree(y, z, now)
    <3> HIDE DEF y, z, now
    <3> QED  BY <2>1, <1>1, <1>4 DEF Agree, Histories
  <2>3. Differs(Asked(want), z) \subseteq {"charset", "collation", "variables"}
    <3> DEFINE fs == {"charset", "collation", "variables"}
    <3>1. "charset" \in fs /\ "collation" \in fs /\ "variables" \in fs  OBVIOUS
    <3> HIDE DEF z, fs
    <3>2. Differs(Asked(want), z) \subseteq fs  BY <1>4, <3>1, DiffersIn, Zenon
    <3> QED  BY <3>2 DEF fs
  <2>4. Excused(now) = {"charset", "collation", "variables"}  BY <2>1 DEF Excused
  <2> QED  BY <2>2, <2>3, <2>4, <1>3, <1>4
<1> QED  BY <1>5, <1>7, <1>8, <1>9 DEF Histories

\* A connection that reconnects agrees with its new server, but for the variables.
LEMMA ReconnectAgrees ==
    ASSUME NEW x, AreSettings(x), Coded(x)
    PROVE  AreSettings(Reconnected(Pooled(x))) /\ Agree(x, Reconnected(Pooled(x)), "reconnected")
<1> DEFINE b == Bare(x)
           vs == [v \in Variables |-> IF b.variables[v] = Unset THEN Default ELSE b.variables[v]]
           z == Reconnected(Pooled(x))
<1>1. Pooled(x).settings = x  BY DEF Pooled
<1>2. z = Asked(b)  BY <1>1 DEF Reconnected, Bare, Coded
<1>3. AreSettings(b) /\ b.db = x.db
  <2>1. Unsets = [v \in Variables |-> Unsets[v]]  BY DEF Unsets
  <2> QED  BY <2>1, SettingsAre DEF Bare, Settings
<1>4. Asked(b) = Settings(b.db, b.charset, b.collation, vs) /\ AreSettings(Asked(b))  BY <1>3, AskedAre, Zenon
<1> HIDE DEF vs, z
<1>5. z.db = x.db
  <2> HIDE DEF b
  <2> QED  BY <1>2, <1>3, <1>4 DEF Settings
<1>6. Agree(x, z, "reconnected")  BY <1>2, <1>5 DEF Agree, Histories
<1> QED  BY <1>2, <1>4, <1>6 DEF z

(* A step that leaves connection c with the settings y, its server with z, *)
(* and the history since.                                                  *)
LEMMA ConnectionInv ==
    ASSUME ConnsKept, NEW c \in Conns, NEW y, AreSettings(y), Coded(y), NEW z, AreSettings(z),
           NEW since, Agree(y, z, since), Left(c, Pooled(y), z, since)
    PROVE  /\ ConnsKept'
           /\ svSince'[c] = since /\ \A o \in Conns \ {c} : svSince'[o] = svSince[o]
<1> USE DEF Left
<1>1. /\ svConn = [o \in Conns |-> Pooled(svConn[o].settings)]
      /\ svServer = [o \in Conns |-> svServer[o]] /\ svSince = [o \in Conns |-> svSince[o]]
  BY DEF ConnsKept
<1>2. /\ svConn'[c] = Pooled(y) /\ svServer'[c] = z /\ svSince'[c] = since
      /\ \A o \in Conns \ {c} : svConn'[o] = svConn[o] /\ svServer'[o] = svServer[o] /\ svSince'[o] = svSince[o]
      /\ svConn' = [o \in Conns |-> svConn'[o]] /\ svServer' = [o \in Conns |-> svServer'[o]]
      /\ svSince' = [o \in Conns |-> svSince'[o]]
  BY <1>1, Zenon
<1>3. svConn'[c].settings = y  BY <1>2 DEF Pooled
<1>4. \A o \in Conns : svConn'[o] = Pooled(svConn'[o].settings)  BY <1>1, <1>2, <1>3
<1>5. svConn' = [o \in Conns |-> Pooled(svConn'[o].settings)]  BY <1>2, <1>4
<1>6. ASSUME NEW o \in Conns
      PROVE  /\ AreSettings(svConn'[o].settings) /\ Coded(svConn'[o].settings) /\ AreSettings(svServer'[o])
             /\ Agree(svConn'[o].settings, svServer'[o], svSince'[o])
  <2>1. CASE o = c  BY <2>1, <1>2, <1>3
  <2>2. CASE o # c  BY <2>2, <1>2 DEF ConnsKept
  <2> QED  BY <2>1, <2>2
<1>7. ConnsKept'  BY <1>2, <1>5, <1>6, Zenon DEF ConnsKept
<1> QED  BY <1>2, <1>7

(* A session that uses a connection holds it; reconnecting closes it, and  *)
(* only what has reconnected may have that history.                        *)
LEMMA HeldInv ==
    ASSUME SettingsInv, NEW s \in SettingSessions, NEW c \in Conns,
           svHolder' = [svHolder EXCEPT ![c] = s],
           \A o \in Conns \ {c} : svSince'[o] = svSince[o],
           \/ svClosed' = svClosed \cup {c}
           \/ svClosed' = svClosed /\ (svSince'[c] = "reconnected" => svSince[c] = "reconnected")
    PROVE  ClosedKept'
<1>1. ClosedKept  BY DEF SettingsInv
<1>2. svHolder' = [o \in Conns |-> IF o = c THEN s ELSE svHolder[o]]  BY <1>1, Zenon DEF ClosedKept
<1>3. svHolder'[c] # NoOne  BY <1>2, NoOneIsNone
<1> QED  BY <1>1, <1>2, <1>3, Zenon DEF ClosedKept

\* initBackendConn brings the connection in line with the session before a statement,
\* whichever of USE and SET fails, and whatever breaks.
LEMMA ExecuteInv ==
    ASSUME SettingsInv, NEW s \in SettingSessions, NEW c \in Conns, NEW outcome,
           Execute(s, c, outcome)
    PROVE  SettingsInv'
<1> DEFINE want == svSession[s]
           x == svConn[c].settings
           mustUse == x.db # want.db /\ want.db # NoDB
           d == IF mustUse THEN want.db ELSE x.db
           used == IF mustUse THEN UseDB(svConn[c], want.db) ELSE svConn[c]
           inDB == [svServer[c] EXCEPT !.db = IF mustUse THEN want.db ELSE @]
           charset == SetCharset(used, want.charset, want.collation)
           variables == SetEqualsWith(charset.conn, want.variables)
           write == MustWrite(charset.changed, variables.changed)
           done == [variables.conn EXCEPT !.unused = IF write THEN {} ELSE @]
           server == IF write THEN Written(variables.conn, inDB) ELSE inDB
           since == IF write /\ svSince[c] = "reconnected" THEN "clean" ELSE svSince[c]
           off == Off(x.variables, want.variables)
           y == Met(x, d, want)
<1>1. SessionsKept /\ ConnsKept /\ ClosedKept /\ JustMet  BY DEF SettingsInv
<1>2. /\ AreSettings(want) /\ Coded(want)
      /\ svConn[c] = Pooled(x) /\ AreSettings(x) /\ Coded(x) /\ AreSettings(svServer[c])
      /\ Agree(x, svServer[c], svSince[c])
  BY <1>1 DEF SessionsKept, ConnsKept
<1>3. used = Pooled(Settings(d, x.charset, x.collation, x.variables))
  <2>1. CASE mustUse  BY <2>1, <1>2, DBTaken
  <2>2. CASE ~mustUse  BY <2>2, <1>2 DEF AreSettings
  <2> QED  BY <2>1, <2>2
<1> DEFINE u == Settings(d, x.charset, x.collation, x.variables)
           k == Settings(d, want.charset, want.collation, x.variables)
<1>4. /\ AreSettings(u) /\ AreSettings(k) /\ AreSettings(y) /\ Coded(y)
      /\ y = Settings(d, want.charset, want.collation, want.variables)
  <2>1. x.variables = [v \in Variables |-> x.variables[v]]  BY <1>2 DEF AreSettings
  <2> HIDE DEF d, want, x, y
  <2>2. AreSettings(u) /\ AreSettings(k)  BY <2>1, SettingsAre, Zenon
  <2>3. y = Settings(d, want.charset, want.collation, want.variables) /\ AreSettings(y) /\ Coded(y)
    <3>1. IsMet(y, d, want)  BY <1>2, MetAre, Zenon DEF y
    <3> QED  BY <3>1, Zenon DEF IsMet
  <2> QED  BY <2>2, <2>3
<1>5. /\ u.db = d /\ u.charset = x.charset /\ u.collation = x.collation /\ u.variables = x.variables
      /\ k.db = d /\ k.charset = want.charset /\ k.collation = want.collation /\ k.variables = x.variables
  BY DEF Settings
<1>6. /\ charset.conn = Pooled(k)
      /\ charset.changed = (x.charset # want.charset \/ x.collation # want.collation)
  <2> HIDE DEF d, want, x, used, u
  <2>1. /\ charset.conn = Pooled(Settings(u.db, want.charset, want.collation, u.variables))
        /\ charset.changed = (u.charset # want.charset \/ u.collation # want.collation)
    BY <1>3, <1>4, CharsetTaken DEF u
  <2> QED  BY <2>1, <1>5
<1>7. /\ variables.conn = [settings |-> y, unused |-> off]
      /\ ~variables.changed => x.variables = want.variables
  <2> HIDE DEF d, want, x, charset, k, y
  <2>1. want.variables = [v \in Variables |-> want.variables[v]]  BY <1>2 DEF AreSettings
  <2>2. LET r == SetEqualsWith(Pooled(k), want.variables) IN
        /\ r.conn = [settings |-> Settings(k.db, k.charset, k.collation, want.variables),
                     unused |-> Off(k.variables, want.variables)]
        /\ ~r.changed => k.variables = want.variables
    BY <1>4, <2>1, VariablesTaken, Zenon
  <2> QED  BY <2>2, <1>4, <1>5, <1>6
<1>8. ~write => Same(x, want)
  <2> HIDE DEF charset, variables, want, x
  <2> QED  BY <1>6, <1>7, Zenon DEF MustWrite, Same
<1>9. done = Pooled(y)
  <2> HIDE DEF variables, y, want, x
  <2>1. ~write => off = {}  BY <1>8 DEF Off, Same
  <2> HIDE DEF write, off
  <2>2. done = [settings |-> y, unused |-> IF write THEN {} ELSE off]  BY <1>7, Unuse
  <2> QED  BY <2>1, <2>2 DEF Pooled
<1>10. inDB = [svServer[c] EXCEPT !.db = d]
  <2>1. svServer[c].db = x.db  BY <1>2 DEF Agree
  <2> QED  BY <2>1
<1>11. /\ AreSettings(inDB) /\ AreSettings(server) /\ Agree(y, server, since)
       /\ Differs(Asked(want), server) \subseteq Excused(since)
  <2>1. d = want.db \/ want.db = NoDB  OBVIOUS
  <2>2. write \in BOOLEAN  BY Zenon DEF MustWrite
  <2>3. server = Taken(x, d, want, inDB, write)
    <3> HIDE DEF write, inDB, want, x, d, variables
    <3> QED  BY <1>7, Zenon DEF Taken, y
  <2>4. since = Now(svSince[c], write)  BY Zenon DEF Now
  <2> HIDE DEF write, inDB, want, x, d, variables, server, since
  <2> DEFINE z == Taken(x, d, want, inDB, write)
  <2>5. /\ AreSettings(inDB) /\ AreSettings(z) /\ Agree(Met(x, d, want), z, Now(svSince[c], write))
        /\ Differs(Asked(want), z) \subseteq Excused(Now(svSince[c], write))
    BY <1>2, <1>8, <1>10, <2>1, <2>2, TakenAgrees, Zenon
  <2> QED  BY <2>3, <2>4, <2>5
<1>12. inDB.db = d /\ y.db = d
  <2>1. y.db = d
    <3> HIDE DEF y, d, want
    <3> QED  BY <1>4 DEF Settings
  <2>2. svServer[c] = Settings(svServer[c].db, svServer[c].charset, svServer[c].collation, svServer[c].variables)
    BY <1>2 DEF AreSettings
  <2> HIDE DEF inDB, d, y
  <2> QED  BY <1>10, <2>1, <2>2 DEF Settings
<1>13. Agree(y, inDB, "refused")
  <2> HIDE DEF inDB, y, d
  <2> QED  BY <1>12 DEF Agree, Histories
<1>14. SessionsKept'
  <2>1. svSession' = svSession  BY Zenon DEF Execute
  <2> QED  BY <1>1, <2>1 DEF SessionsKept
<1>15. /\ svHolder' = [svHolder EXCEPT ![c] = s]
       /\ \/ UNCHANGED <<svConn, svServer, svClosed, svSince>> /\ svMet' = NoneMet
          \/ /\ Left(c, svConn[c], Reconnected(svConn[c]), "reconnected")
             /\ svClosed' = svClosed \cup {c} /\ svMet' = NoneMet
          \/ /\ Left(c, done, inDB, "refused")
             /\ svMet' = NoneMet /\ UNCHANGED svClosed
          \/ /\ Left(c, done, Reconnected(done), "reconnected")
             /\ svClosed' = svClosed \cup {c} /\ svMet' = NoneMet
          \/ /\ Left(c, done, server, since)
             /\ svMet' = [since |-> since, wrong |-> Differs(Asked(want), server)]
             /\ UNCHANGED svClosed
  BY Zenon DEF Execute
<1>16. since = "reconnected" => svSince[c] = "reconnected"  BY Zenon
<1> HIDE DEF done, inDB, server, want, x, y, since, write
<1>17. svMet' = NoneMet => JustMet'  BY DEF NoneMet, JustMet, Excused
<1>18. CASE UNCHANGED <<svConn, svServer, svClosed, svSince>> /\ svMet' = NoneMet
  <2>1. ConnsKept'  BY <1>1, <1>18 DEF ConnsKept
  <2>2. ClosedKept'  BY <1>15, <1>18, HeldInv, Zenon
  <2> QED  BY <2>1, <2>2, <1>14, <1>17, <1>18 DEF SettingsInv
<1>19. CASE /\ Left(c, svConn[c], Reconnected(svConn[c]), "reconnected")
            /\ svClosed' = svClosed \cup {c} /\ svMet' = NoneMet
  <2>1. Left(c, Pooled(x), Reconnected(Pooled(x)), "reconnected")  BY <1>2, <1>19
  <2>2. ConnsKept' /\ \A o \in Conns \ {c} : svSince'[o] = svSince[o]
    BY <1>1, <1>2, <2>1, ReconnectAgrees, ConnectionInv, Zenon
  <2>3. ClosedKept'  BY <1>15, <1>19, <2>2, HeldInv, Zenon
  <2> QED  BY <2>2, <2>3, <1>14, <1>17, <1>19 DEF SettingsInv
<1>20. CASE Left(c, done, inDB, "refused") /\ svMet' = NoneMet /\ UNCHANGED svClosed
  <2>1. /\ ConnsKept' /\ \A o \in Conns \ {c} : svSince'[o] = svSince[o]
        /\ svSince'[c] = "refused"
    <3>1. Left(c, Pooled(y), inDB, "refused")  BY <1>9, <1>20, Zenon
    <3>2. ConnsKept /\ AreSettings(y) /\ Coded(y) /\ AreSettings(inDB)  BY <1>1, <1>4, <1>11, Zenon
    <3> QED  BY <1>13, <3>1, <3>2, ConnectionInv, Zenon
  <2>2. ClosedKept'  BY <1>15, <1>20, <2>1, HeldInv, Zenon
  <2> QED  BY <2>1, <2>2, <1>14, <1>17, <1>20 DEF SettingsInv
<1>21. CASE /\ Left(c, done, Reconnected(done), "reconnected")
            /\ svClosed' = svClosed \cup {c} /\ svMet' = NoneMet
  <2>1. Left(c, Pooled(y), Reconnected(Pooled(y)), "reconnected")  BY <1>9, <1>21
  <2>2. ConnsKept' /\ \A o \in Conns \ {c} : svSince'[o] = svSince[o]
    BY <1>1, <1>4, <2>1, ReconnectAgrees, ConnectionInv, Zenon
  <2>3. ClosedKept'  BY <1>15, <1>21, <2>2, HeldInv, Zenon
  <2> QED  BY <2>2, <2>3, <1>14, <1>17, <1>21 DEF SettingsInv
<1>22. CASE /\ Left(c, done, server, since)
            /\ svMet' = [since |-> since, wrong |-> Differs(Asked(want), server)]
            /\ UNCHANGED svClosed
  <2>1. /\ ConnsKept' /\ \A o \in Conns \ {c} : svSince'[o] = svSince[o]
        /\ svSince'[c] = since
    <3>1. Left(c, Pooled(y), server, since)  BY <1>9, <1>22, Zenon
    <3>2. ConnsKept /\ AreSettings(y) /\ Coded(y) /\ AreSettings(server) /\ Agree(y, server, since)
      BY <1>1, <1>4, <1>11, Zenon
    <3> QED  BY <3>1, <3>2, ConnectionInv, Zenon
  <2>2. ClosedKept'  BY <1>15, <1>16, <1>22, <2>1, HeldInv, Zenon
  <2>3. svMet'.since = since /\ svMet'.wrong = Differs(Asked(want), server)  BY <1>22
  <2>4. JustMet'  BY <2>3, <1>11, Zenon DEF JustMet
  <2> QED  BY <2>1, <2>2, <2>4, <1>14 DEF SettingsInv
<1> QED  BY <1>15, <1>18, <1>19, <1>20, <1>21, <1>22

\* A connection that goes back to the pool, or is opened anew there, agrees with its server.
LEMMA PooledInv ==
    ASSUME SettingsInv, NEW c \in Conns, Recycle(c) \/ IdleClosed(c)
    PROVE  SettingsInv'
<1>1. SessionsKept /\ ConnsKept /\ ClosedKept  BY DEF SettingsInv
<1>2. svMet' = NoneMet /\ svSession' = svSession  BY Zenon DEF Recycle, IdleClosed
<1>3. SessionsKept' /\ JustMet'  BY <1>1, <1>2 DEF SessionsKept, NoneMet, JustMet, Excused
<1>4. /\ svHolder' = [svHolder EXCEPT ![c] = NoOne] \/ (svHolder[c] = NoOne /\ svHolder' = svHolder)
      /\ \/ NewDirectConnection(c)
         \/ c \notin svClosed /\ UNCHANGED <<svConn, svServer, svClosed, svSince>>
  BY Zenon DEF Recycle, IdleClosed
<1>5. \A o \in Conns \ {c} : svHolder'[o] = svHolder[o]  BY <1>1, <1>4, Zenon DEF ClosedKept
<1>6. svHolder' = [o \in Conns |-> svHolder'[o]]  BY <1>1, <1>4, Zenon DEF ClosedKept
<1>7. CASE NewDirectConnection(c)
  <2>1. Left(c, Pooled(FreshSettings), Asked(FreshSettings), "clean") /\ svClosed' = svClosed \ {c}
    BY <1>7 DEF NewDirectConnection, Pooled
  <2>2. /\ ConnsKept' /\ svSince'[c] = "clean"
        /\ \A o \in Conns \ {c} : svSince'[o] = svSince[o]
    BY <1>1, <2>1, FreshAgree, ConnectionInv, Zenon
  <2>3. ClosedKept'
    <3>1. ASSUME NEW o \in Conns
          PROVE  (svSince'[o] = "reconnected" => o \in svClosed') /\ (svHolder'[o] = NoOne => o \notin svClosed')
      <4>1. CASE o = c  BY <4>1, <2>1, <2>2
      <4>2. CASE o # c  BY <4>2, <1>1, <1>5, <2>1, <2>2, Zenon DEF ClosedKept
      <4> QED  BY <4>1, <4>2
    <3> QED  BY <1>6, <3>1, Zenon DEF ClosedKept
  <2> QED  BY <1>3, <2>2, <2>3 DEF SettingsInv
<1>8. CASE c \notin svClosed /\ UNCHANGED <<svConn, svServer, svClosed, svSince>>
  <2>1. ConnsKept'  BY <1>1, <1>8 DEF ConnsKept
  <2>2. ClosedKept'  BY <1>1, <1>5, <1>6, <1>8, Zenon DEF ClosedKept
  <2> QED  BY <1>3, <2>1, <2>2 DEF SettingsInv
<1> QED  BY <1>4, <1>7, <1>8

\* Every step of the sessions and connections keeps the invariant.
LEMMA SettingsNextInv == SettingsInv /\ [SettingsNext]_settingsVars => SettingsInv'
<1> SUFFICES ASSUME SettingsInv, [SettingsNext]_settingsVars PROVE SettingsInv'
  OBVIOUS
<1>1. CASE UNCHANGED settingsVars
  BY <1>1 DEF settingsVars, SettingsInv, SessionsKept, ConnsKept, ClosedKept, JustMet
<1>2. CASE \E c \in Conns : Recycle(c) \/ IdleClosed(c)  BY <1>2, PooledInv
<1>3. ASSUME NEW s \in SettingSessions,
             \E c \in Conns, outcome \in Outcomes : Execute(s, c, outcome)
      PROVE  SettingsInv'
  BY <1>3, ExecuteInv
<1> QED  BY <1>1, <1>2, <1>3, SetInv DEF SettingsNext

\* MetAsAsked: every statement meets a server with its session's settings, whatever
\* sessions used the connection before, but for what a refused SET and a reconnect
\* in the session's own transaction excuse, for any sessions, connections and variables.
THEOREM SettingsMet == SettingsSpec => []MetAsAsked
<1>1. SettingsInv => MetAsAsked  BY Zenon DEF SettingsInv, MetAsAsked, JustMet, ClosedKept
<1> QED  BY <1>1, SettingsInitInv, SettingsNextInv, PTL DEF SettingsSpec

-----------------------------------------------------------------------------
(* Changing the configuration, for any number of proxies, namespaces,      *)
(* versions and users, as long as one change is made at a time.  First the *)
(* user tables.                                                            *)

(* Table um agrees with a set of served versions: sv[n] is the version of  *)
(* n, Absent if n is not served.                                           *)
Agrees(um, sv) ==
    \A u \in Users :
        /\ \A n \in Names : sv[n] # Absent =>
             (um.userNamespaces[KeyOf(u)] = n <=> u \in UsersOf(n, sv[n]))
        /\ u[2] \in um.users[u[1]] <=> um.userNamespaces[KeyOf(u)] # None

\* A key holds one user name and one password, and gives them back (getUserKey).
LEMMA UserPairs ==
    /\ \A u \in Users : u = <<u[1], u[2]>> /\ KeyOf(u) \in Keys
                        /\ u[1] \in UserNames /\ u[2] \in Passwords
    /\ \A k \in Keys : getUserAndPasswordFromKey(k) \in Users /\ KeyOf(getUserAndPasswordFromKey(k)) = k
    /\ \A u, w \in Users : KeyOf(u) = KeyOf(w) => u = w
<1>1. \A u \in Users : KeyOf(u) \in Keys /\ u[1] \in UserNames /\ u[2] \in Passwords
  BY DEF Keys, UserNames, Passwords
<1>2. \A u \in Users : u = <<u[1], u[2]>>
  <2>1. \A k : getUserAndPasswordFromKey(k) = <<SubSeq(k, 1, 1), SubSeq(k, 2, 2)>>
    BY DEF getUserAndPasswordFromKey
  <2> QED  BY <2>1, ColonFree
<1>3. \A k \in Keys : getUserAndPasswordFromKey(k) \in Users /\ KeyOf(getUserAndPasswordFromKey(k)) = k
  BY ColonFree DEF Keys
<1>4. \A u, w \in Users : KeyOf(u) = KeyOf(w) => u = w  BY ColonFree
<1> QED  BY <1>1, <1>2, <1>3, <1>4

\* The operations on the user manager keep its type (user_manager).
LEMMA TablesTyped ==
    ASSUME NEW um \in UserManagers, NEW n \in Names, NEW v
    PROVE  /\ ClearNamespaceUsers(um, n) \in UserManagers
           /\ addNamespaceUsers(um, n, v) \in UserManagers
           /\ RebuildNamespaceUsers(um, n, v) \in UserManagers
<1>1. ASSUME NEW x \in UserManagers PROVE addNamespaceUsers(x, n, v) \in UserManagers
  <2>1. [k \in Keys |-> IF \E u \in UsersOf(n, v) : KeyOf(u) = k THEN n ELSE x.userNamespaces[k]]
          \in [Keys -> Names \cup {None}]
    BY DEF UserManagers
  <2>2. [u \in UserNames |-> x.users[u] \cup {p \in Passwords : <<u, p>> \in UsersOf(n, v)}]
          \in [UserNames -> SUBSET Passwords]
    BY DEF UserManagers
  <2> QED  BY <2>1, <2>2 DEF addNamespaceUsers, UserManagers
<1>2. ClearNamespaceUsers(um, n) \in UserManagers
  <2> DEFINE gone == {getUserAndPasswordFromKey(k) : k \in {k \in Keys : um.userNamespaces[k] = n}}
             kept(u) == IF \E g \in gone : g[1] = u /\ g[2] \notin um.users[u] THEN {}
                        ELSE {p \in um.users[u] : <<u, p>> \notin gone}
  <2>1. [k \in Keys |-> IF um.userNamespaces[k] = n THEN None ELSE um.userNamespaces[k]]
          \in [Keys -> Names \cup {None}]
    BY DEF UserManagers
  <2>2. \A u \in UserNames : kept(u) \in SUBSET Passwords  BY DEF UserManagers
  <2>3. [u \in UserNames |-> kept(u)] \in [UserNames -> SUBSET Passwords]  BY <2>2
  <2> QED  BY <2>1, <2>3 DEF ClearNamespaceUsers, UserManagers
<1> QED  BY <1>1, <1>2 DEF RebuildNamespaceUsers

(* Clearing takes exactly the users of n out of both maps.                 *)
LEMMA ClearUsers ==
    ASSUME NEW um \in UserManagers, NEW n \in Names, NEW sv, Agrees(um, sv)
    PROVE  LET c == ClearNamespaceUsers(um, n) IN
           \A u \in Users :
             /\ c.userNamespaces[KeyOf(u)] = IF um.userNamespaces[KeyOf(u)] = n THEN None
                                             ELSE um.userNamespaces[KeyOf(u)]
             /\ u[2] \in c.users[u[1]] <=> c.userNamespaces[KeyOf(u)] # None
<1> DEFINE c == ClearNamespaceUsers(um, n)
           gone == {getUserAndPasswordFromKey(k) : k \in {k \in Keys : um.userNamespaces[k] = n}}
           kept(u) == IF \E g \in gone : g[1] = u /\ g[2] \notin um.users[u] THEN {}
                      ELSE {p \in um.users[u] : <<u, p>> \notin gone}
<1>1. gone = {u \in Users : um.userNamespaces[KeyOf(u)] = n}
  BY UserPairs, ColonFree
<1>2. \A g \in gone : g[2] \in um.users[g[1]]
  BY <1>1, ManagerAssumption DEF Agrees
<1>3. \A u \in UserNames : c.users[u] = {p \in um.users[u] : <<u, p>> \notin gone}
  <2>1. \A u \in UserNames : c.users[u] = kept(u)  BY DEF ClearNamespaceUsers
  <2> QED  BY <1>2, <2>1, Zenon
<1>4. ASSUME NEW u \in Users
      PROVE  c.userNamespaces[KeyOf(u)] = IF um.userNamespaces[KeyOf(u)] = n THEN None
                                           ELSE um.userNamespaces[KeyOf(u)]
  <2>1. KeyOf(u) \in Keys  BY UserPairs
  <2> QED  BY <2>1 DEF ClearNamespaceUsers
<1>5. ASSUME NEW u \in Users
      PROVE  u[2] \in c.users[u[1]] <=> c.userNamespaces[KeyOf(u)] # None
  <2>1. u = <<u[1], u[2]>> /\ u[1] \in UserNames  BY UserPairs
  <2>2. u[2] \in c.users[u[1]] <=> u[2] \in um.users[u[1]] /\ u \notin gone  BY <1>3, <2>1
  <2>3. u[2] \in um.users[u[1]] <=> um.userNamespaces[KeyOf(u)] # None  BY DEF Agrees
  <2>4. u \in gone <=> um.userNamespaces[KeyOf(u)] = n  BY <1>1
  <2> HIDE DEF c, gone
  <2> QED  BY <1>4, <2>2, <2>3, <2>4, ManagerAssumption
<1> QED  BY <1>4, <1>5

\* Without the users of a namespace the tables agree with what is left.
LEMMA ClearAgrees ==
    ASSUME NEW um \in UserManagers, NEW n \in Names, NEW sv \in [Names -> Documents], Agrees(um, sv)
    PROVE  Agrees(ClearNamespaceUsers(um, n), [sv EXCEPT ![n] = Absent])
<1> DEFINE c == ClearNamespaceUsers(um, n)
           sw == [sv EXCEPT ![n] = Absent]
<1>1. \A u \in Users :
        /\ c.userNamespaces[KeyOf(u)] = IF um.userNamespaces[KeyOf(u)] = n THEN None
                                        ELSE um.userNamespaces[KeyOf(u)]
        /\ u[2] \in c.users[u[1]] <=> c.userNamespaces[KeyOf(u)] # None
  BY ClearUsers
<1> HIDE DEF c
<1>2. ASSUME NEW u \in Users, NEW w \in Names, sw[w] # Absent
      PROVE  c.userNamespaces[KeyOf(u)] = w <=> u \in UsersOf(w, sw[w])
  <2>1. w # n /\ sw[w] = sv[w] /\ sv[w] # Absent  BY <1>2
  <2>2. um.userNamespaces[KeyOf(u)] = w <=> u \in UsersOf(w, sv[w])  BY <2>1 DEF Agrees
  <2> QED  BY <1>1, <2>1, <2>2, ManagerAssumption
<1> QED  BY <1>1, <1>2 DEF Agrees, c

\* With the users of a new version the tables agree with that version.
LEMMA RebuildAgrees ==
    ASSUME NEW um \in UserManagers, NEW n \in Names, NEW v \in Versions,
           NEW sv \in [Names -> Documents], Agrees(um, sv)
    PROVE  Agrees(RebuildNamespaceUsers(um, n, v), [sv EXCEPT ![n] = v])
<1> DEFINE c == ClearNamespaceUsers(um, n)
           r == RebuildNamespaceUsers(um, n, v)
           sw == [sv EXCEPT ![n] = v]
<1>1. \A u \in Users :
        /\ c.userNamespaces[KeyOf(u)] = IF um.userNamespaces[KeyOf(u)] = n THEN None
                                        ELSE um.userNamespaces[KeyOf(u)]
        /\ u[2] \in c.users[u[1]] <=> c.userNamespaces[KeyOf(u)] # None
  BY ClearUsers
<1>2. UsersOf(n, v) \subseteq Users  BY ManagerAssumption
<1>3. ASSUME NEW u \in Users
      PROVE  /\ r.userNamespaces[KeyOf(u)] = IF u \in UsersOf(n, v) THEN n
                                              ELSE c.userNamespaces[KeyOf(u)]
             /\ u[2] \in r.users[u[1]] <=> u[2] \in c.users[u[1]] \/ u \in UsersOf(n, v)
  <2>1. KeyOf(u) \in Keys /\ u[1] \in UserNames /\ u[2] \in Passwords /\ u = <<u[1], u[2]>>
    BY UserPairs
  <2>2. (\E w \in UsersOf(n, v) : KeyOf(w) = KeyOf(u)) <=> u \in UsersOf(n, v)
    BY <1>2, UserPairs
  <2>3. r = addNamespaceUsers(c, n, v)  BY DEF RebuildNamespaceUsers
  <2> HIDE DEF c, r
  <2>4. r.userNamespaces[KeyOf(u)] = IF u \in UsersOf(n, v) THEN n ELSE c.userNamespaces[KeyOf(u)]
    BY <2>1, <2>2, <2>3 DEF addNamespaceUsers
  <2>5. u[2] \in r.users[u[1]] <=> u[2] \in c.users[u[1]] \/ u \in UsersOf(n, v)
    BY <2>1, <2>3 DEF addNamespaceUsers
  <2> QED  BY <2>4, <2>5
<1> HIDE DEF c, r
<1>4. ASSUME NEW u \in Users, NEW w \in Names, sw[w] # Absent
      PROVE  r.userNamespaces[KeyOf(u)] = w <=> u \in UsersOf(w, sw[w])
  <2>1. CASE w = n
    <3>1. sw[w] = v  BY <2>1
    <3>2. c.userNamespaces[KeyOf(u)] # n  BY <1>1, ManagerAssumption
    <3> QED  BY <1>3, <2>1, <3>1, <3>2
  <2>2. CASE w # n
    <3>1. sw[w] = sv[w] /\ sv[w] \in Versions  BY <1>4, <2>2 DEF Documents
    <3>2. um.userNamespaces[KeyOf(u)] = w <=> u \in UsersOf(w, sv[w])
      BY <3>1, ManagerAssumption DEF Agrees
    <3>3. u \in UsersOf(w, sv[w]) => u \notin UsersOf(n, v)  BY <2>2, <3>1, UniqueUsers
    <3> QED  BY <1>1, <1>3, <2>2, <3>1, <3>2, <3>3, ManagerAssumption
  <2> QED  BY <2>1, <2>2
<1>5. ASSUME NEW u \in Users
      PROVE  u[2] \in r.users[u[1]] <=> r.userNamespaces[KeyOf(u)] # None
  BY <1>1, <1>3, ManagerAssumption
<1> QED  BY <1>4, <1>5 DEF Agrees, r

-----------------------------------------------------------------------------
(* The operations of a manager.                                            *)

(* What slot i serves.                                                     *)
SlotServes(m, i) ==
    [n \in Names |-> IF m.namespaces[i][n] = None THEN Absent ELSE m.config[m.namespaces[i][n]]]

(* Slot i can be put into service: its namespaces are open, each has an    *)
(* object of its own, and the user table is theirs.                        *)
SlotOK(m, i) ==
    /\ \A n \in Names : m.namespaces[i][n] \notin m.closing
    /\ \A n1, n2 \in Names :
         m.namespaces[i][n1] # None /\ m.namespaces[i][n1] = m.namespaces[i][n2] => n1 = n2
    /\ \A n \in Names : m.namespaces[i][n] # None => m.config[m.namespaces[i][n]] \in Versions
    /\ Agrees(m.users[i], SlotServes(m, i))

(* The other slot differs from the current one in namespace n only, which  *)
(* has a new object for version v.                                         *)
PreparedFor(m, n, v) ==
    /\ SlotOK(m, Other(m))
    /\ SlotServes(m, Other(m)) = [SlotServes(m, m.switchIndex) EXCEPT ![n] = v]
    /\ \A w \in Names \ {n} : m.namespaces[Other(m)][w] = Current(m)[w]
    /\ \A w \in Names : m.namespaces[Other(m)][n] # Current(m)[w]

\* The two slots of a manager and what they serve have their types.
LEMMA ServesTyped ==
    ASSUME NEW m \in Managers, NEW i \in Slots
    PROVE  /\ SlotServes(m, i) \in [Names -> Documents]
           /\ Other(m) \in Slots /\ m.switchIndex \in Slots /\ Other(m) # m.switchIndex
           /\ 1 - Other(m) = m.switchIndex
           /\ m.users[i] \in UserManagers
           /\ m.namespaces[i] \in [Names -> Objects \cup {None}]
           /\ m.config \in [Objects -> Documents]
<1>1. /\ m.switchIndex \in {0, 1} /\ m.users \in [Slots -> UserManagers]
      /\ m.namespaces \in [Slots -> [Names -> Objects \cup {None}]]
      /\ m.config \in [Objects -> Documents]
  BY DEF Managers, Slots
<1>2. /\ Other(m) \in Slots /\ m.switchIndex \in Slots /\ Other(m) # m.switchIndex
      /\ 1 - Other(m) = m.switchIndex
  BY <1>1 DEF Other, Slots
<1>3. m.users[i] \in UserManagers /\ m.namespaces[i] \in [Names -> Objects \cup {None}]
  BY <1>1
<1>4. \A n \in Names : m.namespaces[i][n] # None => m.config[m.namespaces[i][n]] \in Documents
  BY <1>1, <1>3
<1>5. SlotServes(m, i) \in [Names -> Documents]  BY <1>4 DEF SlotServes, Documents
<1> QED  BY <1>1, <1>2, <1>3, <1>5

\* A namespace is served from the current slot (GetNamespace).
LEMMA ServesCurrent ==
    ASSUME NEW m \in Managers, NEW n \in Names
    PROVE  Serves(m, n) = SlotServes(m, m.switchIndex)[n]
BY DEF Serves, GetNamespace, Current, SlotServes

(* Prepare leaves the current slot as it is and makes the other one ready. *)
LEMMA PrepareEffect ==
    ASSUME NEW m \in Managers, NEW n \in Names, NEW v \in Versions, NEW o \in Unused(m),
           SlotOK(m, m.switchIndex)
    PROVE  LET m2 == ReloadNamespacePrepare(m, n, v, o) IN
           /\ m2 \in Managers
           /\ SlotOK(m2, m2.switchIndex)
           /\ SlotServes(m2, m2.switchIndex) = SlotServes(m, m.switchIndex)
           /\ PreparedFor(m2, n, v)
<1> DEFINE m2 == ReloadNamespacePrepare(m, n, v, o)
           cur == m.switchIndex
           oth == Other(m)
           rebuilt == RebuildNamespaceUsers(m.users[cur], n, v)
<1>1. /\ cur \in Slots /\ oth \in Slots /\ oth # cur
      /\ m.users[cur] \in UserManagers /\ m.users \in [Slots -> UserManagers]
      /\ m.namespaces[cur] \in [Names -> Objects \cup {None}]
      /\ m.namespaces \in [Slots -> [Names -> Objects \cup {None}]]
      /\ m.config \in [Objects -> Documents] /\ m.closing \subseteq Objects
      /\ SlotServes(m, cur) \in [Names -> Documents]
  BY ServesTyped DEF Managers
<1>2. /\ o \in Objects /\ o # None
      /\ \A i \in Slots, w \in Names : m.namespaces[i][w] # o
  BY ManagerAssumption DEF Unused, Referenced
<1>3. /\ m2.switchIndex = cur /\ m2.closing = m.closing \ {o} /\ m2.reloadPrepared = TRUE
      /\ m2.config = [m.config EXCEPT ![o] = v]
      /\ m2.namespaces = [m.namespaces EXCEPT ![oth] = [m.namespaces[cur] EXCEPT ![n] = o]]
      /\ m2.users = [m.users EXCEPT ![oth] = rebuilt]
  BY DEF ReloadNamespacePrepare, Managers, Current, Other
<1>4. rebuilt \in UserManagers  BY <1>1, TablesTyped
<1> HIDE DEF m2, cur, oth, rebuilt
<1>5. \A w \in Names : m.namespaces[cur][w] # None => m.namespaces[cur][w] \in Objects \ {o}
  BY <1>1, <1>2
<1>6. m2 \in Managers
  <2>1. m2.config \in [Objects -> Documents]  BY <1>1, <1>2, <1>3 DEF Documents
  <2>2. m2.namespaces \in [Slots -> [Names -> Objects \cup {None}]]  BY <1>1, <1>2, <1>3
  <2>3. m2.users \in [Slots -> UserManagers]  BY <1>1, <1>3, <1>4
  <2>4. m2 = [m EXCEPT !.namespaces = m2.namespaces, !.config = m2.config, !.users = m2.users,
                       !.closing = m.closing \ {o}, !.reloadPrepared = TRUE]
    BY <1>3 DEF m2, ReloadNamespacePrepare, Current, oth, cur, rebuilt
  <2>5. m.closing \ {o} \subseteq Objects  BY <1>1
  <2> QED  BY <2>1, <2>2, <2>3, <2>4, <2>5, Zenon DEF Managers
<1>7. /\ m2.namespaces[cur] = m.namespaces[cur] /\ m2.users[cur] = m.users[cur]
      /\ m2.namespaces[oth] = [m.namespaces[cur] EXCEPT ![n] = o] /\ m2.users[oth] = rebuilt
      /\ m2.config[o] = v /\ \A x \in Objects \ {o} : m2.config[x] = m.config[x]
  BY <1>1, <1>2, <1>3
<1>8. Other(m2) = oth /\ Current(m2) = m.namespaces[cur] /\ Current(m) = m.namespaces[cur]
  BY <1>3, <1>7 DEF Other, oth, Current, cur
<1>9. SlotServes(m2, cur) = SlotServes(m, cur)
  <2>1. ASSUME NEW w \in Names
        PROVE  (IF m2.namespaces[cur][w] = None THEN Absent ELSE m2.config[m2.namespaces[cur][w]])
                 = (IF m.namespaces[cur][w] = None THEN Absent ELSE m.config[m.namespaces[cur][w]])
    <3>1. m2.namespaces[cur][w] = m.namespaces[cur][w]  BY <1>7, Zenon
    <3>2. m.namespaces[cur][w] # None => m2.config[m.namespaces[cur][w]] = m.config[m.namespaces[cur][w]]
      BY <1>5, <1>7, Zenon
    <3> QED  BY <3>1, <3>2, Zenon
  <2> QED  BY <2>1, Zenon DEF SlotServes
<1>10. SlotServes(m2, oth) = [SlotServes(m, cur) EXCEPT ![n] = v]
  <2>1. \A w \in Names : SlotServes(m2, oth)[w] = [SlotServes(m, cur) EXCEPT ![n] = v][w]
    <3>1. TAKE w \in Names
    <3>2. CASE w = n  BY <1>1, <1>2, <1>7, <3>2 DEF SlotServes
    <3>3. CASE w # n  BY <1>1, <1>2, <1>7, <3>3 DEF SlotServes
    <3> QED  BY <3>2, <3>3
  <2>2. /\ DOMAIN SlotServes(m2, oth) = Names
        /\ SlotServes(m2, oth) = [w \in Names |-> SlotServes(m2, oth)[w]]
    BY DEF SlotServes
  <2> QED  BY <1>1, <2>1, <2>2, Zenon
<1>11. SlotOK(m2, cur)
  <2>1. SlotOK(m, cur)  BY DEF cur
  <2>2. \A w \in Names : m2.namespaces[cur][w] \notin m2.closing  BY <1>3, <1>7, <2>1, Zenon DEF SlotOK
  <2>3. \A n1, n2 \in Names :
          m2.namespaces[cur][n1] # None /\ m2.namespaces[cur][n1] = m2.namespaces[cur][n2] => n1 = n2
    <3>1. \A n1, n2 \in Names :
            m.namespaces[cur][n1] # None /\ m.namespaces[cur][n1] = m.namespaces[cur][n2] => n1 = n2
      BY <2>1, Zenon DEF SlotOK
    <3>2. m2.namespaces[cur] = m.namespaces[cur]  BY <1>7, Zenon
    <3> QED  BY <3>1, <3>2
  <2>4. ASSUME NEW w \in Names, m2.namespaces[cur][w] # None
        PROVE  m2.config[m2.namespaces[cur][w]] \in Versions
    <3>1. m.namespaces[cur][w] \in Objects \ {o}  BY <1>5, <1>7, <2>4, Zenon
    <3>2. m.config[m.namespaces[cur][w]] \in Versions  BY <1>7, <2>1, <2>4 DEF SlotOK
    <3> QED  BY <1>7, <3>1, <3>2
  <2>5. Agrees(m2.users[cur], SlotServes(m2, cur))
    <3>1. Agrees(m.users[cur], SlotServes(m, cur))  BY <2>1 DEF SlotOK
    <3> QED  BY <1>7, <1>9, <3>1
  <2> QED  BY <2>2, <2>3, <2>4, <2>5, Zenon DEF SlotOK
<1>12. SlotOK(m2, oth)
  <2>1. SlotOK(m, cur)  BY DEF cur
  <2>2. \A w \in Names : m2.namespaces[oth][w] = IF w = n THEN o ELSE m.namespaces[cur][w]
    BY <1>1, <1>7
  <2>3. Agrees(m2.users[oth], SlotServes(m2, oth))
    <3>1. Agrees(m.users[cur], SlotServes(m, cur))  BY <2>1 DEF SlotOK
    <3>2. Agrees(rebuilt, [SlotServes(m, cur) EXCEPT ![n] = v])
      BY <1>1, <3>1, RebuildAgrees, Zenon DEF rebuilt
    <3> QED  BY <1>7, <1>10, <3>2
  <2>4. \A w \in Names : m2.namespaces[oth][w] \notin m2.closing
    <3>1. \A w \in Names : m.namespaces[cur][w] \notin m.closing  BY <2>1 DEF SlotOK
    <3>2. m2.closing \subseteq m.closing /\ o \notin m2.closing  BY <1>3
    <3>3. TAKE w \in Names
    <3>4. CASE w = n  BY <2>2, <3>2, <3>4
    <3>5. CASE w # n  BY <2>2, <3>1, <3>2, <3>5
    <3> QED  BY <3>4, <3>5
  <2>5. \A n1, n2 \in Names :
          m2.namespaces[oth][n1] # None /\ m2.namespaces[oth][n1] = m2.namespaces[oth][n2] => n1 = n2
    <3>1. \A n1, n2 \in Names :
            m.namespaces[cur][n1] # None /\ m.namespaces[cur][n1] = m.namespaces[cur][n2] => n1 = n2
      BY <2>1, Zenon DEF SlotOK
    <3>2. \A w \in Names : m.namespaces[cur][w] # o  BY <1>1, <1>2, Zenon
    <3> QED  BY <2>2, <3>1, <3>2
  <2>6. ASSUME NEW w \in Names, m2.namespaces[oth][w] # None
        PROVE  m2.config[m2.namespaces[oth][w]] \in Versions
    <3>1. CASE w = n
      <4>1. m2.namespaces[oth][w] = o  BY <2>2, <3>1, Zenon
      <4> QED  BY <1>7, <4>1, Zenon
    <3>2. CASE w # n
      <4>1. m2.namespaces[oth][w] = m.namespaces[cur][w]  BY <2>2, <3>2, Zenon
      <4>2. m.config[m.namespaces[cur][w]] \in Versions  BY <2>1, <2>6, <4>1, Zenon DEF SlotOK
      <4>3. m.namespaces[cur][w] \in Objects \ {o}  BY <1>5, <2>6, <4>1, Zenon
      <4>4. m2.config[m.namespaces[cur][w]] = m.config[m.namespaces[cur][w]]  BY <1>7, <4>3, Zenon
      <4> QED  BY <4>1, <4>2, <4>4, Zenon
    <3> QED  BY <3>1, <3>2, Zenon
  <2> QED  BY <2>3, <2>4, <2>5, <2>6 DEF SlotOK
<1>13. PreparedFor(m2, n, v)
  <2>1. \A w \in Names \ {n} : m2.namespaces[oth][w] = m.namespaces[cur][w]  BY <1>1, <1>7
  <2>2. \A w \in Names : m2.namespaces[oth][n] # m.namespaces[cur][w]  BY <1>1, <1>2, <1>7
  <2>3. SlotServes(m2, oth) = [SlotServes(m2, m2.switchIndex) EXCEPT ![n] = v]
    BY <1>3, <1>9, <1>10
  <2> QED  BY <1>8, <1>12, <2>1, <2>2, <2>3 DEF PreparedFor
<1> QED  BY <1>3, <1>6, <1>9, <1>11, <1>13 DEF m2, cur

(* Commit puts the prepared slot into service.                             *)
LEMMA CommitEffect ==
    ASSUME NEW m \in Managers, NEW n \in Names, NEW v \in Versions,
           SlotOK(m, m.switchIndex), PreparedFor(m, n, v)
    PROVE  LET m2 == ReloadNamespaceCommit(m, n) IN
           /\ m2 \in Managers /\ ~m2.reloadPrepared
           /\ SlotOK(m2, m2.switchIndex)
           /\ SlotServes(m2, m2.switchIndex) = [SlotServes(m, m.switchIndex) EXCEPT ![n] = v]
<1> DEFINE m2 == ReloadNamespaceCommit(m, n)
           cur == m.switchIndex
           oth == Other(m)
<1>1. /\ cur \in Slots /\ oth \in Slots
      /\ m.namespaces[cur] \in [Names -> Objects \cup {None}] /\ m.closing \subseteq Objects
  BY ServesTyped DEF Managers
<1>2. /\ m2.switchIndex = oth /\ m2.reloadPrepared = FALSE
      /\ m2.closing = m.closing \cup ({m.namespaces[cur][n]} \ {None})
      /\ m2.namespaces = m.namespaces /\ m2.config = m.config /\ m2.users = m.users
  BY DEF ReloadNamespaceCommit, Managers, CloseLater, GetNamespace, Current, Other
<1>3. m2 \in Managers
  <2>1. m2.closing \in SUBSET Objects  BY <1>1, <1>2
  <2>2. m2 = [m EXCEPT !.reloadPrepared = FALSE, !.closing = m2.closing, !.switchIndex = oth]
    BY <1>2 DEF ReloadNamespaceCommit, Other
  <2> HIDE DEF m2, oth
  <2> QED  BY <1>1, <2>1, <2>2, Zenon DEF Managers
<1>4. SlotServes(m2, oth) = SlotServes(m, oth)  BY <1>2 DEF SlotServes
<1> HIDE DEF m2
<1>5. SlotOK(m2, oth)
  <2>1. SlotOK(m, oth) /\ SlotOK(m, cur)  BY DEF PreparedFor
  <2>2. \A w \in Names : m.namespaces[oth][w] # None => m.namespaces[oth][w] # m.namespaces[cur][n]
    <3>1. TAKE w \in Names
    <3>2. CASE w = n  BY <3>2 DEF PreparedFor, Current
    <3>3. CASE w # n
      <4>1. m.namespaces[oth][w] = m.namespaces[cur][w]  BY <3>3 DEF PreparedFor, Current
      <4> QED  BY <2>1, <3>3, <4>1, Zenon DEF SlotOK
    <3> QED  BY <3>2, <3>3
  <2>3. \A w \in Names : m.namespaces[oth][w] \notin m.closing  BY <2>1, Zenon DEF SlotOK
  <2>4. \A w \in Names : m.namespaces[oth][w] \notin m2.closing  BY <1>2, <2>2, <2>3, Zenon
  <2>5. /\ \A n1, n2 \in Names :
             m.namespaces[oth][n1] # None /\ m.namespaces[oth][n1] = m.namespaces[oth][n2] => n1 = n2
        /\ \A w \in Names : m.namespaces[oth][w] # None => m.config[m.namespaces[oth][w]] \in Versions
        /\ Agrees(m.users[oth], SlotServes(m, oth))
    BY <2>1, Zenon DEF SlotOK
  <2>6. \A w \in Names : m2.namespaces[oth][w] \notin m2.closing  BY <1>2, <2>4, Zenon
  <2>7. /\ \A n1, n2 \in Names :
             m2.namespaces[oth][n1] # None /\ m2.namespaces[oth][n1] = m2.namespaces[oth][n2] => n1 = n2
        /\ \A w \in Names : m2.namespaces[oth][w] # None => m2.config[m2.namespaces[oth][w]] \in Versions
        /\ Agrees(m2.users[oth], SlotServes(m2, oth))
    BY <1>2, <1>4, <2>5, ZenonT(40)
  <2> QED  BY <2>6, <2>7, Zenon DEF SlotOK
<1>6. SlotServes(m, oth) = [SlotServes(m, cur) EXCEPT ![n] = v]  BY DEF PreparedFor
<1> QED  BY <1>2, <1>3, <1>4, <1>5, <1>6 DEF m2

(* Delete takes namespace n out of service and nothing else.               *)
LEMMA DeleteEffect ==
    ASSUME NEW m \in Managers, NEW n \in Names, SlotOK(m, m.switchIndex)
    PROVE  LET m2 == DeleteNamespace(m, n) IN
           /\ m2 \in Managers
           /\ SlotOK(m2, m2.switchIndex)
           /\ SlotServes(m2, m2.switchIndex) = [SlotServes(m, m.switchIndex) EXCEPT ![n] = Absent]
<1> DEFINE m2 == DeleteNamespace(m, n)
           cur == m.switchIndex
           oth == Other(m)
           cleared == ClearNamespaceUsers(m.users[cur], n)
<1>1. /\ cur \in Slots /\ oth \in Slots /\ oth # cur
      /\ m.users[cur] \in UserManagers /\ m.users \in [Slots -> UserManagers]
      /\ m.namespaces[cur] \in [Names -> Objects \cup {None}]
      /\ m.namespaces \in [Slots -> [Names -> Objects \cup {None}]]
      /\ m.config \in [Objects -> Documents] /\ m.closing \subseteq Objects
      /\ SlotServes(m, cur) \in [Names -> Documents]
  BY ServesTyped DEF Managers
<1>2. CASE m.namespaces[cur][n] = None
  <2>1. m2 = m  BY <1>2 DEF DeleteNamespace, GetNamespace, Current
  <2>2. SlotServes(m, cur)[n] = Absent  BY <1>2 DEF SlotServes
  <2>3. SlotServes(m, cur) = [SlotServes(m, cur) EXCEPT ![n] = Absent]  BY <1>1, <2>2
  <2> QED  BY <2>1, <2>3
<1>3. CASE m.namespaces[cur][n] # None
  <2>1. /\ m2.switchIndex = oth
        /\ m2.closing = m.closing \cup ({m.namespaces[cur][n]} \ {None})
        /\ m2.namespaces = [m.namespaces EXCEPT ![oth] = [m.namespaces[cur] EXCEPT ![n] = None]]
        /\ m2.users = [m.users EXCEPT ![oth] = cleared] /\ m2.config = m.config
    BY <1>3 DEF DeleteNamespace, Managers, CloseLater, GetNamespace, Current, Other
  <2>2. cleared \in UserManagers  BY <1>1, TablesTyped, Zenon
  <2>3. m2 \in Managers
    <3>1. m2.namespaces \in [Slots -> [Names -> Objects \cup {None}]]  BY <1>1, <2>1
    <3>2. m2.users \in [Slots -> UserManagers]  BY <1>1, <2>1, <2>2
    <3>3. m2.closing \in SUBSET Objects  BY <1>1, <2>1
    <3>4. m2 = [m EXCEPT !.namespaces = m2.namespaces, !.users = m2.users,
                         !.closing = m2.closing, !.switchIndex = oth]
      BY <1>3, <2>1 DEF DeleteNamespace, GetNamespace, Current, Other
    <3> HIDE DEF m2, oth
    <3> QED  BY <1>1, <3>1, <3>2, <3>3, <3>4, Zenon DEF Managers
  <2> HIDE DEF m2, cleared
  <2>4. /\ m2.users[oth] = cleared
        /\ \A w \in Names : m2.namespaces[oth][w] = IF w = n THEN None ELSE m.namespaces[cur][w]
    BY <1>1, <2>1
  <2>5. SlotServes(m2, oth) = [SlotServes(m, cur) EXCEPT ![n] = Absent]
    <3>1. \A w \in Names : SlotServes(m2, oth)[w] = [SlotServes(m, cur) EXCEPT ![n] = Absent][w]
      <4>1. TAKE w \in Names
      <4>2. CASE w = n  BY <1>1, <2>4, <4>2 DEF SlotServes
      <4>3. CASE w # n  BY <1>1, <2>1, <2>4, <4>3, Zenon DEF SlotServes
      <4> QED  BY <4>2, <4>3
    <3>2. SlotServes(m2, oth) = [w \in Names |-> SlotServes(m2, oth)[w]]  BY DEF SlotServes
    <3> QED  BY <1>1, <3>1, <3>2
  <2>6. SlotOK(m2, oth)
    <3>1. /\ \A w \in Names : m.namespaces[cur][w] \notin m.closing
          /\ \A n1, n2 \in Names :
               m.namespaces[cur][n1] # None /\ m.namespaces[cur][n1] = m.namespaces[cur][n2] => n1 = n2
          /\ \A w \in Names : m.namespaces[cur][w] # None => m.config[m.namespaces[cur][w]] \in Versions
          /\ Agrees(m.users[cur], SlotServes(m, cur))
      BY DEF SlotOK
    <3>2. Agrees(m2.users[oth], SlotServes(m2, oth))
      <4> DEFINE um == m.users[cur]
                 sv == SlotServes(m, cur)
      <4>1. um \in UserManagers /\ sv \in [Names -> Documents] /\ Agrees(um, sv)  BY <1>1, <3>1, Zenon
      <4> HIDE DEF um, sv
      <4>2. Agrees(ClearNamespaceUsers(um, n), [sv EXCEPT ![n] = Absent])  BY <4>1, ClearAgrees, Zenon
      <4> QED  BY <2>4, <2>5, <4>2, Zenon DEF cleared, um, sv
    <3>3. \A w \in Names : m2.namespaces[oth][w] \notin m2.closing
      <4>1. None \notin m.closing  BY <1>1, ManagerAssumption
      <4>2. TAKE w \in Names
      <4>3. CASE w = n  BY <2>1, <2>4, <4>1, <4>3
      <4>4. CASE w # n
        <5>1. m.namespaces[cur][w] # m.namespaces[cur][n]  BY <1>3, <3>1, <4>4
        <5> QED  BY <2>1, <2>4, <3>1, <4>4, <5>1, Zenon
      <4> QED  BY <4>3, <4>4
    <3>4. \A n1, n2 \in Names :
            m2.namespaces[oth][n1] # None /\ m2.namespaces[oth][n1] = m2.namespaces[oth][n2] => n1 = n2
      BY <2>4, <3>1
    <3>5. \A w \in Names : m2.namespaces[oth][w] # None => m2.config[m2.namespaces[oth][w]] \in Versions
      BY <2>1, <2>4, <3>1, Zenon
    <3> QED  BY <3>2, <3>3, <3>4, <3>5 DEF SlotOK
  <2> QED  BY <2>1, <2>3, <2>5, <2>6 DEF m2
<1> QED  BY <1>2, <1>3

(* A proxy that starts serves what the store holds, less what it refuses.  *)
LEMMA CreateEffect ==
    ASSUME NEW docs \in [Names -> Documents]
    PROVE  LET m == CreateManager(docs, FirstObjects, Refused) IN
           /\ m \in Managers /\ ~m.reloadPrepared
           /\ SlotOK(m, m.switchIndex)
           /\ SlotServes(m, m.switchIndex)
                = [n \in Names |-> IF docs[n] \in Refused THEN Absent ELSE docs[n]]
<1> DEFINE m == CreateManager(docs, FirstObjects, Refused)
           present == {n \in Names : docs[n] # Absent}
           built == {n \in present : docs[n] \notin Refused}
           owners(k) == {n \in present : \E u \in UsersOf(n, docs[n]) : KeyOf(u) = k}
           table == [userNamespaces |-> [k \in Keys |-> IF owners(k) = {} THEN None
                                                         ELSE CHOOSE n \in owners(k) : TRUE],
                     users |-> [u \in UserNames |->
                       {p \in Passwords : \E n \in present : <<u, p>> \in UsersOf(n, docs[n])}]]
           ns == [n \in Names |-> IF n \in built THEN FirstObjects[n] ELSE None]
           cf == [o \in Objects |-> IF \E n \in built : FirstObjects[n] = o
                                       THEN docs[CHOOSE n \in built : FirstObjects[n] = o] ELSE Absent]
           sv == [n \in Names |-> IF docs[n] \in Refused THEN Absent ELSE docs[n]]
<1>1. /\ FirstObjects \in [Names -> Objects]
      /\ \A a, b \in Names : a # b => FirstObjects[a] # FirstObjects[b]
  <2>1. \E f \in [Names -> Objects] : \A a, b \in Names : a # b => f[a] # f[b]  BY ReloadAssumption
  <2> QED  BY <2>1, Zenon DEF FirstObjects
<1>2. /\ m.switchIndex = 0 /\ m.reloadPrepared = FALSE /\ m.closing = {} /\ m.config = cf
      /\ m.namespaces = [i \in Slots |-> [n \in Names |-> IF i = 0 /\ n \in built THEN FirstObjects[n] ELSE None]]
      /\ m.users = [i \in Slots |-> IF i = 1 THEN NoUsers ELSE table]
  BY Zenon DEF CreateManager
<1>3. m.namespaces[0] = ns /\ m.users[0] = table /\ 0 \in Slots
  <2>1. 0 \in Slots  BY DEF Slots
  <2>2. m.users[0] = table
    <3>1. m.users = [i \in Slots |-> IF i = 1 THEN NoUsers ELSE table]  BY <1>2, Zenon
    <3> HIDE DEF m, table
    <3>2. m.users[0] = IF 0 = 1 THEN NoUsers ELSE table  BY <2>1, <3>1, Zenon
    <3>3. 0 # 1  OBVIOUS
    <3> QED  BY <3>2, <3>3, Zenon
  <2>3. m.namespaces[0] = ns
    <3> DEFINE at(i) == [n \in Names |-> IF i = 0 /\ n \in built THEN FirstObjects[n] ELSE None]
    <3>1. m.namespaces = [i \in Slots |-> at(i)]  BY <1>2, Zenon
    <3>2. at(0) = ns
      <4> HIDE DEF built
      <4> QED  OBVIOUS
    <3> HIDE DEF m, ns, at
    <3>3. m.namespaces[0] = at(0)  BY <2>1, <3>1
    <3> QED  BY <3>2, <3>3, Zenon
  <2> QED  BY <2>1, <2>2, <2>3, Zenon
<1>4. ASSUME NEW n \in built PROVE cf[FirstObjects[n]] = docs[n]
  <2>1. (CHOOSE x \in built : FirstObjects[x] = FirstObjects[n]) = n  BY <1>1
  <2> QED  BY <1>1, <2>1, Zenon
<1>5. table \in UserManagers /\ NoUsers \in UserManagers
  <2>1. \A k \in Keys : (IF owners(k) = {} THEN None ELSE CHOOSE n \in owners(k) : TRUE) \in Names \cup {None}
    <3>1. TAKE k \in Keys
    <3>2. CASE owners(k) = {}  BY <3>2
    <3>3. CASE owners(k) # {}
      <4>1. (CHOOSE n \in owners(k) : TRUE) \in owners(k)  BY <3>3, Zenon
      <4> QED  BY <3>3, <4>1, Zenon
    <3> QED  BY <3>2, <3>3
  <2>2. [k \in Keys |-> IF owners(k) = {} THEN None ELSE CHOOSE n \in owners(k) : TRUE]
          \in [Keys -> Names \cup {None}]
    <3> HIDE DEF owners
    <3> QED  BY <2>1
  <2>3. [u \in UserNames |-> {p \in Passwords : \E n \in present : <<u, p>> \in UsersOf(n, docs[n])}]
          \in [UserNames -> SUBSET Passwords]
    OBVIOUS
  <2>4. table \in UserManagers
    <3> HIDE DEF owners, present
    <3> QED  BY <2>2, <2>3 DEF UserManagers
  <2>5. NoUsers \in UserManagers  BY DEF NoUsers, UserManagers
  <2> QED  BY <2>4, <2>5
<1>6. cf \in [Objects -> Documents]
  <2>1. ASSUME NEW o \in Objects, \E n \in built : FirstObjects[n] = o
        PROVE  docs[CHOOSE n \in built : FirstObjects[n] = o] \in Documents
    <3>1. (CHOOSE n \in built : FirstObjects[n] = o) \in built  BY <2>1
    <3> QED  BY <3>1
  <2> HIDE DEF built
  <2> QED  BY <2>1 DEF Documents
<1>7. m \in Managers
  <2>1. m.users \in [Slots -> UserManagers]
    <3> HIDE DEF m, table
    <3> QED  BY <1>2, <1>5, Zenon
  <2>2. m.namespaces \in [Slots -> [Names -> Objects \cup {None}]]
    <3> HIDE DEF m, built
    <3>1. \A i \in Slots : \A n \in Names :
            (IF i = 0 /\ n \in built THEN FirstObjects[n] ELSE None) \in Objects \cup {None}
      BY <1>1
    <3>2. \A i \in Slots : [n \in Names |-> IF i = 0 /\ n \in built THEN FirstObjects[n] ELSE None]
            \in [Names -> Objects \cup {None}]
      BY <3>1
    <3>3. m.namespaces = [i \in Slots |-> [n \in Names |-> IF i = 0 /\ n \in built THEN FirstObjects[n] ELSE None]]
      BY <1>2, Zenon
    <3> QED  BY <3>2, <3>3, Zenon
  <2>3. m = [switchIndex |-> 0, reloadPrepared |-> FALSE, namespaces |-> m.namespaces,
             config |-> m.config, users |-> m.users, closing |-> {}]
    BY Zenon DEF CreateManager
  <2> HIDE DEF m, cf
  <2> QED  BY <1>2, <1>6, <2>1, <2>2, <2>3, Zenon DEF Managers, Slots
<1>8. SlotServes(m, 0) = sv
  <2>1. ASSUME NEW n \in Names
        PROVE  (IF ns[n] = None THEN Absent ELSE cf[ns[n]]) = sv[n]
    <3>1. CASE n \in built
      <4>1. ns[n] = FirstObjects[n] /\ ns[n] # None /\ sv[n] = docs[n]
        BY <1>1, <3>1, ManagerAssumption
      <4>2. cf[FirstObjects[n]] = docs[n]  BY <1>4, <3>1, Zenon
      <4> HIDE DEF ns, cf, sv
      <4> QED  BY <4>1, <4>2
    <3>2. CASE n \notin built  BY <3>2, Zenon
    <3> QED  BY <3>1, <3>2, Zenon
  <2> HIDE DEF m, ns, cf
  <2> QED  BY <1>2, <1>3, <2>1, Zenon DEF SlotServes
<1>9. Agrees(table, sv)
  <2>1. ASSUME NEW u \in Users, NEW n \in present, u \in UsersOf(n, docs[n])
        PROVE  owners(KeyOf(u)) = {n}
    <3>1. n \in owners(KeyOf(u))  BY <2>1
    <3>2. ASSUME NEW w \in owners(KeyOf(u)) PROVE w = n
      <4>1. PICK x \in UsersOf(w, docs[w]) : KeyOf(x) = KeyOf(u)  BY <3>2
      <4>2. w \in Names /\ docs[w] \in Versions /\ n \in Names /\ docs[n] \in Versions
        BY <3>2 DEF Documents
      <4>3. x = u  BY <4>1, <4>2, UserPairs, ManagerAssumption
      <4> QED  BY <2>1, <4>1, <4>2, <4>3, UniqueUsers
    <3> HIDE DEF owners
    <3> QED  BY <3>1, <3>2
  <2>2. ASSUME NEW u \in Users
        PROVE  \A n \in present : table.userNamespaces[KeyOf(u)] = n <=> u \in UsersOf(n, docs[n])
    <3>1. KeyOf(u) \in Keys  BY UserPairs
    <3>2. table.userNamespaces[KeyOf(u)] = IF owners(KeyOf(u)) = {} THEN None
                                           ELSE CHOOSE n \in owners(KeyOf(u)) : TRUE
      BY <3>1
    <3>3. TAKE n \in present
    <3>4. CASE u \in UsersOf(n, docs[n])  BY <2>1, <3>2, <3>4
    <3>5. CASE u \notin UsersOf(n, docs[n])
      <4>1. ASSUME table.userNamespaces[KeyOf(u)] = n PROVE FALSE
        <5>1. n # None  BY ManagerAssumption
        <5>2. owners(KeyOf(u)) # {}  BY <3>2, <4>1, <5>1
        <5>3. n \in owners(KeyOf(u))  BY <3>2, <4>1, <5>2
        <5>4. PICK x \in UsersOf(n, docs[n]) : KeyOf(x) = KeyOf(u)  BY <5>3
        <5>5. x \in Users  BY <5>4, ManagerAssumption DEF Documents
        <5> QED  BY <3>5, <5>4, <5>5, UserPairs
      <4> QED  BY <3>5, <4>1
    <3> QED  BY <3>4, <3>5
  <2>3. ASSUME NEW u \in Users
        PROVE  u[2] \in table.users[u[1]] <=> table.userNamespaces[KeyOf(u)] # None
    <3>1. u = <<u[1], u[2]>> /\ KeyOf(u) \in Keys /\ u[1] \in UserNames /\ u[2] \in Passwords
      BY UserPairs
    <3>2. u[2] \in table.users[u[1]] <=> \E n \in present : u \in UsersOf(n, docs[n])
      BY <3>1
    <3>3. table.userNamespaces[KeyOf(u)] # None => \E n \in present : table.userNamespaces[KeyOf(u)] = n
      <4>1. table.userNamespaces[KeyOf(u)] = IF owners(KeyOf(u)) = {} THEN None
                                             ELSE CHOOSE n \in owners(KeyOf(u)) : TRUE
        BY <3>1
      <4>2. owners(KeyOf(u)) \subseteq present  OBVIOUS
      <4> HIDE DEF table, owners
      <4> QED  BY <4>1, <4>2
    <3>4. \A n \in present : n # None  BY ManagerAssumption, Zenon
    <3> HIDE DEF table
    <3> QED  BY <2>2, <3>2, <3>3, <3>4
  <2>4. \A n \in Names : sv[n] # Absent => n \in present /\ sv[n] = docs[n]  OBVIOUS
  <2> HIDE DEF table, sv, present
  <2> QED  BY <2>2, <2>3, <2>4 DEF Agrees
<1>10. SlotOK(m, 0)
  <2>1. \A n \in Names : ns[n] # None => n \in built /\ ns[n] = FirstObjects[n]  OBVIOUS
  <2>2. \A n \in built : n \in Names /\ docs[n] \in Versions  BY DEF Documents
  <2> HIDE DEF m, ns, cf, table, built, sv
  <2>3. \A n1, n2 \in Names : ns[n1] # None /\ ns[n1] = ns[n2] => n1 = n2  BY <1>1, <2>1
  <2>4. \A n \in Names : ns[n] # None => cf[ns[n]] \in Versions  BY <1>4, <2>1, <2>2
  <2> QED  BY <1>2, <1>3, <1>8, <1>9, <2>3, <2>4 DEF SlotOK
<1> QED
  <2> HIDE DEF sv
  <2>1. SlotOK(m, m.switchIndex) /\ SlotServes(m, m.switchIndex) = sv  BY <1>2, <1>8, <1>10, Zenon
  <2> QED  BY <1>2, <1>7, <2>1, Zenon DEF sv

-----------------------------------------------------------------------------
(* The inductive invariant.  Besides the properties of the current slots   *)
(* it says what a request under way has achieved: which proxies hold the   *)
(* prepared version, and which serve it already.                           *)

ServesAt(p, n) == SlotServes(mgr[p], mgr[p].switchIndex)[n]

Ready(p, n) == mgr[p].reloadPrepared => PreparedFor(mgr[p], n, store[n])

RequestOK ==
    \A a \in Admins :
        LET r == req[a] IN
        /\ r.at # "idle" => r.name \in Names
        /\ r.at \in {"listModify", "prepare", "commit"} => store[r.name] \in Versions
        /\ r.at \in {"listDelete", "delete"} => store[r.name] = Absent
        /\ r.at = "commit" => store[r.name] \notin Refused
        /\ r.at = "prepare" => \A p \in r.listed \ r.todo : Ready(p, r.name)
        /\ r.at = "commit" => \A p \in r.todo : Ready(p, r.name)
        /\ r.at \in {"commit", "delete"} =>
             \A p \in r.listed \ r.todo : life[p] # "down" => ServesAt(p, r.name) = store[r.name]

SettledOK ==
    \A n \in Names : \A p \in settled[n] :
        store[n] \notin Refused /\ (life[p] # "down" => ServesAt(p, n) = store[n])

SlotsOK == \A p \in Proxies : SlotOK(mgr[p], mgr[p].switchIndex)

IInv == TypeOK /\ SlotsOK /\ RequestOK /\ SettledOK

\* The invariant holds at first.
LEMMA InitInv == Init => IInv
<1> SUFFICES ASSUME Init PROVE IInv  OBVIOUS
<1>1. store \in [Names -> Documents] /\ \A n \in Names : store[n] \notin Refused
  BY DEF Init
<1> DEFINE m == CreateManager(store, FirstObjects, Refused)
<1>2. /\ m \in Managers /\ SlotOK(m, m.switchIndex)
      /\ SlotServes(m, m.switchIndex)
           = [n \in Names |-> IF store[n] \in Refused THEN Absent ELSE store[n]]
  BY <1>1, CreateEffect, Zenon
<1>3. \A p \in Proxies : mgr[p] = m  BY DEF Init
<1> HIDE DEF m
<1>4. TypeOK
  <2>1. mgr \in [Proxies -> Managers]
    <3>1. mgr = [p \in Proxies |-> m]  BY DEF Init, m
    <3> QED  BY <1>2, <3>1
  <2>2. NoRequest \in Requests
    BY DEF NoRequest, Requests, Documents
  <2>3. req \in [Admins -> Requests] /\ \A a \in Admins : req[a].todo \subseteq req[a].listed
    BY <2>2 DEF Init, NoRequest
  <2>4. restarts \in 0..Restarts  BY ReloadAssumption DEF Init
  <2> QED  BY <1>1, <2>1, <2>3, <2>4 DEF TypeOK, Init
<1>5. SlotsOK  BY <1>2, <1>3 DEF SlotsOK
<1>6. RequestOK
  <2>1. \A a \in Admins : req[a].at = "idle"  BY DEF Init, NoRequest
  <2> QED  BY <2>1 DEF RequestOK
<1>7. SettledOK
  <2>1. \A n \in Names, p \in Proxies : ServesAt(p, n) = store[n]  BY <1>1, <1>2, <1>3 DEF ServesAt
  <2> QED  BY <1>1, <2>1 DEF SettledOK, Init
<1> QED  BY <1>4, <1>5, <1>6, <1>7 DEF IInv

(* What any step that leaves the proxies alone must show.                  *)
LEMMA RequestStep ==
    ASSUME IInv, NEW a \in Admins, NEW r \in Requests, r.todo \subseteq r.listed,
           req' = [req EXCEPT ![a] = r]
    PROVE  /\ req' \in [Admins -> Requests]
           /\ \A b \in Admins : req'[b] = r /\ req'[b].todo \subseteq req'[b].listed
<1>1. req \in [Admins -> Requests]  BY DEF IInv, TypeOK
<1>2. Admins = {a}  BY OneAdmin
<1> QED  BY <1>1, <1>2

\* An administrator that starts a change keeps the invariant.
LEMMA BeginInv ==
    ASSUME IInv, NEW a \in Admins, NEW n \in Names, NEW d \in Documents, NEW at,
           Begin(a, n, d, at),
           \/ at = "listModify" /\ d \in Versions
           \/ at = "listDelete" /\ d = Absent
    PROVE  IInv'
<1> DEFINE r == [NoRequest EXCEPT !.at = at, !.name = n, !.doc = d]
<1>1. /\ r \in Requests /\ r.todo \subseteq r.listed /\ r.at = at /\ r.name = n
  BY Zenon DEF NoRequest, Requests, Documents
<1>2. /\ req' = [req EXCEPT ![a] = r] /\ store' = [store EXCEPT ![n] = d]
      /\ settled' = [settled EXCEPT ![n] = {}]
      /\ mgr' = mgr /\ life' = life /\ entries' = entries /\ restarts' = restarts
  BY DEF Begin
<1> HIDE DEF r
<1>3. req' \in [Admins -> Requests] /\ \A b \in Admins : req'[b] = r /\ req'[b].todo \subseteq req'[b].listed
  BY <1>1, <1>2, RequestStep, Zenon
<1>4. TypeOK'
  BY <1>2, <1>3, Zenon DEF IInv, TypeOK
<1>5. SlotsOK'  BY <1>2 DEF IInv, SlotsOK
<1>6. RequestOK'
  <2>1. store'[n] = d  BY <1>2, Zenon DEF IInv, TypeOK
  <2> QED  BY <1>1, <1>3, <2>1, Zenon DEF RequestOK
<1>7. SettledOK'
  <2>1. ASSUME NEW w \in Names, NEW p \in settled'[w]
        PROVE  store'[w] \notin Refused /\ (life'[p] # "down" => ServesAt(p, w)' = store'[w])
    <3>1. w # n /\ settled'[w] = settled[w] /\ store'[w] = store[w]
      BY <1>2, <2>1, Zenon DEF IInv, TypeOK
    <3>2. ServesAt(p, w)' = ServesAt(p, w)  BY <1>2 DEF ServesAt
    <3> QED  BY <1>2, <2>1, <3>1, <3>2 DEF IInv, SettledOK
  <2> QED  BY <2>1 DEF SettledOK
<1> QED  BY <1>4, <1>5, <1>6, <1>7 DEF IInv

\* The list of proxies of a change keeps the invariant.
LEMMA ListInv ==
    ASSUME IInv, NEW a \in Admins, ListProxies(a)
    PROVE  IInv'
<1> DEFINE at == IF entries = {} THEN "ok" ELSE IF req[a].at = "listModify" THEN "prepare" ELSE "delete"
           r == [req[a] EXCEPT !.listed = entries, !.todo = entries, !.at = at]
<1>1. /\ req[a] \in Requests /\ entries \subseteq Proxies /\ req[a].at \in {"listModify", "listDelete"}
  BY DEF IInv, TypeOK, ListProxies
<1>2. /\ r \in Requests /\ r.todo = entries /\ r.listed = entries /\ r.at = at /\ r.name = req[a].name
  BY <1>1, Zenon DEF Requests
<1>3. req' = [req EXCEPT ![a] = r] /\ UNCHANGED <<store, mgr, life, entries, settled, restarts>>
  BY DEF ListProxies
<1> HIDE DEF r
<1>4. req' \in [Admins -> Requests] /\ \A b \in Admins : req'[b] = r /\ req'[b].todo \subseteq req'[b].listed
  BY <1>2, <1>3, RequestStep, Zenon
<1>5. TypeOK'  BY <1>3, <1>4 DEF IInv, TypeOK
<1>6. SlotsOK'  BY <1>3 DEF IInv, SlotsOK
<1>7. RequestOK'
  <2>1. /\ req[a].name \in Names
        /\ req[a].at = "listModify" => store[req[a].name] \in Versions
        /\ req[a].at = "listDelete" => store[req[a].name] = Absent
    BY <1>1, Zenon DEF IInv, RequestOK
  <2>2. at = "prepare" => req[a].at = "listModify"  BY <1>1
  <2>3. at = "delete" => req[a].at = "listDelete"  BY <1>1
  <2>4. at \in {"prepare", "delete", "ok"}  OBVIOUS
  <2> HIDE DEF at
  <2>5. /\ r.name \in Names /\ r.listed \ r.todo = {} /\ store' = store
        /\ r.at = "prepare" => store[r.name] \in Versions
        /\ r.at = "delete" => store[r.name] = Absent
        /\ r.at \in {"prepare", "delete", "ok"}
    BY <1>2, <1>3, <2>1, <2>2, <2>3, <2>4
  <2> QED  BY <1>4, <2>5, Zenon DEF RequestOK
<1>8. SettledOK'
  BY <1>3 DEF IInv, SettledOK, ServesAt
<1> QED  BY <1>5, <1>6, <1>7, <1>8 DEF IInv

\* A change that is given up keeps the invariant.
LEMMA GiveUpInv ==
    ASSUME IInv, NEW a \in Admins, GiveUp(a)
    PROVE  IInv'
<1>1. NoRequest \in Requests /\ NoRequest.todo \subseteq NoRequest.listed /\ NoRequest.at = "idle"
  BY DEF NoRequest, Requests, Documents
<1>2. req' = [req EXCEPT ![a] = NoRequest] /\ UNCHANGED <<store, mgr, life, entries, settled, restarts>>
  BY DEF GiveUp
<1>3. req' \in [Admins -> Requests]
      /\ \A b \in Admins : req'[b] = NoRequest /\ req'[b].todo \subseteq req'[b].listed
  BY <1>1, <1>2, RequestStep, Zenon
<1>4. TypeOK'  BY <1>2, <1>3, Zenon DEF IInv, TypeOK
<1>5. SlotsOK'  BY <1>2 DEF IInv, SlotsOK
<1>6. RequestOK'  BY <1>1, <1>3, Zenon DEF RequestOK
<1>7. SettledOK'  BY <1>2, Zenon DEF IInv, SettledOK, ServesAt
<1> QED  BY <1>4, <1>5, <1>6, <1>7 DEF IInv

(* A call changes the manager of one proxy.  served is what the proxy      *)
(* serves afterwards.                                                      *)
LEMMA CallInv ==
    ASSUME IInv, NEW a \in Admins, NEW p \in Proxies, NEW here, NEW next, NEW m \in Managers,
           NEW n, n = req[a].name,
           Called(a, p, here, next, m),
           SlotOK(m, m.switchIndex),
           \/ /\ here = "prepare" /\ next = "commit"
              /\ store[n] \notin Refused
              /\ SlotServes(m, m.switchIndex) = SlotServes(mgr[p], mgr[p].switchIndex)
              /\ PreparedFor(m, n, store[n])
           \/ /\ here \in {"commit", "delete"} /\ next = "ok"
              /\ SlotServes(m, m.switchIndex)
                   = [SlotServes(mgr[p], mgr[p].switchIndex) EXCEPT ![n] = store[n]]
    PROVE  IInv'
<1> DEFINE todo == req[a].todo \ {p}
           at == IF todo # {} THEN here ELSE next
           r == [req[a] EXCEPT !.at = at,
                   !.todo = IF at = "commit" /\ here = "prepare" THEN req[a].listed ELSE todo]
<1>1. /\ req \in [Admins -> Requests] /\ req[a] \in Requests /\ req[a].todo \subseteq req[a].listed
      /\ req[a].listed \subseteq Proxies /\ mgr \in [Proxies -> Managers]
  <2>1. /\ req \in [Admins -> Requests] /\ req[a] \in Requests /\ req[a].todo \subseteq req[a].listed
        /\ mgr \in [Proxies -> Managers]
    BY Zenon DEF IInv, TypeOK
  <2> QED  BY <2>1 DEF Requests
<1>2. /\ req[a].at = here /\ p \in req[a].todo /\ life[p] = "up" /\ mgr' = [mgr EXCEPT ![p] = m]
      /\ UNCHANGED <<store, life, entries, restarts>>
  BY Zenon DEF Called
<1>3. /\ n \in Names
      /\ here \in {"prepare", "commit"} => store[n] \in Versions
      /\ here = "delete" => store[n] = Absent
      /\ here \in {"prepare", "commit", "delete"}
      /\ here = "commit" => store[n] \notin Refused
      /\ here = "prepare" => \A q \in req[a].listed \ req[a].todo : Ready(q, n)
      /\ here = "commit" => \A q \in req[a].todo : Ready(q, n)
      /\ here \in {"commit", "delete"} =>
           \A q \in req[a].listed \ req[a].todo : life[q] # "down" => ServesAt(q, n) = store[n]
  <2>1. here \in {"prepare", "commit", "delete"}  BY Zenon
  <2> QED  BY <1>2, <2>1, Zenon DEF IInv, RequestOK
<1>4. store \in [Names -> Documents]  BY Zenon DEF IInv, TypeOK
<1>n. store[n] \notin Refused
  BY <1>3, ManagerAssumption, ReloadAssumption, Zenon
<1>5. mgr'[p] = m /\ \A q \in Proxies \ {p} : mgr'[q] = mgr[q]
  BY <1>1, <1>2, Zenon
<1>6. SlotsOK'
  BY <1>5, Zenon DEF IInv, SlotsOK
<1>7. \A q \in Proxies \ {p}, w \in Names :
        (Ready(q, w)' <=> Ready(q, w)) /\ ServesAt(q, w)' = ServesAt(q, w)
  BY <1>2, <1>5, Zenon DEF Ready, ServesAt
<1>8. \A w \in Names : ServesAt(p, w)' = IF here # "prepare" /\ w = n THEN store[n] ELSE ServesAt(p, w)
  <2>1. \A w \in Names : ServesAt(p, w)' = SlotServes(m, m.switchIndex)[w]  BY <1>5, Zenon DEF ServesAt
  <2>2. SlotServes(mgr[p], mgr[p].switchIndex) \in [Names -> Documents]
    <3>1. mgr[p] \in Managers  BY <1>1, Zenon
    <3>2. mgr[p].switchIndex \in Slots  BY <3>1, Zenon DEF Managers
    <3> QED  BY <3>1, <3>2, ServesTyped, Zenon
  <2>3. CASE here = "prepare"
    BY <2>1, <2>3, Zenon DEF ServesAt
  <2>4. CASE here # "prepare"
    <3>1. SlotServes(m, m.switchIndex) = [SlotServes(mgr[p], mgr[p].switchIndex) EXCEPT ![n] = store[n]]
      BY <2>4, Zenon
    <3> QED  BY <2>1, <2>2, <2>4, <3>1, Zenon DEF ServesAt
  <2> QED  BY <2>3, <2>4, Zenon
<1>9. here = "prepare" => Ready(p, n)'
  BY <1>2, <1>5, Zenon DEF Ready
<1>10. \A w \in Names : \A q \in settled[w] :
         store'[w] \notin Refused /\ (life'[q] # "down" => ServesAt(q, w)' = store'[w])
  <2> SUFFICES ASSUME NEW w \in Names, NEW q \in settled[w]
               PROVE  store'[w] \notin Refused /\ (life'[q] # "down" => ServesAt(q, w)' = store'[w])
    BY Zenon
  <2>1. q \in Proxies  BY Zenon DEF IInv, TypeOK
  <2>2. store[w] \notin Refused /\ (life[q] # "down" => ServesAt(q, w) = store[w])
    BY Zenon DEF IInv, SettledOK
  <2>3. store'[w] = store[w] /\ life'[q] = life[q]  BY <1>2, Zenon
  <2>4. CASE q = p  BY <1>8, <2>2, <2>3, <2>4, Zenon
  <2>5. CASE q # p  BY <1>7, <2>1, <2>2, <2>3, <2>5, ZenonT(40)
  <2> QED  BY <2>4, <2>5, Zenon
<1>11. CASE Proceed(a, todo, here, next)
  <2>1. req' = [req EXCEPT ![a] = r]
    BY <1>11 DEF Proceed
  <2>2. settled' = settled \/ (at = "ok" /\ settled' = [settled EXCEPT ![n] = req[a].listed])
    BY <1>11 DEF Proceed
  <2>3. /\ r \in Requests /\ r.todo \subseteq r.listed /\ r.at = at /\ r.name = n
        /\ r.listed = req[a].listed
        /\ r.todo = IF at = "commit" /\ here = "prepare" THEN req[a].listed ELSE todo
    <3>1. at \in {"prepare", "commit", "delete", "ok"}  BY <1>3, Zenon
    <3>2. r \in Requests /\ r.at = at /\ r.name = n /\ r.listed = req[a].listed
          /\ r.todo = IF at = "commit" /\ here = "prepare" THEN req[a].listed ELSE todo
      <4> HIDE DEF at
      <4> QED  BY <1>1, <3>1, Zenon DEF Requests
    <3> QED  BY <1>1, <3>2
  <2> HIDE DEF r
  <2>4. req' \in [Admins -> Requests] /\ \A b \in Admins : req'[b] = r /\ req'[b].todo \subseteq req'[b].listed
    BY <2>1, <2>3, RequestStep, Zenon
  <2>5. TypeOK'
    <3>1. settled' \in [Names -> SUBSET Proxies]
      BY <1>1, <1>3, <2>2, Zenon DEF IInv, TypeOK
    <3>2. mgr' \in [Proxies -> Managers]  BY <1>1, <1>2, Zenon
    <3> QED  BY <1>2, <2>4, <3>1, <3>2, Zenon DEF IInv, TypeOK
  (* Who has been called in this phase.                                    *)
  <2>6. \A q \in req[a].listed \ todo : here = "prepare" => Ready(q, n)'
    BY <1>1, <1>3, <1>7, <1>9, Zenon
  <2>7. \A q \in req[a].listed \ todo :
           here \in {"commit", "delete"} /\ life'[q] # "down" => ServesAt(q, n)' = store'[n]
    <3> SUFFICES ASSUME NEW q \in req[a].listed \ todo, here \in {"commit", "delete"}, life'[q] # "down"
                 PROVE  ServesAt(q, n)' = store'[n]
      BY Zenon
    <3>1. store'[n] = store[n] /\ life'[q] = life[q]  BY <1>2, Zenon
    <3>2. CASE q = p  BY <1>3, <1>8, <3>1, <3>2, Zenon
    <3>3. CASE q # p
      <4>1. q \in Proxies \ {p} /\ q \in req[a].listed \ req[a].todo  BY <1>1, <3>3, Zenon
      <4>2. ServesAt(q, n)' = ServesAt(q, n)  BY <1>3, <1>7, <4>1, Zenon
      <4>3. ServesAt(q, n) = store[n]  BY <1>3, <3>1, <4>1, Zenon
      <4> QED  BY <3>1, <4>2, <4>3, Zenon
    <3> QED  BY <3>2, <3>3, Zenon
  <2>8. \A q \in todo : here = "commit" => Ready(q, n)'
    BY <1>1, <1>3, <1>7, Zenon
  <2>9. RequestOK'
    <3>1. CASE todo # {}
      <4>1. r.at = here /\ r.todo = todo  BY <2>3, <3>1, Zenon
      <4> HIDE DEF todo, at
      <4> QED  BY <1>2, <1>3, <2>3, <2>4, <2>6, <2>7, <2>8, <4>1, ZenonT(40) DEF RequestOK
    <3>2. CASE todo = {}
      <4>1. CASE here = "prepare"
        <5>1. r.at = "commit" /\ r.todo = req[a].listed  BY <2>3, <3>2, <4>1, Zenon
        <5>2. \A q \in r.todo : Ready(q, n)'  BY <2>6, <3>2, <4>1, <5>1, Zenon
        <5> HIDE DEF todo, at
        <5> QED  BY <1>2, <1>3, <1>n, <2>3, <2>4, <4>1, <5>1, <5>2, Zenon DEF RequestOK
      <4>2. CASE here # "prepare"
        <5>1. r.at = "ok"  BY <2>3, <3>2, <4>2, Zenon
        <5> QED  BY <1>3, <2>3, <2>4, <5>1, Zenon DEF RequestOK
      <4> QED  BY <4>1, <4>2, Zenon
    <3> QED  BY <3>1, <3>2, Zenon
  <2>10. SettledOK'
    <3>1. CASE settled' = settled
      BY <1>10, <3>1, Zenon DEF SettledOK
    <3>2. CASE at = "ok" /\ settled' = [settled EXCEPT ![n] = req[a].listed]
      <4>1. todo = {} /\ here \in {"commit", "delete"}  BY <1>3, <3>2, Zenon
      <4>2. settled'[n] = req[a].listed /\ \A w \in Names \ {n} : settled'[w] = settled[w]
        BY <1>3, <3>2, Zenon DEF IInv, TypeOK
      <4>3. \A q \in settled'[n] :
               store'[n] \notin Refused /\ (life'[q] # "down" => ServesAt(q, n)' = store'[n])
        BY <1>2, <1>n, <2>7, <4>1, <4>2, Zenon
      <4> QED  BY <1>10, <4>2, <4>3, Zenon DEF SettledOK
    <3> QED  BY <2>2, <3>1, <3>2, Zenon
  <2> QED  BY <1>6, <2>5, <2>9, <2>10, Zenon DEF IInv
<1>12. CASE req' = [req EXCEPT ![a] = NoRequest] /\ UNCHANGED settled
  <2>1. NoRequest \in Requests /\ NoRequest.todo \subseteq NoRequest.listed /\ NoRequest.at = "idle"
    BY Zenon DEF NoRequest, Requests, Documents
  <2>2. req' \in [Admins -> Requests]
        /\ \A b \in Admins : req'[b] = NoRequest /\ req'[b].todo \subseteq req'[b].listed
    BY <1>12, <2>1, RequestStep, Zenon
  <2>3. TypeOK'
    <3>1. mgr' \in [Proxies -> Managers]  BY <1>1, <1>2, Zenon
    <3> QED  BY <1>2, <1>12, <2>2, <3>1, Zenon DEF IInv, TypeOK
  <2>4. RequestOK'  BY <2>1, <2>2, Zenon DEF RequestOK
  <2>5. SettledOK'  BY <1>10, <1>12, Zenon DEF SettledOK
  <2> QED  BY <1>6, <2>3, <2>4, <2>5 DEF IInv
<1> QED  BY <1>11, <1>12, Zenon DEF Called

\* The preparation of a namespace on one proxy keeps the invariant.
LEMMA PrepareInv ==
    ASSUME IInv, NEW a \in Admins, NEW p \in Proxies, PrepareConfig(a, p)
    PROVE  IInv'
<1> DEFINE n == req[a].name
           o == CHOOSE o \in Unused(mgr[p]) : TRUE
           m == ReloadNamespacePrepare(mgr[p], n, store[n], o)
<1>1. /\ n \in Names /\ store[n] \in Versions /\ store[n] \notin Refused
      /\ o \in Unused(mgr[p]) /\ Called(a, p, "prepare", "commit", m)
  BY Zenon DEF PrepareConfig, IInv, TypeOK, Documents
<1>2. mgr[p] \in Managers /\ SlotOK(mgr[p], mgr[p].switchIndex)
  BY Zenon DEF IInv, TypeOK, SlotsOK
<1> HIDE DEF n, o
<1>3. /\ m \in Managers /\ SlotOK(m, m.switchIndex)
      /\ SlotServes(m, m.switchIndex) = SlotServes(mgr[p], mgr[p].switchIndex)
      /\ PreparedFor(m, n, store[n])
  BY <1>1, <1>2, PrepareEffect
<1>4. n = req[a].name  BY DEF n
<1> HIDE DEF m
<1> QED  BY <1>1, <1>3, <1>4, CallInv, Zenon

\* The commit of a namespace on one proxy keeps the invariant.
LEMMA CommitInv ==
    ASSUME IInv, NEW a \in Admins, NEW p \in Proxies, CommitConfig(a, p)
    PROVE  IInv'
<1> DEFINE n == req[a].name
           m == ReloadNamespaceCommit(mgr[p], n)
<1>1. /\ mgr[p].reloadPrepared /\ Called(a, p, "commit", "ok", m)
      /\ req[a].at = "commit" /\ p \in req[a].todo
  BY Zenon DEF CommitConfig, CanCommit, Called
<1>2. mgr[p] \in Managers /\ SlotOK(mgr[p], mgr[p].switchIndex)
  BY DEF IInv, TypeOK, SlotsOK
<1>3. n \in Names /\ store[n] \in Versions /\ Ready(p, n)
  BY <1>1, Zenon DEF IInv, RequestOK
<1>4. PreparedFor(mgr[p], n, store[n])  BY <1>1, <1>3 DEF Ready
<1> HIDE DEF n
<1>5. /\ m \in Managers /\ SlotOK(m, m.switchIndex)
      /\ SlotServes(m, m.switchIndex) = [SlotServes(mgr[p], mgr[p].switchIndex) EXCEPT ![n] = store[n]]
  BY <1>2, <1>3, <1>4, CommitEffect
<1>6. n = req[a].name  BY DEF n
<1> HIDE DEF m
<1> QED  BY <1>1, <1>5, <1>6, CallInv, Zenon

\* The deletion of a namespace on one proxy keeps the invariant.
LEMMA DeleteInv ==
    ASSUME IInv, NEW a \in Admins, NEW p \in Proxies, DeleteConfig(a, p)
    PROVE  IInv'
<1> DEFINE n == req[a].name
           m == DeleteNamespace(mgr[p], n)
<1>1. Called(a, p, "delete", "ok", m) /\ req[a].at = "delete"
  BY DEF DeleteConfig, Called
<1>2. mgr[p] \in Managers /\ SlotOK(mgr[p], mgr[p].switchIndex)
  BY DEF IInv, TypeOK, SlotsOK
<1>3. n \in Names /\ store[n] = Absent
  BY <1>1, Zenon DEF IInv, RequestOK
<1> HIDE DEF n
<1>4. /\ m \in Managers /\ SlotOK(m, m.switchIndex)
      /\ SlotServes(m, m.switchIndex) = [SlotServes(mgr[p], mgr[p].switchIndex) EXCEPT ![n] = Absent]
  BY <1>2, <1>3, DeleteEffect
<1>5. n = req[a].name  BY DEF n
<1> HIDE DEF m
<1> QED  BY <1>1, <1>3, <1>4, <1>5, CallInv, Zenon

(* A proxy starts or stops; what the others serve stays.                   *)
LEMMA ProxyInv ==
    ASSUME IInv, NEW p \in Proxies, Stop(p) \/ Load(p) \/ RegisterProxy(p)
    PROVE  IInv'
<1>1. /\ store' = store /\ req' = req /\ settled' = settled
      /\ store \in [Names -> Documents] /\ mgr \in [Proxies -> Managers]
      /\ life \in [Proxies -> {"down", "loaded", "up"}]
      /\ req \in [Admins -> Requests] /\ settled \in [Names -> SUBSET Proxies]
  BY Zenon DEF Stop, Load, RegisterProxy, IInv, TypeOK
<1> DEFINE m == CreateManager(store, FirstObjects, Refused)
<1>2. /\ m \in Managers /\ ~m.reloadPrepared /\ SlotOK(m, m.switchIndex)
      /\ SlotServes(m, m.switchIndex)
           = [n \in Names |-> IF store[n] \in Refused THEN Absent ELSE store[n]]
  BY <1>1, CreateEffect
<1>3. mgr' = mgr \/ (mgr' = [mgr EXCEPT ![p] = m] /\ life[p] = "down")
  BY DEF Stop, Load, RegisterProxy
<1>4. (mgr' = mgr /\ (life'[p] # "down" => life[p] # "down")) \/ mgr'[p] = m
  BY <1>1 DEF Stop, Load, RegisterProxy
<1> HIDE DEF m
<1>5. \A q \in Proxies \ {p} : mgr'[q] = mgr[q] /\ life'[q] = life[q]
  BY <1>1, <1>3 DEF Stop, Load, RegisterProxy
<1>6. TypeOK'
  <2>1. mgr' \in [Proxies -> Managers]  BY <1>1, <1>2, <1>3
  <2>2. life' \in [Proxies -> {"down", "loaded", "up"}]  BY <1>1 DEF Stop, Load, RegisterProxy
  <2>3. entries' \subseteq Proxies  BY DEF Stop, Load, RegisterProxy, IInv, TypeOK
  <2>4. restarts' \in 0..Restarts
    <3>1. restarts \in 0..Restarts /\ Restarts \in Nat  BY ReloadAssumption, Zenon DEF IInv, TypeOK
    <3>2. restarts' = restarts \/ (restarts < Restarts /\ restarts' = restarts + 1)
      BY DEF Stop, Load, RegisterProxy
    <3> QED  BY <3>1, <3>2
  <2> QED  BY <1>1, <2>1, <2>2, <2>3, <2>4, Zenon DEF IInv, TypeOK
<1>7. SlotsOK'  BY <1>1, <1>2, <1>3 DEF IInv, SlotsOK
<1>8. \A q \in Proxies, n \in Names : Ready(q, n) => Ready(q, n)'
  <2> SUFFICES ASSUME NEW q \in Proxies, NEW n \in Names, Ready(q, n) PROVE Ready(q, n)'  OBVIOUS
  <2>1. CASE mgr'[q] = mgr[q]  BY <1>1, <2>1 DEF Ready
  <2>2. CASE mgr'[q] = m  BY <1>2, <2>2 DEF Ready
  <2> QED  BY <1>4, <1>5, <2>1, <2>2
<1>9. \A q \in Proxies, n \in Names :
        store[n] \notin Refused /\ (life[q] # "down" => ServesAt(q, n) = store[n])
          => (life'[q] # "down" => ServesAt(q, n)' = store'[n])
  <2> SUFFICES ASSUME NEW q \in Proxies, NEW n \in Names, store[n] \notin Refused, life'[q] # "down",
                      life[q] # "down" => ServesAt(q, n) = store[n]
               PROVE  ServesAt(q, n)' = store'[n]
    BY Zenon
  <2>1. CASE q = p /\ mgr'[p] = m
    <3>1. ServesAt(q, n)' = SlotServes(m, m.switchIndex)[n]  BY <2>1, Zenon DEF ServesAt
    <3> QED  BY <1>1, <1>2, <3>1
  <2>2. CASE mgr'[q] = mgr[q] /\ life[q] # "down"
    <3>1. ServesAt(q, n)' = ServesAt(q, n)  BY <2>2, Zenon DEF ServesAt
    <3> QED  BY <1>1, <2>2, <3>1, Zenon
  <2> QED  BY <1>4, <1>5, <2>1, <2>2, Zenon
<1>10. RequestOK'
  <2> SUFFICES ASSUME NEW a \in Admins PROVE
        LET r == req[a] IN
        /\ r.at # "idle" => r.name \in Names
        /\ r.at \in {"listModify", "prepare", "commit"} => store'[r.name] \in Versions
        /\ r.at \in {"listDelete", "delete"} => store'[r.name] = Absent
        /\ r.at = "commit" => store'[r.name] \notin Refused
        /\ r.at = "prepare" => \A q \in r.listed \ r.todo : Ready(q, r.name)'
        /\ r.at = "commit" => \A q \in r.todo : Ready(q, r.name)'
        /\ r.at \in {"commit", "delete"} =>
             \A q \in r.listed \ r.todo : life'[q] # "down" => ServesAt(q, r.name)' = store'[r.name]
    BY <1>1, ZenonT(40) DEF RequestOK
  <2>1. req[a].listed \subseteq Proxies /\ req[a].todo \subseteq Proxies  BY <1>1 DEF Requests
  <2>2. req[a].at \in {"commit", "delete"} => store[req[a].name] \notin Refused
    BY ManagerAssumption, ReloadAssumption, Zenon DEF IInv, RequestOK
  <2> QED  BY <1>1, <1>8, <1>9, <2>1, <2>2, Zenon DEF IInv, RequestOK
<1>11. SettledOK'
  <2>1. \A n \in Names : \A q \in settled[n] : q \in Proxies  BY <1>1
  <2> QED  BY <1>1, <1>9, <2>1 DEF IInv, SettledOK
<1> QED  BY <1>6, <1>7, <1>10, <1>11 DEF IInv

\* Every step keeps the invariant.
LEMMA NextInv == IInv /\ [Next]_vars => IInv'
<1> SUFFICES ASSUME IInv, [Next]_vars PROVE IInv'  OBVIOUS
<1>1. ASSUME NEW a \in Admins, ModifyNamespace(a) PROVE IInv'
  <2>1. PICK d \in Submitted : Begin(a, d[1], d[2], "listModify")  BY <1>1 DEF ModifyNamespace
  <2>2. d[1] \in Names /\ d[2] \in Versions /\ d[2] \in Documents
    BY ReloadAssumption DEF Documents
  <2> QED  BY <2>1, <2>2, BeginInv
<1>2. ASSUME NEW a \in Admins, DelNamespace(a) PROVE IInv'
  <2>1. Absent \in Documents  BY DEF Documents
  <2> QED  BY <1>2, <2>1, BeginInv DEF DelNamespace
<1>3. ASSUME NEW a \in Admins, ListProxies(a) PROVE IInv'  BY <1>3, ListInv
<1>4. ASSUME NEW a \in Admins, GiveUp(a) PROVE IInv'  BY <1>4, GiveUpInv
<1>5. ASSUME NEW a \in Admins, NEW p \in Proxies, PrepareConfig(a, p) PROVE IInv'  BY <1>5, PrepareInv
<1>6. ASSUME NEW a \in Admins, NEW p \in Proxies, CommitConfig(a, p) PROVE IInv'  BY <1>6, CommitInv
<1>7. ASSUME NEW a \in Admins, NEW p \in Proxies, DeleteConfig(a, p) PROVE IInv'  BY <1>7, DeleteInv
<1>8. ASSUME NEW p \in Proxies, Stop(p) \/ Load(p) \/ RegisterProxy(p) PROVE IInv'  BY <1>8, ProxyInv
<1>9. CASE UNCHANGED vars
  BY <1>9, ZenonT(40) DEF vars, IInv, TypeOK, SlotsOK, RequestOK, SettledOK, Ready, ServesAt
<1> QED  BY <1>1, <1>2, <1>3, <1>4, <1>5, <1>6, <1>7, <1>8, <1>9 DEF Next

\* The invariant holds in every reachable state.
LEMMA Invariance == Spec => []IInv
BY InitInv, NextInv, PTL DEF Spec

-----------------------------------------------------------------------------
(* Whatever the number of proxies and documents: the variables keep their  *)
(* types and only listed proxies are called (ModifyNamespace,              *)
(* DelNamespace).                                                          *)
THEOREM ReloadTypeCorrect == Spec => []TypeOK
<1>1. IInv => TypeOK  BY DEF IInv
<1> QED  BY <1>1, Invariance, PTL

(* A proxy never serves a namespace it has begun to close: the flip of     *)
(* ReloadNamespaceCommit and DeleteNamespace always takes the closed one   *)
(* out of service.                                                         *)
THEOREM ServedStaysOpen == Spec => []CurrentOpen
<1>1. IInv => CurrentOpen
  BY Zenon DEF IInv, SlotsOK, SlotOK, CurrentOpen, GetNamespace, Current
<1> QED  BY <1>1, Invariance, PTL

(* The users that can log in to a proxy are exactly those of the namespace *)
(* versions it serves, although the tables are rebuilt from one another by *)
(* ClearNamespaceUsers and addNamespaceUsers.                              *)
THEOREM UsersFollowNamespaces == Spec => []UsersMatch
<1>1. IInv => UsersMatch
  <2> SUFFICES ASSUME IInv, NEW p \in Proxies, NEW u \in Users
               PROVE  LET m == mgr[p]
                          um == m.users[m.switchIndex] IN
                      /\ \A n \in Names : GetNamespace(m, n) # None =>
                           (um.userNamespaces[KeyOf(u)] = n <=> u \in UsersOf(n, Serves(m, n)))
                      /\ u[2] \in um.users[u[1]] <=> um.userNamespaces[KeyOf(u)] # None
    BY Zenon DEF UsersMatch
  <2>1. mgr[p] \in Managers /\ SlotOK(mgr[p], mgr[p].switchIndex)  BY Zenon DEF IInv, TypeOK, SlotsOK
  <2>2. \A n \in Names : Serves(mgr[p], n) = SlotServes(mgr[p], mgr[p].switchIndex)[n]
    BY <2>1, ServesCurrent
  <2>3. \A n \in Names : GetNamespace(mgr[p], n) # None => Serves(mgr[p], n) # Absent
    BY <2>1, ManagerAssumption, Zenon DEF SlotOK, GetNamespace, Current, Serves
  <2>4. Agrees(mgr[p].users[mgr[p].switchIndex], SlotServes(mgr[p], mgr[p].switchIndex))
    BY <2>1, Zenon DEF SlotOK
  <2> QED  BY <2>2, <2>3, <2>4, Zenon DEF Agrees
<1> QED  BY <1>1, Invariance, PTL

(* With one administrator at a time a successful change lasts: neither     *)
(* half-way failures of other changes nor crashes and restarts take it     *)
(* back on a proxy that was listed.                                        *)
THEOREM SuccessLasts == Spec => []SuccessStays
<1>1. IInv => SuccessStays
  <2> SUFFICES ASSUME IInv, NEW n \in Names, NEW p \in settled[n], life[p] = "up"
               PROVE  Serves(mgr[p], n) = store[n]
    BY Zenon DEF SuccessStays
  <2>1. p \in Proxies /\ mgr[p] \in Managers  BY DEF IInv, TypeOK
  <2>2. ServesAt(p, n) = store[n]  BY DEF IInv, SettledOK
  <2> QED  BY <2>1, <2>2, ServesCurrent, Zenon DEF ServesAt
<1> QED  BY <1>1, Invariance, PTL

(* A step of the cluster changes what a running proxy serves in one        *)
(* namespace only, the one whose commit or deletion is under way: the      *)
(* prepared slot differs from the current one in that namespace alone.     *)
THEOREM ChangesOnlyNamed == Spec => OnlyNamed
<1> DEFINE A == \A p \in Proxies, n \in Names :
                  Serves(mgr'[p], n) # Serves(mgr[p], n) =>
                    \/ life[p] = "down"
                    \/ \E a \in Admins : req[a].name = n /\ req[a].at \in {"commit", "delete"}
<1>1. IInv /\ [Next]_vars => [A]_vars
  <2> SUFFICES ASSUME IInv, Next PROVE A  OBVIOUS
  <2>0. /\ mgr \in [Proxies -> Managers] /\ store \in [Names -> Documents]
        /\ \A p \in Proxies : mgr[p] \in Managers /\ SlotOK(mgr[p], mgr[p].switchIndex)
    BY DEF IInv, TypeOK, SlotsOK
  <2>1. CASE mgr' = mgr  BY <2>1
  <2>2. ASSUME NEW a \in Admins, NEW q \in Proxies, PrepareConfig(a, q) PROVE A
    <3> DEFINE n == req[a].name
               o == CHOOSE o \in Unused(mgr[q]) : TRUE
               m == ReloadNamespacePrepare(mgr[q], n, store[n], o)
    <3>1. /\ n \in Names /\ store[n] \in Versions /\ o \in Unused(mgr[q]) /\ mgr' = [mgr EXCEPT ![q] = m]
      BY <2>0, <2>2, Zenon DEF PrepareConfig, Called, Documents
    <3> HIDE DEF n, o
    <3>2. m \in Managers /\ SlotServes(m, m.switchIndex) = SlotServes(mgr[q], mgr[q].switchIndex)
      BY <2>0, <3>1, PrepareEffect
    <3> HIDE DEF m
    <3>3. \A w \in Names : Serves(m, w) = Serves(mgr[q], w)
      BY <2>0, <3>2, ServesCurrent
    <3> QED  BY <2>0, <3>1, <3>3, Zenon
  <2>3. ASSUME NEW a \in Admins, NEW q \in Proxies, NEW m \in Managers, NEW d, NEW n \in Names,
               n = req[a].name, req[a].at \in {"commit", "delete"}, mgr' = [mgr EXCEPT ![q] = m],
               SlotServes(m, m.switchIndex) = [SlotServes(mgr[q], mgr[q].switchIndex) EXCEPT ![n] = d]
        PROVE  A
    <3>1. \A w \in Names \ {n} : Serves(m, w) = Serves(mgr[q], w)
      <4>1. mgr[q].switchIndex \in Slots  BY <2>0 DEF Managers
      <4>2. SlotServes(mgr[q], mgr[q].switchIndex) \in [Names -> Documents]
        BY <2>0, <4>1, ServesTyped, Zenon
      <4>3. \A w \in Names \ {n} : SlotServes(m, m.switchIndex)[w] = SlotServes(mgr[q], mgr[q].switchIndex)[w]
        BY <2>3, <4>2
      <4> QED  BY <2>0, <4>3, ServesCurrent, Zenon
    <3> QED  BY <2>0, <2>3, <3>1, Zenon
  <2>4. ASSUME NEW a \in Admins, NEW q \in Proxies, CommitConfig(a, q) PROVE A
    <3> DEFINE n == req[a].name
               m == ReloadNamespaceCommit(mgr[q], n)
    <3>1. /\ mgr[q].reloadPrepared /\ mgr' = [mgr EXCEPT ![q] = m] /\ req[a].at = "commit" /\ q \in req[a].todo
      BY <2>4, Zenon DEF CommitConfig, CanCommit, Called
    <3>2. n \in Names /\ store[n] \in Versions /\ Ready(q, n)  BY <3>1, Zenon DEF IInv, RequestOK
    <3>3. PreparedFor(mgr[q], n, store[n])  BY <3>1, <3>2 DEF Ready
    <3>4. n = req[a].name  OBVIOUS
    <3> HIDE DEF n
    <3>5. m \in Managers
          /\ SlotServes(m, m.switchIndex) = [SlotServes(mgr[q], mgr[q].switchIndex) EXCEPT ![n] = store[n]]
      BY <2>0, <3>2, <3>3, CommitEffect
    <3> HIDE DEF m, A
    <3> QED  BY <2>3, <3>1, <3>2, <3>4, <3>5, Zenon
  <2>5. ASSUME NEW a \in Admins, NEW q \in Proxies, DeleteConfig(a, q) PROVE A
    <3> DEFINE n == req[a].name
               m == DeleteNamespace(mgr[q], n)
    <3>1. mgr' = [mgr EXCEPT ![q] = m] /\ req[a].at = "delete"
      BY <2>5, Zenon DEF DeleteConfig, Called
    <3>2. n \in Names  BY <3>1, Zenon DEF IInv, RequestOK
    <3>3. n = req[a].name  OBVIOUS
    <3> HIDE DEF n
    <3>4. m \in Managers
          /\ SlotServes(m, m.switchIndex) = [SlotServes(mgr[q], mgr[q].switchIndex) EXCEPT ![n] = Absent]
      BY <2>0, <3>2, DeleteEffect, Zenon
    <3> HIDE DEF m, A
    <3> QED  BY <2>3, <3>1, <3>2, <3>3, <3>4, Zenon
  <2>6. ASSUME NEW q \in Proxies, Load(q) PROVE A
    <3>1. life[q] = "down" /\ \A p \in Proxies \ {q} : mgr'[p] = mgr[p]
      BY <2>0, <2>6 DEF Load
    <3> QED  BY <3>1
  <2>7. \/ mgr' = mgr
        \/ \E a \in Admins, q \in Proxies : PrepareConfig(a, q) \/ CommitConfig(a, q) \/ DeleteConfig(a, q)
        \/ \E q \in Proxies : Load(q)
    BY Zenon DEF Next, ModifyNamespace, DelNamespace, Begin, ListProxies, GiveUp, Stop, RegisterProxy
  <2> QED  BY <2>1, <2>2, <2>4, <2>5, <2>6, <2>7, Zenon
<1>2. OnlyNamed <=> [][A]_vars  BY DEF OnlyNamed
<1> HIDE DEF A
<1> QED  BY <1>1, <1>2, Invariance, PTL DEF Spec

=============================================================================
