--------------------------- MODULE MCConfigReload ---------------------------
EXTENDS ConfigReload, TLC

(* Two namespaces share the user name "u" with different passwords; the    *)
(* second version of A changes the password, version 3 of B is refused.    *)
User(name, password) == <<<<name>>, <<password>>>>

MCUsersOf(n, v) ==
    CASE n = "A" /\ v = 1 -> {User("u", "x")}
      [] n = "A" /\ v # 1 -> {User("u", "y")}
      [] n = "B" -> {User("u", "z"), User("w", "x")}

MCUsers == UNION {MCUsersOf(n, v) : n \in {"A", "B"}, v \in {1, 2}}

MCSubmitted == {<<"A", 1>>, <<"A", 2>>, <<"B", 1>>, <<"B", 3>>}

(* The states up to the names of objects and slots: of an object only the  *)
(* content and the fate matter, and whether both slots hold it; the other  *)
(* slot is read only by a commit, which needs reloadPrepared.              *)
Seen(m) ==
    LET object(o) == IF o = None THEN None ELSE <<m.config[o], o \in m.closing>>
        slot(i) == <<m.users[i], [n \in Names |-> object(m.namespaces[i][n])]>>
        shared == {n \in Names : m.namespaces[0][n] = m.namespaces[1][n]}
    IN  <<slot(m.switchIndex), IF m.reloadPrepared THEN <<slot(Other(m)), shared>> ELSE {}>>

WithoutObjects == <<store, [p \in Proxies |-> Seen(mgr[p])], life, entries, req, settled, restarts>>

Symmetry == Permutations(Proxies)

=============================================================================
