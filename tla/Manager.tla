------------------------------- MODULE Manager -------------------------------
(***************************************************************************)
(* proxy/server/manager.go: the namespaces and users of one proxy, kept in *)
(* two slots of which switchIndex names the current one.  A change is      *)
(* built in the other slot and takes effect by flipping the index.         *)
(*                                                                         *)
(* The manager is a value and its operations are functions on it, so that  *)
(* a system of several proxies can be written with one variable.           *)
(***************************************************************************)
EXTENDS Naturals, Sequences

CONSTANTS
    Names,        \* names of namespaces
    Objects,      \* *Namespace objects of a proxy
    None,         \* the nil *Namespace
    Versions,     \* contents a namespace document can have
    Absent,       \* the document of a namespace that does not exist
    Users,        \* pairs <<user name, password>>
    UsersOf(_,_)  \* the users in version v of namespace n

ASSUME ManagerAssumption ==
    /\ None \notin Objects
    /\ None \notin Names
    /\ Absent \notin Versions
    /\ \A n \in Names, v \in Versions : UsersOf(n, v) \subseteq Users

Slots == {0, 1}

UserNames == {u[1] : u \in Users}
Passwords == {u[2] : u \in Users}

(* User names and passwords are sequences of the pieces between their      *)
(* colons: <<"a", "b">> is "a:b".                                          *)
getUserKey(username, password) == username \o password

getUserAndPasswordFromKey(key) == <<SubSeq(key, 1, 1), SubSeq(key, 2, 2)>>

KeyOf(u) == getUserKey(u[1], u[2])

Keys == {KeyOf(u) : u \in Users}

-----------------------------------------------------------------------------
(* UserManager: userNamespaces maps a key to its namespace (None: no such  *)
(* key), users maps a user name to its passwords.                          *)

NoUsers == [userNamespaces |-> [k \in Keys |-> None], users |-> [u \in UserNames |-> {}]]

(* Delete the namespace's keys, and their passwords from the user's list;  *)
(* a password that is not in the list empties the list.                    *)
ClearNamespaceUsers(um, n) ==
    LET gone == {getUserAndPasswordFromKey(k) : k \in {k \in Keys : um.userNamespaces[k] = n}}
        kept(u) == IF \E g \in gone : g[1] = u /\ g[2] \notin um.users[u] THEN {}
                   ELSE {p \in um.users[u] : <<u, p>> \notin gone}
    IN  [userNamespaces |-> [k \in Keys |-> IF um.userNamespaces[k] = n THEN None
                                            ELSE um.userNamespaces[k]],
         users |-> [u \in UserNames |-> kept(u)]]

addNamespaceUsers(um, n, v) ==
    [userNamespaces |-> [k \in Keys |-> IF \E u \in UsersOf(n, v) : KeyOf(u) = k THEN n
                                        ELSE um.userNamespaces[k]],
     users |-> [u \in UserNames |-> um.users[u] \cup {p \in Passwords : <<u, p>> \in UsersOf(n, v)}]]

RebuildNamespaceUsers(um, n, v) == addNamespaceUsers(ClearNamespaceUsers(um, n), n, v)

-----------------------------------------------------------------------------
(* Manager.  namespaces and users have a slot each; config is the content  *)
(* each object was built from; closing holds the objects whose Close(true) *)
(* has been started, which closes their pools 60 seconds later.            *)

Other(m) == 1 - m.switchIndex

Current(m) == m.namespaces[m.switchIndex]

GetNamespace(m, n) == Current(m)[n]

(* The version of namespace n that new statements use.                     *)
Serves(m, n) == IF GetNamespace(m, n) = None THEN Absent ELSE m.config[GetNamespace(m, n)]

Referenced(m) == {o \in Objects : \E i \in Slots, n \in Names : m.namespaces[i][n] = o}

(* Names for a new object: those of objects that no slot refers to.        *)
Unused(m) == Objects \ Referenced(m)

(* ReloadNamespacePrepare once NewNamespace has made object o for version  *)
(* v of n; o may have been the name of an object that is gone.             *)

(* Mutant: the other slot is not copied from the current one.              *)
PrepareOntoOther(m, n, v, o) ==
    [m EXCEPT !.namespaces[Other(m)][n] = o,
              !.config[o] = v,
              !.users[Other(m)] = RebuildNamespaceUsers(m.users[m.switchIndex], n, v),
              !.closing = @ \ {o},
              !.reloadPrepared = TRUE]

ReloadNamespacePrepare(m, n, v, o) ==
    [m EXCEPT !.namespaces[Other(m)] = [Current(m) EXCEPT ![n] = o],
              !.config[o] = v,
              !.users[Other(m)] = RebuildNamespaceUsers(m.users[m.switchIndex], n, v),
              !.closing = @ \ {o},
              !.reloadPrepared = TRUE]

(* go currentNamespace.Close(true), unless there is none.                  *)
CloseLater(m, n) == m.closing \cup ({GetNamespace(m, n)} \ {None})

CanCommit(m) == m.reloadPrepared

(* Mutant: it is the new namespace that is closed.                         *)
CommitClosesNew(m, n) ==
    [m EXCEPT !.reloadPrepared = FALSE,
              !.closing = @ \cup ({m.namespaces[Other(m)][n]} \ {None}),
              !.switchIndex = 1 - @]

ReloadNamespaceCommit(m, n) ==
    [m EXCEPT !.reloadPrepared = FALSE,
              !.closing = CloseLater(m, n),
              !.switchIndex = 1 - @]

DeleteNamespace(m, n) ==
    IF GetNamespace(m, n) = None THEN m
    ELSE [m EXCEPT !.namespaces[Other(m)] = [Current(m) EXCEPT ![n] = None],
                   !.users[Other(m)] = ClearNamespaceUsers(m.users[m.switchIndex], n),
                   !.closing = CloseLater(m, n),
                   !.switchIndex = 1 - @]

(* CreateManager from the documents docs, with object obj[n] for n.  A     *)
(* namespace that NewNamespace refuses is left out; its users are not.     *)
CreateManager(docs, obj, refused) ==
    LET present == {n \in Names : docs[n] # Absent}
        built == {n \in present : docs[n] \notin refused}
        owners(k) == {n \in present : \E u \in UsersOf(n, docs[n]) : KeyOf(u) = k}
    IN  [switchIndex    |-> 0,
         reloadPrepared |-> FALSE,
         namespaces |-> [i \in Slots |-> [n \in Names |-> IF i = 0 /\ n \in built THEN obj[n] ELSE None]],
         config |-> [o \in Objects |-> IF \E n \in built : obj[n] = o
                                         THEN docs[CHOOSE n \in built : obj[n] = o] ELSE Absent],
         users |-> [i \in Slots |-> IF i = 1 THEN NoUsers ELSE
                     [userNamespaces |-> [k \in Keys |-> IF owners(k) = {} THEN None
                                                         ELSE CHOOSE n \in owners(k) : TRUE],
                      users |-> [u \in UserNames |->
                                   {p \in Passwords : \E n \in present : <<u, p>> \in UsersOf(n, docs[n])}]]],
         closing |-> {}]

=============================================================================
