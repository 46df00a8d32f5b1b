----------------------------- MODULE ConfigReload -----------------------------
(***************************************************************************)
(* Changing the configuration of a cluster: the control centre             *)
(* (cc/service/service.go, cc/proxy) stores the new document of a          *)
(* namespace, lists the registered proxies, and asks each of them to       *)
(* prepare and then each of them to commit (proxy/server/admin.go,         *)
(* server.go, manager.go).  A deletion has one phase.                      *)
(*                                                                         *)
(* A call may fail before it does anything, or do its work and lose the    *)
(* answer (http timeout); either way the request returns an error and      *)
(* leaves the remaining proxies as they are.  Proxies crash at any moment  *)
(* and load all documents from the store when they start, before they      *)
(* register.                                                               *)
(***************************************************************************)
EXTENDS Manager, FiniteSets

CONSTANTS
    Proxies,
    Admins,    \* requests the control centre serves at the same time
    Submitted, \* pairs <<name, version>> that administrators submit
    Refused,   \* versions that pass Verify but not NewNamespace
    Restarts   \* bound: how often proxies start again

ASSUME ReloadAssumption ==
    /\ Submitted \subseteq Names \X Versions
    /\ Refused \subseteq Versions
    /\ Restarts \in Nat
    /\ \E f \in [Names -> Objects] : \A a, b \in Names : a # b => f[a] # f[b]

(* docs/config-reloading.md asks for a global lock around a change; the    *)
(* code has none, so that one administrator works at a time is assumed.    *)
ASSUME OneAdmin == \E a \in Admins : Admins = {a}

(* No user name or password contains a colon.                              *)
ASSUME ColonFree == \A u \in Users : getUserAndPasswordFromKey(KeyOf(u)) = u

(* "username+password is globally unique" (comment on UserManager).        *)
ASSUME UniqueUsers ==
    \A n1, n2 \in Names, v1, v2 \in Versions :
        n1 # n2 => UsersOf(n1, v1) \cap UsersOf(n2, v2) = {}

VARIABLES
    store,     \* the documents in etcd
    mgr,       \* the Manager of each proxy
    life,      \* each proxy: "down", "loaded" or "up"
    entries,   \* proxies with an entry in etcd
    req,       \* the request each administrator has under way
    settled,   \* history: proxies the last, successful change of n reached
    restarts   \* how often a proxy has started again

vars == <<store, mgr, life, entries, req, settled, restarts>>

Documents == Versions \cup {Absent}

(* Which object the factory makes is a matter of naming.                   *)
FirstObjects == CHOOSE f \in [Names -> Objects] : \A a, b \in Names : a # b => f[a] # f[b]

NoRequest == [at |-> "idle", name |-> None, doc |-> Absent, listed |-> {}, todo |-> {}]

Init ==
    /\ store \in [Names -> Documents \ Refused]
    /\ \A n \in Names : store[n] = Absent \/ <<n, store[n]>> \in Submitted
    /\ mgr = [p \in Proxies |-> CreateManager(store, FirstObjects, Refused)]
    /\ life = [p \in Proxies |-> "up"]
    /\ entries = Proxies
    /\ req = [a \in Admins |-> NoRequest]
    /\ settled = [n \in Names |-> Proxies]
    /\ restarts = 0

-----------------------------------------------------------------------------
(* The control centre.                                                     *)

Begin(a, n, d, at) ==
    /\ req[a].at \in {"idle", "ok"}
    /\ store' = [store EXCEPT ![n] = d]
    /\ req' = [req EXCEPT ![a] = [NoRequest EXCEPT !.at = at, !.name = n, !.doc = d]]
    /\ settled' = [settled EXCEPT ![n] = {}]
    /\ UNCHANGED <<mgr, life, entries, restarts>>

(* ModifyNamespace: Verify, Encrypt, UpdateNamespace.                      *)
ModifyNamespace(a) ==
    \E d \in Submitted : Begin(a, d[1], d[2], "listModify")

DelNamespace(a) ==
    \E n \in Names : Begin(a, n, Absent, "listDelete")

(* Return from the request, with success once nobody is left to call.      *)
Proceed(a, todo, phase, next) ==
    LET r == req[a]
        at == IF todo # {} THEN phase ELSE next
    IN  /\ req' = [req EXCEPT ![a] = [r EXCEPT !.at = at,
                     !.todo = IF at = "commit" /\ phase = "prepare" THEN r.listed ELSE todo]]
        /\ settled' = IF at = "ok" /\ store[r.name] = r.doc
                        THEN [settled EXCEPT ![r.name] = r.listed] ELSE settled

(* ListProxyMonitorMetrics: who has an entry.                              *)
ListProxies(a) ==
    LET r == req[a]
        phase == IF r.at = "listModify" THEN "prepare" ELSE "delete"
    IN  /\ r.at \in {"listModify", "listDelete"}
        /\ req' = [req EXCEPT ![a] = [r EXCEPT !.listed = entries, !.todo = entries,
                                               !.at = IF entries = {} THEN "ok" ELSE phase]]
        /\ UNCHANGED <<store, mgr, life, entries, settled, restarts>>

(* The request gives up: the store or a proxy answered with an error, or   *)
(* did not answer.                                                         *)
GiveUp(a) ==
    /\ req[a].at \in {"listModify", "listDelete", "prepare", "commit", "delete"}
    /\ req' = [req EXCEPT ![a] = NoRequest]
    /\ UNCHANGED <<store, mgr, life, entries, settled, restarts>>

(* A call reaches proxy p, which does its work; the answer may get lost.   *)
Called(a, p, here, next, m) ==
    /\ req[a].at = here
    /\ p \in req[a].todo
    /\ life[p] = "up"
    /\ mgr' = [mgr EXCEPT ![p] = m]
    /\ \/ Proceed(a, req[a].todo \ {p}, here, next)
       \/ req' = [req EXCEPT ![a] = NoRequest] /\ UNCHANGED settled
    /\ UNCHANGED <<store, life, entries, restarts>>

(* prepareConfig: the proxy loads the document and builds the namespace.   *)
PrepareConfig(a, p) ==
    LET n == req[a].name
        m == mgr[p]
    IN  /\ n \in Names
        /\ store[n] \notin {Absent} \cup Refused
        /\ Unused(m) # {}
        /\ Called(a, p, "prepare", "commit",
                  ReloadNamespacePrepare(m, n, store[n], CHOOSE o \in Unused(m) : TRUE))

CommitConfig(a, p) ==
    /\ CanCommit(mgr[p])
    /\ Called(a, p, "commit", "ok", ReloadNamespaceCommit(mgr[p], req[a].name))

DeleteConfig(a, p) ==
    Called(a, p, "delete", "ok", DeleteNamespace(mgr[p], req[a].name))

-----------------------------------------------------------------------------
(* The proxies.                                                            *)

(* The proxy stops: by Close, which removes its entry, or by a crash,      *)
(* which leaves it behind.                                                 *)
Stop(p) ==
    /\ life[p] # "down" /\ restarts < Restarts
    /\ life' = [life EXCEPT ![p] = "down"]
    /\ entries' \in {entries, entries \ {p}}
    /\ restarts' = restarts + 1
    /\ UNCHANGED <<store, mgr, req, settled>>

(* loadAllNamespace and CreateManager.                                     *)
Load(p) ==
    /\ life[p] = "down"
    /\ life' = [life EXCEPT ![p] = "loaded"]
    /\ mgr' = [mgr EXCEPT ![p] = CreateManager(store, FirstObjects, Refused)]
    /\ UNCHANGED <<store, entries, req, settled, restarts>>

(* registerProxy, after which the admin server answers calls.              *)
RegisterProxy(p) ==
    /\ life[p] = "loaded"
    /\ life' = [life EXCEPT ![p] = "up"]
    /\ entries' = entries \cup {p}
    /\ UNCHANGED <<store, mgr, req, settled, restarts>>

Next ==
    \/ \E a \in Admins : ModifyNamespace(a) \/ DelNamespace(a) \/ ListProxies(a) \/ GiveUp(a)
    \/ \E a \in Admins, p \in Proxies : PrepareConfig(a, p) \/ CommitConfig(a, p) \/ DeleteConfig(a, p)
    \/ \E p \in Proxies : Stop(p) \/ Load(p) \/ RegisterProxy(p)

Spec == Init /\ [][Next]_vars
-----------------------------------------------------------------------------
(* Properties.                                                             *)

UserManagers ==
    [userNamespaces : [Keys -> Names \cup {None}], users : [UserNames -> SUBSET Passwords]]

Managers ==
    [switchIndex : Slots, reloadPrepared : BOOLEAN,
     namespaces : [Slots -> [Names -> Objects \cup {None}]],
     config : [Objects -> Documents], users : [Slots -> UserManagers],
     closing : SUBSET Objects]

Requests ==
    [at : {"idle", "listModify", "listDelete", "prepare", "commit", "delete", "ok"},
     name : Names \cup {None}, doc : Documents, listed : SUBSET Proxies, todo : SUBSET Proxies]

(* Every variable has its type, and no proxy is called that was not listed *)
(* by ListProxyMonitorMetrics.                                             *)
TypeOK ==
    /\ store \in [Names -> Documents]
    /\ mgr \in [Proxies -> Managers]
    /\ life \in [Proxies -> {"down", "loaded", "up"}]
    /\ entries \subseteq Proxies
    /\ req \in [Admins -> Requests]
    /\ \A a \in Admins : req[a].todo \subseteq req[a].listed
    /\ settled \in [Names -> SUBSET Proxies]
    /\ restarts \in 0..Restarts

(* A namespace that a proxy serves is not closed and not about to be: what *)
(* ReloadNamespaceCommit and DeleteNamespace give to Close(true) is what   *)
(* the flip takes out of service.                                          *)
CurrentOpen ==
    \A p \in Proxies, n \in Names : GetNamespace(mgr[p], n) \notin mgr[p].closing

(* The users that may log in are those of the namespaces being served: in  *)
(* the current slot a user leads to namespace n exactly if the served      *)
(* version of n has the user, and the password list of a user name holds   *)
(* just the passwords that lead somewhere.                                 *)
UsersMatch ==
    \A p \in Proxies :
        LET m == mgr[p]
            um == m.users[m.switchIndex] IN
        \A u \in Users :
            /\ \A n \in Names : GetNamespace(m, n) # None =>
                 (um.userNamespaces[KeyOf(u)] = n <=> u \in UsersOf(n, Serves(m, n)))
            /\ u[2] \in um.users[u[1]] <=> um.userNamespaces[KeyOf(u)] # None

(* A change that was reported successful has reached every proxy that was  *)
(* listed, and stays: until the next change of the same namespace nothing  *)
(* takes it back, neither changes of other namespaces that fail half-way   *)
(* nor deletions nor restarts (ModifyNamespace, DelNamespace, the manager  *)
(* of the proxy).                                                          *)
SuccessStays ==
    \A n \in Names : \A p \in settled[n] :
        life[p] = "up" => Serves(mgr[p], n) = store[n]

(* A call from the control centre changes what a proxy serves for one      *)
(* namespace, the one the request names, and only when it commits.         *)
OnlyNamed ==
    [][\A p \in Proxies, n \in Names :
         Serves(mgr'[p], n) # Serves(mgr[p], n) =>
            \/ life[p] = "down"
            \/ \E a \in Admins : req[a].name = n /\ req[a].at \in {"commit", "delete"}]_vars

=============================================================================
