----------------------------- MODULE ConfigStore -----------------------------
(***************************************************************************)
(* The configuration store and those who share it.  A proxy that starts    *)
(* lists the namespaces, loads them with a set of worker goroutines,       *)
(* enters itself under /proxy and leaves that node again when it is        *)
(* closed (main.go, manager.go, admin.go).  The control centre stores or   *)
(* removes a namespace, lists the proxies, and calls those it found        *)
(* (cc/service/service.go, models/store.go).  Nothing orders the two.      *)
(*                                                                         *)
(* A node of the store is a path and a value; a request of the etcd client *)
(* holds the client's mutex from beginning to end and is one step.  A      *)
(* request may fail without effect, and one that writes also after it took *)
(* effect.  A proxy that crashes stays entered.  With the file client      *)
(* (models/file) nothing is ever written, so only the start is left.  The  *)
(* documents of the store are ones that NewNamespace accepts.              *)
(***************************************************************************)
EXTENDS Naturals, FiniteSets, Functions

CONSTANTS
  StoreNames,       \* namespaces
  StoreProxies,
  StoreWorkers,     \* the goroutines of loadAllNamespace
  MaxChanges,  \* bound: operations of the control centre
  MaxStarts,   \* bound: starts of proxies
  MaxStoreFaults    \* bound: failed requests and crashes

VARIABLES
  csNodes,   \* the store: path to value; a namespace's value is its version
  csProxy,   \* the proxies
  csOp,      \* the operation of the control centre
  csCount    \* bounds: changes, starts and faults so far

storeVars == <<csNodes, csProxy, csOp, csCount>>

NamespacePath(n) == <<"namespace", n>>
ProxyPath(p) == <<"proxy", p>>
Missing == 0

(* The etcd client: what the requests do to the nodes.  Read of a missing  *)
(* node is no error, and Delete of one neither.                            *)
Update(nodes, path, v) == [x \in DOMAIN nodes \union {path} |-> IF x = path THEN v ELSE nodes[x]]
ClientDelete(nodes, path) == Restrict(nodes, DOMAIN nodes \ {path})
Read(nodes, path) == IF path \in DOMAIN nodes THEN nodes[path] ELSE Missing
List(nodes, dir) == {path[2] : path \in {x \in DOMAIN nodes : x[1] = dir}}

ListNamespace == List(csNodes, "namespace")
CreateProxy(p) == Update(csNodes, ProxyPath(p), 1)
DeleteProxy(p) == ClientDelete(csNodes, ProxyPath(p))
UpdateNamespace(n, v) == Update(csNodes, NamespacePath(n), v)
DelNamespace(n) == ClientDelete(csNodes, NamespacePath(n))

Free == "free"
Gone == "gone"

ASSUME StoreAssumption == {Free, Gone} \cap StoreNames = {}

Down == [at |-> "down", listed |-> {}, todo |-> {}, worker |-> [w \in StoreWorkers |-> Gone],
         err |-> FALSE, serves |-> [n \in {} |-> 0], ready |-> [n \in {} |-> 0]]
StoreIdle == [at |-> "idle", kind |-> "none", name |-> "none", left |-> {}, found |-> {},
         out |-> "none", before |-> {}]

StoreInit ==
  /\ csNodes = [x \in {NamespacePath(n) : n \in StoreNames} |-> 1]
  /\ csProxy = [p \in StoreProxies |-> Down]
  /\ csOp = StoreIdle
  /\ csCount = [changes |-> 0, starts |-> 0, faults |-> 0]

MayFail == csCount.faults < MaxStoreFaults
StoreFault == csCount' = [csCount EXCEPT !.faults = @ + 1]
Calm == UNCHANGED csCount

-----------------------------------------------------------------------------
(* A proxy.                                                                *)

SetProxy(p, r) == csProxy' = [csProxy EXCEPT ![p] = r]

(* loadAllNamespace: the names are listed and the workers started.         *)
StartListing(p) ==
  /\ csProxy[p].at = "down"
  /\ csCount.starts < MaxStarts
  /\ csCount' = [csCount EXCEPT !.starts = @ + 1]
  /\ SetProxy(p, [Down EXCEPT !.at = "loading", !.listed = ListNamespace, !.todo = ListNamespace,
                         !.worker = [w \in StoreWorkers |-> Free]])
  /\ UNCHANGED <<csNodes, csOp>>

(* The dispatcher hands a name to a worker.                                *)
TakeName(p, w) ==
  /\ csProxy[p].at = "loading" /\ csProxy[p].worker[w] = Free
  /\ \E n \in csProxy[p].todo :
       SetProxy(p, [csProxy[p] EXCEPT !.todo = @ \ {n}, !.worker[w] = n])
  /\ UNCHANGED <<csNodes, csOp, csCount>>

(* LoadNamespace fails: the node is gone, or the request failed.  The      *)
(* worker notes the error and returns.                                     *)
LoadFails(p, w) ==
  /\ csProxy[p].worker[w] \in StoreNames
  /\ \/ Read(csNodes, NamespacePath(csProxy[p].worker[w])) = Missing /\ Calm
     \/ MayFail /\ StoreFault
  /\ SetProxy(p, [csProxy[p] EXCEPT !.err = TRUE, !.worker[w] = Gone])
  /\ UNCHANGED <<csNodes, csOp>>

(* LoadNamespace succeeds and the collector takes the namespace.           *)
LoadSucceeds(p, w) ==
  LET n == csProxy[p].worker[w] IN
  /\ n \in StoreNames
  /\ Read(csNodes, NamespacePath(n)) # Missing
  /\ SetProxy(p, [csProxy[p] EXCEPT !.serves = Update(@, n, csNodes[NamespacePath(n)]),
                               !.worker[w] = Free])
  /\ UNCHANGED <<csNodes, csOp, csCount>>

AllDispatched(p) == csProxy[p].todo = {} /\ \A w \in StoreWorkers : csProxy[p].worker[w] \notin StoreNames

\* Mutant: an error of a worker is forgotten.
LoadedAnyway(p) ==
  /\ csProxy[p].at = "loading" /\ AllDispatched(p)
  /\ SetProxy(p, [csProxy[p] EXCEPT !.at = "created", !.worker = [w \in StoreWorkers |-> Gone]])
  /\ UNCHANGED <<csNodes, csOp, csCount>>

(* The channels are closed; with an error the process ends, else the       *)
(* manager is created.                                                     *)
Loaded(p) ==
  /\ csProxy[p].at = "loading" /\ AllDispatched(p)
  /\ SetProxy(p, IF csProxy[p].err THEN Down
            ELSE [csProxy[p] EXCEPT !.at = "created", !.worker = [w \in StoreWorkers |-> Gone]])
  /\ UNCHANGED <<csNodes, csOp, csCount>>

registerProxy(p) == CreateProxy(p)
unregisterProxy(p) == DeleteProxy(p)
Leaves(p) == csOp' = [csOp EXCEPT !.before = @ \ {p}]

(* NewAdminServer enters the proxy.  When that fails it closes what it has *)
(* made, which removes the node, and the process ends.                     *)
NewAdminServer(p) ==
  /\ csProxy[p].at = "created"
  /\ \/ csNodes' = registerProxy(p) /\ SetProxy(p, [csProxy[p] EXCEPT !.at = "up"]) /\ Calm
     \/ MayFail /\ StoreFault /\ SetProxy(p, Down) /\ csNodes' = unregisterProxy(p)
  /\ UNCHANGED csOp

(* A signal ends the proxy: Close removes the node, unless that fails.     *)
Close(p) ==
  /\ csProxy[p].at = "up"
  /\ \/ csNodes' = unregisterProxy(p) /\ Calm
     \/ MayFail /\ StoreFault /\ UNCHANGED csNodes
  /\ SetProxy(p, Down) /\ Leaves(p)

Crash(p) ==
  /\ csProxy[p].at # "down" /\ MayFail /\ StoreFault
  /\ SetProxy(p, Down) /\ Leaves(p)
  /\ UNCHANGED csNodes

-----------------------------------------------------------------------------
(* The control centre: ModifyNamespace and DelNamespace.                   *)

Up == {p \in StoreProxies : csProxy[p].at = "up"}
End(out) == [csOp EXCEPT !.at = "idle", !.left = {}, !.found = {}, !.out = out]
FailOp == csOp' = End("error")

(* The first request stores or removes the namespace.                      *)
BeginChange(kind, n, nodes) ==
  /\ csOp.at = "idle" /\ csCount.changes < MaxChanges
  /\ LET op == [StoreIdle EXCEPT !.at = "stored", !.kind = kind, !.name = n, !.before = Up] IN
     \/ csNodes' = nodes /\ csOp' = op /\ csCount' = [csCount EXCEPT !.changes = @ + 1]
     \/ /\ MayFail
        /\ csCount' = [csCount EXCEPT !.changes = @ + 1, !.faults = @ + 1]
        /\ csNodes' \in {csNodes, nodes}
        /\ csOp' = [op EXCEPT !.at = "idle", !.out = "error"]
  /\ UNCHANGED csProxy
ModifyNamespace(n) == BeginChange("modify", n, UpdateNamespace(n, 2 + csCount.changes))
RemoveNamespace(n) == BeginChange("delete", n, DelNamespace(n))

(* ListProxyMonitorMetrics: the paths first, then a request per path.  A   *)
(* node that is gone by then reads as nothing, which does not decode, and  *)
(* the whole operation fails.                                              *)
ListProxies ==
  /\ csOp.at = "stored"
  /\ \/ csOp' = [csOp EXCEPT !.at = "reading", !.left = List(csNodes, "proxy")] /\ Calm
     \/ MayFail /\ StoreFault /\ FailOp
  /\ UNCHANGED <<csNodes, csProxy>>
ReadProxy(p) ==
  /\ csOp.at = "reading" /\ p \in csOp.left
  /\ IF Read(csNodes, ProxyPath(p)) = Missing
     THEN FailOp
     ELSE csOp' = [csOp EXCEPT !.left = @ \ {p}, !.found = @ \union {p}]
  /\ UNCHANGED <<csNodes, csProxy, csCount>>

(* The calls, to every proxy found: prepare then commit, or delete.        *)
Phase(at) == csOp' = [csOp EXCEPT !.at = at, !.left = csOp.found]
CallAll ==
  /\ csOp.left = {} /\ csOp.at \in {"reading", "prepare", "commit", "delete"}
  /\ \/ csOp.at = "reading" /\ Phase(IF csOp.kind = "modify" THEN "prepare" ELSE "delete")
     \/ csOp.at = "prepare" /\ Phase("commit")
     \/ csOp.at \in {"commit", "delete"} /\ csOp' = End("ok")
  /\ UNCHANGED <<csNodes, csProxy, csCount>>

Called(p) == csOp' = [csOp EXCEPT !.left = @ \ {p}]
CallDone(p) == (Called(p) /\ Calm) \/ (MayFail /\ StoreFault /\ FailOp)
\* Mutant: the other slot is built from the documents of the start.
PrepareStale(p) ==
  /\ csOp.at = "prepare" /\ p \in csOp.left /\ p \in Up
  /\ SetProxy(p, [csProxy[p] EXCEPT !.ready = csProxy[p].serves])
  /\ CallDone(p)
  /\ UNCHANGED csNodes
Prepare(p) ==
  /\ csOp.at = "prepare" /\ p \in csOp.left /\ p \in Up
  /\ LET v == Read(csNodes, NamespacePath(csOp.name)) IN
       IF v = Missing THEN FailOp /\ Calm /\ UNCHANGED csProxy
       ELSE /\ SetProxy(p, [csProxy[p] EXCEPT !.ready = Update(csProxy[p].serves, csOp.name, v)])
            /\ CallDone(p)
  /\ UNCHANGED csNodes
Commit(p) ==
  /\ csOp.at = "commit" /\ p \in csOp.left /\ p \in Up
  /\ IF csProxy[p].ready = Down.ready THEN FailOp /\ Calm /\ UNCHANGED csProxy
     ELSE /\ SetProxy(p, [csProxy[p] EXCEPT !.serves = csProxy[p].ready, !.ready = Down.ready])
          /\ CallDone(p)
  /\ UNCHANGED csNodes
DeleteServed(p) ==
  /\ csOp.at = "delete" /\ p \in csOp.left /\ p \in Up
  /\ SetProxy(p, [csProxy[p] EXCEPT !.serves = ClientDelete(@, csOp.name)])
  /\ CallDone(p)
  /\ UNCHANGED csNodes
(* A proxy that was found and is not up does not answer.                   *)
CallUnanswered(p) ==
  /\ csOp.at \in {"prepare", "commit", "delete"} /\ p \in csOp.left /\ p \notin Up
  /\ FailOp
  /\ UNCHANGED <<csNodes, csProxy, csCount>>

StoreNext ==
  \/ \E p \in StoreProxies :
       \/ StartListing(p) \/ Loaded(p) \/ NewAdminServer(p) \/ Close(p) \/ Crash(p)
       \/ ReadProxy(p) \/ Prepare(p) \/ Commit(p) \/ DeleteServed(p) \/ CallUnanswered(p)
       \/ \E w \in StoreWorkers : TakeName(p, w) \/ LoadFails(p, w) \/ LoadSucceeds(p, w)
  \/ \E n \in StoreNames : ModifyNamespace(n) \/ RemoveNamespace(n)
  \/ ListProxies \/ CallAll

StoreSpec == StoreInit /\ [][StoreNext]_storeVars

-----------------------------------------------------------------------------
(* When the control centre reports a change as done, every proxy that was  *)
(* entered and running when the change began, and still runs, serves the   *)
(* namespace as it is stored, whoever starts, leaves or crashes meanwhile. *)
ChangeReaches ==
  csOp.at = "idle" /\ csOp.out = "ok" =>
    \A p \in csOp.before :
      Read(csProxy[p].serves, csOp.name) = Read(csNodes, NamespacePath(csOp.name))

(* A proxy that has come up has loaded every namespace it listed: one that *)
(* failed to load, or was removed meanwhile, ends the start.               *)
StartComplete ==
  \A p \in StoreProxies : csProxy[p].at = "created" => DOMAIN csProxy[p].serves = csProxy[p].listed

(* After a change that was reported as done all running proxies serve the  *)
(* same namespace.  They do not: one that loaded before the change and     *)
(* entered itself after the proxies were listed keeps the old one.         *)
AllServeStored ==
  csOp.at = "idle" /\ csOp.out = "ok" =>
    \A p \in Up : Read(csProxy[p].serves, csOp.name) = Read(csNodes, NamespacePath(csOp.name))
=============================================================================
