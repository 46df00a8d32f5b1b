---------------------------- MODULE ControlCentre ----------------------------
(***************************************************************************)
(* The operations of the control centre on the topology of the namespaces  *)
(* of a cluster (cc/server.go, cc/service/service.go): moving the masters  *)
(* to the other data centre and back, replacing an address, taking a       *)
(* replica in or out, forcing reads to the master, allowing an address.    *)
(* Each of them loads the documents from the store, edits them, and hands  *)
(* every edited one to ModifyNamespace, which stores it and then reloads   *)
(* it on the proxies in two phases.                                        *)
(*                                                                         *)
(* A namespace has one slice.  The reload of a proxy is the step it takes  *)
(* as seen from here (module ConfigReload has it in detail): prepare reads *)
(* the document and builds the other slot from the current one, commit     *)
(* puts that slot into service.  A call may fail, or be done and lose its  *)
(* answer; both end the operation with an error.                           *)
(***************************************************************************)
EXTENDS Naturals, Sequences, Functions

CONSTANTS
  Proxies,
  NameList,        \* the names that ListNamespace gives, a sequence
  Home,            \* the data centre of an address, a function
  FirstDocument,   \* the document every namespace starts with
  MaxOps, MaxFaults

VARIABLES
  ccStore,    \* the stored document of each namespace
  ccServed,   \* the documents each proxy serves, by name
  ccReady,    \* the slot each proxy has prepared, <<>> without one
  ccOp,       \* the operation under way
  ccCount     \* bound: operations begun and faults so far

centreVars == <<ccStore, ccServed, ccReady, ccOp, ccCount>>

Names == Range(NameList)
Addresses == DOMAIN Home

(* A document, as far as it matters here.  There are two data centres, and *)
(* the first document has its master and replicas in one of them and the   *)
(* pair for the other data centre in the other.                            *)
Documents ==
  [master : Addresses \cup {""}, slaves : Seq(Addresses),
   dcMaster : Addresses \cup {""}, dcSlaves : Seq(Addresses),
   masterDC : BOOLEAN, origin : BOOLEAN, force : BOOLEAN, allowed : Seq({"ip"})]
ASSUME NamesAssumption == NameList \in Seq(Names)
ASSUME HomeAssumption ==
  /\ "" \notin Addresses
  /\ \A a, b, c \in Addresses : Home[a] = Home[b] \/ Home[b] = Home[c] \/ Home[a] = Home[c]
ASSUME FirstAssumption ==
  /\ FirstDocument \in Documents /\ FirstDocument.master # ""
  /\ \A i \in DOMAIN FirstDocument.slaves : Home[FirstDocument.slaves[i]] = Home[FirstDocument.master]
  /\ FirstDocument.dcMaster # "" => Home[FirstDocument.dcMaster] # Home[FirstDocument.master]
  /\ \A i \in DOMAIN FirstDocument.dcSlaves : Home[FirstDocument.dcSlaves[i]] # Home[FirstDocument.master]

Idle == [at |-> "idle", out |-> "none", todo |-> [n \in {} |-> FirstDocument], left |-> {},
         call |-> <<>>, again |-> FALSE]

(* What a service function makes of one document: the document and whether *)
(* it is to be modified.                                                   *)
Edited(ns) == [ns |-> ns, modify |-> TRUE]
Kept(ns) == [ns |-> ns, modify |-> FALSE]
Swapped(ns) ==
  [ns EXCEPT !.master = ns.dcMaster, !.slaves = ns.dcSlaves,
             !.dcMaster = ns.master, !.dcSlaves = ns.slaves]

\* Mutant: the replicas stay where they are when the masters change places.
PromoteMasterOnly(ns) ==
  IF ns.masterDC THEN Kept(ns)
  ELSE Edited([ns EXCEPT !.master = ns.dcMaster, !.dcMaster = ns.master,
                         !.origin = ns.masterDC, !.masterDC = TRUE])
PromoteDc(ns) ==
  IF ns.masterDC THEN Kept(ns)
  ELSE Edited([Swapped(ns) EXCEPT !.origin = ns.masterDC, !.masterDC = ~ns.masterDC])
ResumeDc(ns) ==
  IF ns.masterDC = ns.origin THEN Kept(ns)
  ELSE Edited([Swapped(ns) EXCEPT !.masterDC = ns.origin])
ForceMaster(ns) == IF ns.masterDC THEN Kept(ns) ELSE Edited([ns EXCEPT !.force = TRUE])
CancelForceMaster(ns) == Edited([ns EXCEPT !.force = FALSE])

Replaced(s, old, new) == [i \in 1..Len(s) |-> IF s[i] = old THEN new ELSE s[i]]
SwitchMasterSlave(ns, old, new) ==
  CASE ns.master = old -> Edited([ns EXCEPT !.master = new])
    [] ns.master # old /\ old \in Range(ns.slaves) ->
         Edited([ns EXCEPT !.slaves = Replaced(@, old, new)])
    [] OTHER -> Kept(ns)
ReplaceMasterIp(ns, old, new) ==
  IF ns.master = old THEN Edited([ns EXCEPT !.master = new]) ELSE Kept(ns)

RemoveLast(s, x) ==
  LET at == CHOOSE i \in 1..Len(s) : s[i] = x /\ \A j \in (i + 1)..Len(s) : s[j] # x
  IN SubSeq(s, 1, at - 1) \o SubSeq(s, at + 1, Len(s))
OnlineOrOfflineMasterDC(ns, addr, action) ==
  LET there == addr \in Range(ns.slaves) IN
  CASE action = "online" /\ ~there -> Edited([ns EXCEPT !.slaves = Append(@, addr)])
    [] action = "offline" /\ there -> Edited([ns EXCEPT !.slaves = RemoveLast(@, addr)])
    [] OTHER -> Kept(ns)
OnlineOrOfflineNotMasterDC(ns, addr, action) ==
  LET there == addr \in Range(ns.dcSlaves) IN
  CASE action = "online" ->
         LET led == [ns EXCEPT !.dcMaster = IF @ = "" THEN addr ELSE @]
         IN IF there THEN Kept(led) ELSE Edited([led EXCEPT !.dcSlaves = Append(@, addr)])
    [] action = "offline" /\ (there \/ ns.dcMaster = addr) ->
         Edited([ns EXCEPT !.dcMaster = IF @ = addr THEN "" ELSE @,
                           !.dcSlaves = IF there THEN RemoveLast(@, addr) ELSE @])
    [] OTHER -> Kept(ns)
AddAllowedIp(ns, ip) ==
  IF ip \in Range(ns.allowed) THEN Kept(ns) ELSE Edited([ns EXCEPT !.allowed = Append(@, ip)])

\* models.Slice.verify, and what NewNamespace refuses: a slice without a master.
Verified(ns) == ns.master # "" \/ ns.slaves # <<>>
Loads(ns) == ns.master # ""

CentreInit ==
  /\ ccStore = [n \in Names |-> FirstDocument]
  /\ ccServed = [p \in Proxies |-> ccStore]
  /\ ccReady = [p \in Proxies |-> <<>>]
  /\ ccOp = Idle
  /\ ccCount = [ops |-> 0, faults |-> 0]

(* QueryNamespace loads the documents of names; those the operation        *)
(* modifies, by edits, are handed to ModifyNamespace one after the other.  *)
(* call tells one request from another: the same call after a failed one   *)
(* is that request issued again.                                           *)
Begin(call, names, edits) ==
  /\ ccOp.at = "idle" /\ ccCount.ops < MaxOps
  /\ LET modified == {n \in names : edits[n].modify}
     IN ccOp' = [at |-> IF modified = {} THEN "idle" ELSE "store",
                 out |-> IF modified = {} THEN "ok" ELSE "none",
                 todo |-> [n \in modified |-> edits[n].ns],
                 left |-> {}, call |-> call, again |-> ccOp.out = "err" /\ ccOp.call = call]
  /\ ccCount' = [ccCount EXCEPT !.ops = @ + 1]
  /\ UNCHANGED <<ccStore, ccServed, ccReady>>

promoteDCForSingleNamespace ==
  \E n \in Names : Begin(<<"PromoteDc", n>>, {n}, [m \in Names |-> PromoteDc(ccStore[m])])
promoteDCForAllNamespaces == Begin(<<"PromoteDc">>, Names, [m \in Names |-> PromoteDc(ccStore[m])])
resumeDCForSingleNamespace ==
  \E n \in Names : Begin(<<"ResumeDc", n>>, {n}, [m \in Names |-> ResumeDc(ccStore[m])])
resumeDCForAllNamespaces == Begin(<<"ResumeDc">>, Names, [m \in Names |-> ResumeDc(ccStore[m])])
forceMasterForSingleNamespace ==
  \E n \in Names : Begin(<<"ForceMaster", n>>, {n}, [m \in Names |-> ForceMaster(ccStore[m])])
cancelForceMasterForSingleNamespace ==
  \E n \in Names : Begin(<<"CancelForceMaster", n>>, {n}, [m \in Names |-> CancelForceMaster(ccStore[m])])
(* An administrator replaces an address by one of its own data centre, and *)
(* says rightly which of the two data centres an address belongs to.       *)
switchMasterSlaveForCluster ==
  \E old, new \in Addresses :
    /\ Home[old] = Home[new]
    /\ Begin(<<"Switch", old, new>>, Names, [m \in Names |-> SwitchMasterSlave(ccStore[m], old, new)])
replaceMasterIp ==
  \E old, new \in Addresses :
    /\ Home[old] = Home[new] /\ old # new
    /\ Begin(<<"Replace", old, new>>, Names, [m \in Names |-> ReplaceMasterIp(ccStore[m], old, new)])
MasterSide(ns) == ({ns.master} \cup Range(ns.slaves)) \ {""}
OtherSide(ns) == ({ns.dcMaster} \cup Range(ns.dcSlaves)) \ {""}
InMasterDC(ns, addr) == \E m \in MasterSide(ns) : Home[m] = Home[addr]
onlineOrOfflineSlaveIp ==
  \E addr \in Addresses, action \in {"online", "offline"} :
    \/ (\A n \in Names : InMasterDC(ccStore[n], addr))
         /\ Begin(<<action, addr>>, Names, [m \in Names |-> OnlineOrOfflineMasterDC(ccStore[m], addr, action)])
    \/ (\A n \in Names : ~InMasterDC(ccStore[n], addr))
         /\ Begin(<<action, addr>>, Names, [m \in Names |-> OnlineOrOfflineNotMasterDC(ccStore[m], addr, action)])
addAllowedIp == Begin(<<"AddAllowedIp">>, Names, [m \in Names |-> AddAllowedIp(ccStore[m], "ip")])

---------------------------------------------------------------------------
(* ModifyNamespace of the first document of todo, in the order of names.   *)

Target ==
  LET at == CHOOSE i \in 1..Len(NameList) :
              /\ NameList[i] \in DOMAIN ccOp.todo
              /\ \A j \in 1..(i - 1) : NameList[j] \notin DOMAIN ccOp.todo
  IN NameList[at]
Ended(out) == ccOp' = [Idle EXCEPT !.out = out, !.call = ccOp.call, !.again = ccOp.again]
Fail == Ended("err")
Fault == ccCount.faults < MaxFaults /\ ccCount' = [ccCount EXCEPT !.faults = @ + 1]

Store ==
  /\ ccOp.at = "store"
  /\ IF Verified(ccOp.todo[Target])
     THEN /\ ccStore' = [ccStore EXCEPT ![Target] = ccOp.todo[Target]]
          /\ ccOp' = [ccOp EXCEPT !.at = "prepare", !.left = Proxies]
     ELSE Fail /\ UNCHANGED ccStore
  /\ UNCHANGED <<ccServed, ccReady, ccCount>>
StoreFails ==
  /\ ccOp.at = "store" /\ Fault /\ Fail
  /\ UNCHANGED <<ccStore, ccServed, ccReady>>

\* The proxy that was called has answered; the last one ends the phase.
Answered(p) ==
  IF ccOp.left # {p} THEN ccOp' = [ccOp EXCEPT !.left = @ \ {p}]
  ELSE IF ccOp.at = "prepare" THEN ccOp' = [ccOp EXCEPT !.at = "commit", !.left = Proxies]
  ELSE IF DOMAIN ccOp.todo # {Target}
  THEN ccOp' = [ccOp EXCEPT !.at = "store", !.todo = Restrict(@, (DOMAIN @) \ {Target}), !.left = {}]
  ELSE Ended("ok")

RebuildNamespace(served, n, ns) == [m \in DOMAIN served \cup {n} |-> IF m = n THEN ns ELSE served[m]]
PrepareOn(p) ==
  IF Loads(ccStore[Target])
  THEN ccReady' = [ccReady EXCEPT ![p] =
                     <<RebuildNamespace(ccServed[p], Target, ccStore[Target])>>]
  ELSE UNCHANGED ccReady
CommitOn(p) ==
  IF ccReady[p] # <<>>
  THEN /\ ccServed' = [ccServed EXCEPT ![p] = ccReady[p][1]]
       /\ ccReady' = [ccReady EXCEPT ![p] = <<>>]
  ELSE UNCHANGED <<ccServed, ccReady>>

PrepareConfig ==
  /\ ccOp.at = "prepare"
  /\ \E p \in ccOp.left : PrepareOn(p) /\ (IF Loads(ccStore[Target]) THEN Answered(p) ELSE Fail)
  /\ UNCHANGED <<ccStore, ccServed, ccCount>>
PrepareFails ==
  /\ ccOp.at = "prepare" /\ Fault /\ Fail
  /\ \E p \in ccOp.left : UNCHANGED ccReady \/ PrepareOn(p)
  /\ UNCHANGED <<ccStore, ccServed>>
CommitConfig ==
  /\ ccOp.at = "commit"
  /\ \E p \in ccOp.left : CommitOn(p) /\ (IF ccReady[p] # <<>> THEN Answered(p) ELSE Fail)
  /\ UNCHANGED <<ccStore, ccCount>>
CommitFails ==
  /\ ccOp.at = "commit" /\ Fault /\ Fail
  /\ \E p \in ccOp.left : UNCHANGED <<ccServed, ccReady>> \/ CommitOn(p)
  /\ UNCHANGED ccStore

\* A proxy starts again: it loads the documents, leaving out what it refuses.
Restart(p) ==
  /\ Fault
  /\ ccServed' = [ccServed EXCEPT ![p] = Restrict(ccStore, {n \in Names : Loads(ccStore[n])})]
  /\ ccReady' = [ccReady EXCEPT ![p] = <<>>]
  /\ UNCHANGED <<ccStore, ccOp>>

CentreNext ==
  \/ promoteDCForSingleNamespace \/ promoteDCForAllNamespaces
  \/ resumeDCForSingleNamespace \/ resumeDCForAllNamespaces
  \/ forceMasterForSingleNamespace \/ cancelForceMasterForSingleNamespace
  \/ switchMasterSlaveForCluster \/ replaceMasterIp \/ onlineOrOfflineSlaveIp \/ addAllowedIp
  \/ Store \/ StoreFails \/ PrepareConfig \/ PrepareFails \/ CommitConfig \/ CommitFails
  \/ \E p \in Proxies : Restart(p)

CentreSpec == CentreInit /\ [][CentreNext]_centreVars

---------------------------------------------------------------------------
InOneDC(addrs) == \A a, b \in addrs : Home[a] = Home[b]

(* Through any sequence of operations, half of which may have failed half  *)
(* way, no stored document and no document in service mixes the data       *)
(* centres: master and replicas are in one, the other pair in the other,   *)
(* and MasterDC tells which is which, so that PromoteDc and ResumeDc move  *)
(* the masters of all namespaces to the same side.                         *)
DCsApart ==
  \A ns \in {ccStore[n] : n \in Names} \cup UNION {Range(ccServed[p]) : p \in Proxies} :
    /\ InOneDC(MasterSide(ns))
    /\ InOneDC(OtherSide(ns))
    /\ ns.master # "" /\ ns.dcMaster # "" => Home[ns.master] # Home[ns.dcMaster]
    /\ ns.master # "" => (Home[ns.master] = Home[FirstDocument.master]
                            <=> ns.masterDC = FirstDocument.masterDC)

(* What docs/config-reloading.md says of a change that failed half way: it *)
(* can be issued again, and afterwards the proxies serve one configuration. *)
(* When the call that failed is repeated and reports success, every proxy  *)
(* serves the stored documents.  In the code the repeated PromoteDc finds  *)
(* the document that was stored the first time, sees nothing to modify and *)
(* reports success without reloading any proxy.                            *)
RetryIsServed ==
  ccOp.out = "ok" /\ ccOp.again => \A p \in Proxies : ccServed[p] = ccStore

=============================================================================
