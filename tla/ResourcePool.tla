----------------------------- MODULE ResourcePool -----------------------------
(***************************************************************************)
(* util.ResourcePool: the pool of backend connections of one MySQL         *)
(* instance, built on a Go channel of "wrappers".  A wrapper is a token:   *)
(* it carries an open resource, or Nil for a resource yet to be created.   *)
(* Whoever holds a token may own one resource.                             *)
(*                                                                         *)
(* Three kinds of goroutine share the pool:                                *)
(*   - Clients call Get, use the resource, and call Put;                   *)
(*   - the idle timer runs closeIdleResources;                             *)
(*   - Resizers call SetCapacity and Close.                                *)
(*                                                                         *)
(* An action is one channel operation or one atomic counter update,        *)
(* together with the goroutine's local work around it.  The counters       *)
(* active and inUse are read by no code of the pool, so their updates are  *)
(* merged with the neighbouring step.  waitCount, waitTime and idleClosed  *)
(* are write-only statistics and are left out.  Whether a resource has     *)
(* been idle for idleTimeout is a nondeterministic choice.                 *)
(***************************************************************************)
EXTENDS Integers, Sequences, FiniteSets, Functions

CONSTANTS
    Clients,      \* goroutines that Get and Put
    Resizers,     \* goroutines that call SetCapacity or Close
    Resources,    \* identities of backend connections
    Nil,          \* wrapper.resource == nil
    MaxCap,       \* cap(rp.resources)
    InitCap,      \* capacity given to NewResourcePool
    HasIdleTimer, \* idleTimeout # 0 in NewResourcePool
    Targets       \* capacities the resizers pass to SetCapacity

\* NewResourcePool panics on any other pair of capacities.
ASSUME CapAssumption ==
    /\ MaxCap \in Nat
    /\ InitCap \in 1..MaxCap

ASSUME IdentityAssumption ==
    /\ Nil \notin Resources
    /\ IsFiniteSet(Clients)
    /\ IsFiniteSet(Resources)
    /\ HasIdleTimer \in BOOLEAN
    /\ Targets \subseteq 0..MaxCap

VARIABLES
    resources,    \* the channel's buffer, a sequence of wrappers
    chanClosed,   \* close(rp.resources) has run
    capacity,     \* rp.capacity
    available,    \* rp.available
    active,       \* rp.active
    inUse,        \* rp.inUse
    open,         \* resources made by the factory and not yet closed
    cpc,          \* where each client is
    cwrap,        \* the wrapper or resource each client holds
    rpc,          \* where each resizer is
    target,       \* the capacity argument of each resizer
    left,         \* iterations left in its shrink or expand loop
    timer,        \* the idle timer: "none", "running", "stopped"
    spc,          \* where closeIdleResources is
    sleft,        \* iterations left in its loop
    swrap         \* the wrapper it holds

clientVars == <<cpc, cwrap>>
resizerVars == <<rpc, target, left>>
scanVars == <<timer, spc, sleft, swrap>>
counters == <<available, active, inUse>>
vars == <<resources, chanClosed, capacity, counters, open,
          clientVars, resizerVars, scanVars>>

Wrappers == Resources \cup {Nil}

ClientPC == {"idle", "waiting", "unwrap", "failed", "got", "using",
             "putting", "counting", "panic"}
ResizerPC == {"idle", "stopping", "swap", "shrink", "shrunk", "expand",
              "expanded", "close", "panic"}
ScanPC == {"sleep", "scan", "send", "panic"}

Init ==
    /\ resources = [i \in 1..InitCap |-> Nil]
    /\ chanClosed = FALSE
    /\ capacity = InitCap
    /\ available = InitCap
    /\ active = 0
    /\ inUse = 0
    /\ open = {}
    /\ cpc = [c \in Clients |-> "idle"]
    /\ cwrap = [c \in Clients |-> Nil]
    /\ rpc = [r \in Resizers |-> "idle"]
    /\ target = [r \in Resizers |-> 0]
    /\ left = [r \in Resizers |-> 0]
    /\ timer = IF HasIdleTimer THEN "running" ELSE "none"
    /\ spc = "sleep"
    /\ sleft = 0
    /\ swrap = Nil

-----------------------------------------------------------------------------
(* Channel operations, as Go defines them.                                 *)

Send(w) == resources' = Append(resources, w)

CanSend == ~chanClosed /\ Len(resources) < MaxCap

\* A receive that delivers a wrapper (ok = TRUE).
Receive == resources # <<>> /\ resources' = Tail(resources)

\* A receive from the drained, closed channel: the zero wrapper, ok = FALSE.
ReceiveClosed == resources = <<>> /\ chanClosed /\ UNCHANGED resources

\* A client moves from one place to another, holding w afterwards.
Client(c, from, to, w) ==
    /\ cpc[c] = from
    /\ cpc' = [cpc EXCEPT ![c] = to]
    /\ cwrap' = [cwrap EXCEPT ![c] = w]

Resizer(r, from, to) ==
    /\ rpc[r] = from
    /\ rpc' = [rpc EXCEPT ![r] = to]

-----------------------------------------------------------------------------
(* Get                                                                     *)

\* The receive of get, in the first select or after waiting.  A wrapper that
\* carries a resource needs no factory call.
Fetch(c) ==
    /\ cpc[c] \in {"idle", "waiting"}
    /\ \/ /\ Receive
          /\ LET w == Head(resources)
             IN Client(c, cpc[c], IF w = Nil THEN "unwrap" ELSE "got", w)
       \/ /\ ReceiveClosed                      \* !ok: return ErrClosed
          /\ Client(c, cpc[c], "idle", Nil)
    /\ UNCHANGED <<chanClosed, capacity, counters, open, resizerVars, scanVars>>

\* The first select takes its default branch and the second one blocks.
Wait(c) ==
    /\ resources = <<>> /\ ~chanClosed
    /\ Client(c, "idle", "waiting", Nil)
    /\ UNCHANGED <<resources, chanClosed, capacity, counters, open,
                   resizerVars, scanVars>>

\* ctx.Done(): return ErrTimeout.
GetTimeout(c) ==
    /\ Client(c, "waiting", "idle", Nil)
    /\ UNCHANGED <<resources, chanClosed, capacity, counters, open,
                   resizerVars, scanVars>>

\* rp.factory() makes a new resource.
FactoryOK(c) ==
    \E res \in Resources \ open :
        /\ Client(c, "unwrap", "got", res)
        /\ open' = open \cup {res}
        /\ active' = active + 1
        /\ UNCHANGED <<resources, chanClosed, capacity, available, inUse,
                       resizerVars, scanVars>>

FactoryError(c) ==
    /\ Client(c, "unwrap", "failed", Nil)
    /\ UNCHANGED <<resources, chanClosed, capacity, counters, open,
                   resizerVars, scanVars>>

\* Mutant of ReturnToken: the error path forgets the token.
ReturnTokenLost(c) ==
    /\ Client(c, "failed", "idle", Nil)
    /\ UNCHANGED <<resources, chanClosed, capacity, counters, open,
                   resizerVars, scanVars>>

\* rp.resources <- resourceWrapper{}; return nil, err.  A blocking send.
ReturnToken(c) ==
    /\ \/ CanSend /\ Send(Nil) /\ Client(c, "failed", "idle", Nil)
       \/ chanClosed /\ UNCHANGED resources /\ Client(c, "failed", "panic", Nil)
    /\ UNCHANGED <<chanClosed, capacity, counters, open, resizerVars, scanVars>>

\* rp.available.Add(-1); rp.inUse.Add(1); return the resource.
GetDone(c) ==
    /\ Client(c, "got", "using", cwrap[c])
    /\ available' = available - 1
    /\ inUse' = inUse + 1
    /\ UNCHANGED <<resources, chanClosed, capacity, active, open,
                   resizerVars, scanVars>>

-----------------------------------------------------------------------------
(* Put                                                                     *)

\* Put(resource).
PutResource(c) ==
    /\ Client(c, "using", "putting", cwrap[c])
    /\ UNCHANGED <<resources, chanClosed, capacity, counters, open,
                   resizerVars, scanVars>>

\* The caller closed its resource and calls Put(nil).
PutNil(c) ==
    /\ Client(c, "using", "putting", Nil)
    /\ open' = open \ {cwrap[c]}
    /\ active' = active - 1
    /\ UNCHANGED <<resources, chanClosed, capacity, available, inUse,
                   resizerVars, scanVars>>

\* The non-blocking send of Put.  It panics on a full and on a closed channel.
PutSend(c) ==
    /\ \/ CanSend /\ Send(cwrap[c]) /\ Client(c, "putting", "counting", Nil)
       \/ ~CanSend /\ UNCHANGED resources /\ Client(c, "putting", "panic", cwrap[c])
    /\ UNCHANGED <<chanClosed, capacity, counters, open, resizerVars, scanVars>>

\* rp.inUse.Add(-1); rp.available.Add(1).
PutDone(c) ==
    /\ Client(c, "counting", "idle", Nil)
    /\ inUse' = inUse - 1
    /\ available' = available + 1
    /\ UNCHANGED <<resources, chanClosed, capacity, active, open,
                   resizerVars, scanVars>>

-----------------------------------------------------------------------------
(* SetCapacity and Close                                                   *)

\* A call of SetCapacity(n); n is checked against 0..cap(rp.resources).
SetCapacity(r) ==
    /\ Resizer(r, "idle", "swap")
    /\ \E n \in Targets : target' = [target EXCEPT ![r] = n]
    /\ UNCHANGED <<resources, chanClosed, capacity, counters, open,
                   clientVars, left, scanVars>>

\* A call of Close: stop the timer, if there is one, then SetCapacity(0).
Close(r) ==
    /\ Resizer(r, "idle", IF timer = "running" THEN "stopping" ELSE "swap")
    /\ target' = [target EXCEPT ![r] = 0]
    /\ UNCHANGED <<resources, chanClosed, capacity, counters, open,
                   clientVars, left, scanVars>>

\* Mutant of StopTimer: it does not wait for closeIdleResources to return.
StopTimerAsync(r) ==
    /\ Resizer(r, "stopping", "swap")
    /\ timer' = "stopped"
    /\ UNCHANGED <<resources, chanClosed, capacity, counters, open,
                   clientVars, target, left, spc, sleft, swrap>>

\* Timer.Stop hands its message to the timer goroutine, which takes it only
\* between two calls of closeIdleResources.
StopTimer(r) ==
    /\ timer = "running" => spc = "sleep"
    /\ Resizer(r, "stopping", "swap")
    /\ timer' = "stopped"
    /\ UNCHANGED <<resources, chanClosed, capacity, counters, open,
                   clientVars, target, left, spc, sleft, swrap>>

\* Mutant of SwapCapacity: the expand loop runs to n instead of n - oldcap.
SwapCapacityOverfills(r) ==
    LET n == target[r] IN
    /\ capacity # 0
    /\ Resizer(r, "swap", IF n = capacity THEN "idle" ELSE
                          IF n < capacity THEN "shrink" ELSE "expand")
    /\ left' = [left EXCEPT ![r] = IF n < capacity THEN capacity - n ELSE n]
    /\ capacity' = n
    /\ UNCHANGED <<resources, chanClosed, counters, open,
                   clientVars, target, scanVars>>

\* The compare-and-swap loop: it takes effect at the successful swap, and
\* returns early if the pool is closed or has that capacity already.
SwapCapacity(r) ==
    LET n == target[r] IN
    /\ \/ /\ capacity \in {0, n}
          /\ Resizer(r, "swap", "idle")
          /\ UNCHANGED <<capacity, left>>
       \/ /\ capacity \notin {0, n}
          /\ Resizer(r, "swap", IF n < capacity THEN "shrink" ELSE "expand")
          /\ left' = [left EXCEPT ![r] = IF n < capacity THEN capacity - n
                                                         ELSE n - capacity]
          /\ capacity' = n
    /\ UNCHANGED <<resources, chanClosed, counters, open,
                   clientVars, target, scanVars>>

\* One iteration of the shrink loop: a blocking receive whose ok is ignored,
\* and the resource's Close.
ShrinkReceive(r) ==
    /\ \/ /\ Receive
          /\ LET w == Head(resources)
             IN /\ open' = open \ {w}
                /\ active' = active - (IF w = Nil THEN 0 ELSE 1)
       \/ ReceiveClosed /\ UNCHANGED <<open, active>>
    /\ Resizer(r, "shrink", "shrunk")
    /\ UNCHANGED <<chanClosed, capacity, available, inUse,
                   clientVars, target, left, scanVars>>

\* Mutant of AfterLoop: the loop never stops.
AfterLoopLong(r, i, loop) ==
    IF i >= 0 THEN loop ELSE IF target[r] = 0 THEN "close" ELSE "idle"

\* Where a resizer goes when it has i iterations left.
AfterLoop(r, i, loop) ==
    CASE i > 0 -> loop
      [] i = 0 /\ target[r] = 0 -> "close"
      [] OTHER -> "idle"

\* rp.available.Add(-1), the end of the iteration.
ShrinkCount(r) ==
    /\ available' = available - 1
    /\ left' = [left EXCEPT ![r] = @ - 1]
    /\ Resizer(r, "shrunk", AfterLoop(r, left[r] - 1, "shrink"))
    /\ UNCHANGED <<resources, chanClosed, capacity, active, inUse, open,
                   clientVars, target, scanVars>>

\* One iteration of the expand loop: a blocking send of an empty wrapper.
ExpandSend(r) ==
    /\ \/ CanSend /\ Send(Nil) /\ Resizer(r, "expand", "expanded")
       \/ chanClosed /\ UNCHANGED resources /\ Resizer(r, "expand", "panic")
    /\ UNCHANGED <<chanClosed, capacity, counters, open,
                   clientVars, target, left, scanVars>>

ExpandCount(r) ==
    /\ available' = available + 1
    /\ left' = [left EXCEPT ![r] = @ - 1]
    /\ Resizer(r, "expanded", AfterLoop(r, left[r] - 1, "expand"))
    /\ UNCHANGED <<resources, chanClosed, capacity, active, inUse, open,
                   clientVars, target, scanVars>>

\* close(rp.resources).
CloseChannel(r) ==
    /\ Resizer(r, "close", "idle")
    /\ chanClosed' = TRUE
    /\ UNCHANGED <<resources, capacity, counters, open,
                   clientVars, target, left, scanVars>>

-----------------------------------------------------------------------------
(* closeIdleResources                                                      *)

\* The timer fires; the loop bound is the value of available at this moment.
ScanStart ==
    /\ timer = "running" /\ spc = "sleep" /\ available > 0
    /\ sleft' = available
    /\ spc' = "scan"
    /\ UNCHANGED <<resources, chanClosed, capacity, counters, open,
                   clientVars, resizerVars, timer, swrap>>

\* Mutant of ScanReceive: "wrapper.resource = nil" is missing.
ScanReceiveKeeps ==
    /\ spc = "scan"
    /\ \/ /\ Receive
          /\ spc' = "send"
          /\ swrap' = Head(resources)
          /\ \/ UNCHANGED <<open, active>>
             \/ swrap' # Nil /\ open' = open \ {swrap'} /\ active' = active - 1
          /\ UNCHANGED sleft
       \/ /\ resources = <<>> /\ ~chanClosed
          /\ spc' = "sleep" /\ sleft' = 0
          /\ UNCHANGED <<resources, swrap, open, active>>
    /\ UNCHANGED <<chanClosed, capacity, available, inUse,
                   clientVars, resizerVars, timer>>

\* The non-blocking receive: a wrapper (whose resource is closed if it has
\* been idle too long), the zero wrapper of the closed channel, or nothing.
ScanReceive ==
    /\ spc = "scan"
    /\ \/ /\ Receive
          /\ spc' = "send"
          /\ LET w == Head(resources)
             IN \/ swrap' = w /\ UNCHANGED <<open, active>>
                \/ /\ w # Nil
                   /\ swrap' = Nil
                   /\ open' = open \ {w}
                   /\ active' = active - 1
          /\ UNCHANGED sleft
       \/ /\ ReceiveClosed
          /\ spc' = "send"
          /\ UNCHANGED <<swrap, open, active, sleft>>
       \/ /\ resources = <<>> /\ ~chanClosed
          /\ spc' = "sleep" /\ sleft' = 0
          /\ UNCHANGED <<resources, swrap, open, active>>
    /\ UNCHANGED <<chanClosed, capacity, available, inUse,
                   clientVars, resizerVars, timer>>

\* rp.resources <- wrapper, a blocking send, and the end of the iteration.
ScanSend ==
    /\ spc = "send"
    /\ swrap' = Nil
    /\ \/ /\ CanSend /\ Send(swrap)
          /\ sleft' = sleft - 1
          /\ spc' = IF sleft = 1 THEN "sleep" ELSE "scan"
       \/ /\ chanClosed
          /\ spc' = "panic"
          /\ UNCHANGED <<resources, sleft>>
    /\ UNCHANGED <<chanClosed, capacity, counters, open,
                   clientVars, resizerVars, timer>>

-----------------------------------------------------------------------------
Get(c) == Fetch(c) \/ Wait(c) \/ GetTimeout(c) \/ FactoryOK(c)
          \/ FactoryError(c) \/ ReturnToken(c) \/ GetDone(c)

Put(c) == PutResource(c) \/ PutNil(c) \/ PutSend(c) \/ PutDone(c)

Resize(r) == SetCapacity(r) \/ Close(r) \/ StopTimer(r) \/ SwapCapacity(r)
             \/ ShrinkReceive(r) \/ ShrinkCount(r) \/ ExpandSend(r)
             \/ ExpandCount(r) \/ CloseChannel(r)

closeIdleResources == ScanStart \/ ScanReceive \/ ScanSend

Next ==
    \/ \E c \in Clients : Get(c) \/ Put(c)
    \/ \E r \in Resizers : Resize(r)
    \/ closeIdleResources

Spec == Init /\ [][Next]_vars

\* The scheduler is fair to every goroutine, and a client that holds a
\* resource eventually calls Put.  Blocked channel operations are strongly
\* fair because Go queues blocked receivers and senders first-in first-out;
\* StopTimer because a waiting Stop is served as soon as the timer goroutine
\* is back in its select.
Fairness ==
    /\ \A c \in Clients :
          /\ WF_vars(FactoryOK(c) \/ FactoryError(c))
          /\ WF_vars(GetDone(c) \/ PutResource(c) \/ PutNil(c) \/ PutDone(c))
          /\ WF_vars(ReturnToken(c) \/ PutSend(c))
          /\ SF_vars(cpc[c] = "waiting" /\ Fetch(c))
    /\ \A r \in Resizers :
          /\ WF_vars(SwapCapacity(r) \/ ShrinkCount(r) \/ ExpandCount(r)
                     \/ CloseChannel(r))
          /\ SF_vars(StopTimer(r))
          /\ SF_vars(ShrinkReceive(r))
          /\ SF_vars(ExpandSend(r))
    /\ WF_vars(ScanReceive \/ ScanSend)

FairSpec == Spec /\ Fairness

-----------------------------------------------------------------------------
(* Properties                                                              *)

TypeOK ==
    /\ resources \in Seq(Wrappers)
    /\ chanClosed \in BOOLEAN
    /\ capacity \in 0..MaxCap
    /\ available \in Int /\ active \in Int /\ inUse \in Int
    /\ open \in SUBSET Resources
    /\ cpc \in [Clients -> ClientPC]
    /\ cwrap \in [Clients -> Wrappers]
    /\ rpc \in [Resizers -> ResizerPC]
    /\ target \in [Resizers -> 0..MaxCap]
    /\ left \in [Resizers -> 0..MaxCap]
    /\ timer \in {"none", "running", "stopped"}
    /\ spc \in ScanPC
    /\ sleft \in Int
    /\ swrap \in Wrappers

\* The clients at one of a set of places.
At(places) == {c \in Clients : cpc[c] \in places}

\* Clients that took a token out of the channel and have not sent it back.
Holders == At({"unwrap", "failed", "got", "using", "putting"})

\* Clients that own the resource in cwrap, and those resources.
Owners == {c \in At({"got", "using", "putting"}) : cwrap[c] # Nil}
LentOut == {cwrap[c] : c \in Owners}

\* Resources in the channel, and with the idle scan.
Pooled == Range(resources) \ {Nil}
Scanned == {swrap} \ {Nil}

Bit(b) == IF b THEN 1 ELSE 0

\* No goroutine ever reaches the panic of Put ("attempt to Put into a full
\* ResourcePool") or sends on the closed channel.
NoPanic ==
    /\ \A c \in Clients : cpc[c] # "panic"
    /\ \A r \in Resizers : rpc[r] # "panic"
    /\ spc # "panic"

\* Every token holder finds room in the channel: the sends of get and of
\* closeIdleResources, written as blocking ones, never block.
HolderHasRoom ==
    (Holders # {} \/ spc = "send") => CanSend

\* What resizer r still has to take from (or to add to) the channel.
ToTake(r) == IF rpc[r] = "shrink" THEN left[r]
             ELSE IF rpc[r] = "shrunk" THEN left[r] - 1 ELSE 0
ToAdd(r) == IF rpc[r] = "expand" THEN left[r]
            ELSE IF rpc[r] = "expanded" THEN left[r] - 1 ELSE 0

\* Tokens are neither lost nor invented, whatever Get, Put, the idle scan and
\* a resize do at the same time: those in the channel and those held add up
\* to the capacity, once the part of the resize still to do is counted.
TokensConserved ==
    \A r \in Resizers :
        Len(resources) + Cardinality(Holders) + Bit(spc = "send")
            = capacity + ToTake(r) - ToAdd(r)

\* A backend connection is in one place: at one position of the channel, with
\* one client, or with the idle scan; and no open connection is forgotten.
OneOwner ==
    /\ \A i, j \in DOMAIN resources :
          resources[i] = resources[j] => i = j \/ resources[i] = Nil
    /\ \A c, d \in Owners : cwrap[c] = cwrap[d] => c = d
    /\ Pooled \cap LentOut = {}
    /\ Scanned \cap (Pooled \cup LentOut) = {}
    /\ open = Pooled \cup LentOut \cup Scanned

\* The statistics do not drift: each counter is what the positions of the
\* goroutines say it is, so they are exact whenever nobody is inside a call.
CountersExact ==
    /\ active = Cardinality(open)
    /\ inUse = Cardinality(At({"using", "putting", "counting"}))
    /\ \A r \in Resizers :
          available = Len(resources) + Bit(spc = "send")
                      + Cardinality(At({"unwrap", "failed", "got"}))
                      - Cardinality(At({"counting"}))
                      + Bit(rpc[r] = "shrunk") - Bit(rpc[r] = "expanded")

\* "It waits for all resources to be returned": once Close has closed the
\* channel no connection is open, none is lent, and the timer is silent.
ClosedIsEmpty ==
    chanClosed => /\ open = {} /\ resources = <<>> /\ Holders = {}
                  /\ timer # "running" /\ spc = "sleep"

\* A closed pool is never opened again and lends nothing more.
ClosedForever ==
    [][chanClosed => /\ chanClosed' /\ open' = {}
                     /\ capacity' = 0]_vars

\* Three statements of the source's own comments that fail when SetCapacity and
\* Close overlap, or when SetCapacity(0) stands in for Close.

\* "You can use it to shrink or expand, but not beyond the max capacity": there
\* are never more than MaxCap connections open.
WithinMaxCap == Cardinality(open) <= MaxCap

\* Close returns: from the swap to capacity 0 the pool drains and closes,
\* even while clients keep asking for resources and the idle scan runs.
CloseCompletes ==
    \A r \in Resizers :
        (rpc[r] = "stopping" \/ (rpc[r] # "idle" /\ target[r] = 0)) ~> chanClosed

\* A resize returns: SetCapacity is never stuck, as long as clients Put.
ResizeReturns ==
    \A r \in Resizers : (rpc[r] # "idle") ~> (rpc[r] = "idle")

\* A blocked Get gets a resource, ErrClosed, or its timeout.
GetNotStarved ==
    \A c \in Clients : (cpc[c] = "waiting") ~> (cpc[c] # "waiting")
-----------------------------------------------------------------------------
(* Refinement: the pool implements PoolContract.                           *)

Lent == [c \in Clients |-> IF cpc[c] \in {"got", "using", "putting"}
                           THEN cwrap[c] ELSE Nil]

Contract == INSTANCE PoolContract
    WITH Limit <- MaxCap, alive <- open, lent <- Lent, shut <- chanClosed

\* The pool is an implementation of PoolContract: Get lends or creates, Put
\* gives back or discards, the idle scan and shrinking only close connections
\* nobody uses, and close(rp.resources) happens when nothing is alive.
ImplementsContract == Contract!Spec
=============================================================================
