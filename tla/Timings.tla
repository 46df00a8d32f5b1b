------------------------------- MODULE Timings -------------------------------
(***************************************************************************)
(* The timings and counters of a proxy (stats/timings.go,                  *)
(* stats/histogram.go, stats/counters.go): every session adds to them by   *)
(* name without a common lock.  A name that is not there yet is created    *)
(* under the write lock, after a look under the read lock; then the cells  *)
(* of the histogram and the two totals are added to, each atomically.      *)
(*                                                                         *)
(* A histogram is an object, a number; a name of the map holds one.  The   *)
(* labels of a MultiTimings are joined with "." after a "." in a label has *)
(* been replaced, and are a name here.                                     *)
(***************************************************************************)
EXTENDS Naturals, FiniteSets, FiniteSetsExt, Functions, Sequences, TLC

CONSTANTS
  TimedSessions,
  TimingNames,
  Elapsed,       \* the times that are added
  Cutoffs,       \* bucketCutoffs, an increasing sequence
  MaxAdds        \* bound: calls of Add

VARIABLES
  tmMap,     \* t.histograms: a histogram by name
  tmHist,    \* the histograms: their buckets and their total
  tmTotal,   \* totalCount and totalTime
  tmAdd,     \* the call of Add each session is in
  tmAdded    \* what the finished calls added: a sequence of <<name, time>>

timingsVars == <<tmMap, tmHist, tmTotal, tmAdd, tmAdded>>

NoCall == [at |-> "out", name |-> "", elapsed |-> 0, hist |-> 0]
NewGenericHistogram == [buckets |-> [i \in 1..(Len(Cutoffs) + 1) |-> 0], total |-> 0]

TimingsInit ==
  /\ tmMap = [n \in {} |-> 0] /\ tmHist = <<>>
  /\ tmTotal = [count |-> 0, time |-> 0]
  /\ tmAdd = [s \in TimedSessions |-> NoCall]
  /\ tmAdded = <<>>

To(s, at) == tmAdd' = [tmAdd EXCEPT ![s].at = at]
InCall == Cardinality({s \in TimedSessions : tmAdd[s] # NoCall})

(* The look under the read lock.                                           *)
Lookup(s, name, elapsed) ==
  /\ tmAdd[s] = NoCall
  /\ Len(tmAdded) + InCall < MaxAdds
  /\ tmAdd' = [tmAdd EXCEPT ![s] =
       [at |-> IF name \in DOMAIN tmMap THEN "bucket" ELSE "create",
        name |-> name, elapsed |-> elapsed,
        hist |-> IF name \in DOMAIN tmMap THEN tmMap[name] ELSE 0]]
  /\ UNCHANGED <<tmMap, tmHist, tmTotal, tmAdded>>

\* Mutant: under the write lock the map is not looked at again.
CreateAnyway(s) ==
  /\ tmAdd[s].at = "create"
  /\ tmHist' = Append(tmHist, NewGenericHistogram)
  /\ tmMap' = (tmAdd[s].name :> Len(tmHist')) @@ tmMap
  /\ tmAdd' = [tmAdd EXCEPT ![s].at = "bucket", ![s].hist = Len(tmHist')]
  /\ UNCHANGED <<tmTotal, tmAdded>>

(* The look, and the creation, under the write lock.                       *)
Create(s) ==
  LET name == tmAdd[s].name IN
  /\ tmAdd[s].at = "create"
  /\ \/ /\ name \notin DOMAIN tmMap
        /\ tmHist' = Append(tmHist, NewGenericHistogram)
        /\ tmMap' = (name :> Len(tmHist')) @@ tmMap
     \/ name \in DOMAIN tmMap /\ UNCHANGED <<tmMap, tmHist>>
  /\ tmAdd' = [tmAdd EXCEPT ![s].at = "bucket", ![s].hist = tmMap'[name]]
  /\ UNCHANGED <<tmTotal, tmAdded>>

(* Histogram.Add: the bucket with cutoff[i-1] < value <= cutoff[i], the    *)
(* last one for what exceeds all cutoffs; then the total.                  *)
BucketOf(value) == Min({i \in 1..(Len(Cutoffs) + 1) : i = Len(Cutoffs) + 1 \/ value <= Cutoffs[i]})
AddBucket(s) ==
  /\ tmAdd[s].at = "bucket"
  /\ tmHist' = [tmHist EXCEPT ![tmAdd[s].hist].buckets[BucketOf(tmAdd[s].elapsed)] = @ + 1]
  /\ To(s, "total")
  /\ UNCHANGED <<tmMap, tmTotal, tmAdded>>
AddTotal(s) ==
  /\ tmAdd[s].at = "total"
  /\ tmHist' = [tmHist EXCEPT ![tmAdd[s].hist].total = @ + tmAdd[s].elapsed]
  /\ To(s, "count")
  /\ UNCHANGED <<tmMap, tmTotal, tmAdded>>
AddCount(s) ==
  /\ tmAdd[s].at = "count"
  /\ tmTotal' = [tmTotal EXCEPT !.count = @ + 1]
  /\ To(s, "time")
  /\ UNCHANGED <<tmMap, tmHist, tmAdded>>
AddTime(s) ==
  /\ tmAdd[s].at = "time"
  /\ tmTotal' = [tmTotal EXCEPT !.time = @ + tmAdd[s].elapsed]
  /\ tmAdd' = [tmAdd EXCEPT ![s] = NoCall]
  /\ tmAdded' = Append(tmAdded, <<tmAdd[s].name, tmAdd[s].elapsed>>)
  /\ UNCHANGED <<tmMap, tmHist>>

TimingsNext ==
  \E s \in TimedSessions :
    \/ \E name \in TimingNames, elapsed \in Elapsed : Lookup(s, name, elapsed)
    \/ Create(s) \/ AddBucket(s) \/ AddTotal(s) \/ AddCount(s) \/ AddTime(s)

TimingsSpec == TimingsInit /\ [][TimingsNext]_timingsVars

-----------------------------------------------------------------------------
(* What is exported: the cumulative counts that MarshalJSON gives under     *)
(* each label, and the total.                                              *)
Cumulative(h, i) == SumFunctionOnSet(h.buckets, 1..i)

Finished(P(_)) == {k \in DOMAIN tmAdded : P(tmAdded[k])}
TimeOf(K) == MapThenSumSet(LAMBDA k : tmAdded[k][2], K)

(* When no Add is under way every finished one is counted: once, under its *)
(* own name, in the bucket of its time, and in the totals, however the     *)
(* calls that created a name overlapped.                                   *)
TimingsAgree ==
  InCall = 0 =>
    /\ tmTotal = [count |-> Len(tmAdded), time |-> TimeOf(DOMAIN tmAdded)]
    /\ \A name \in TimingNames :
         LET mine == Finished(LAMBDA x : x[1] = name) IN
         /\ mine # {} => name \in DOMAIN tmMap
         /\ name \in DOMAIN tmMap =>
              LET h == tmHist[tmMap[name]] IN
              /\ h.total = TimeOf(mine)
              /\ Cumulative(h, Len(Cutoffs) + 1) = Cardinality(mine)
              /\ \A i \in DOMAIN Cutoffs :
                   Cumulative(h, i) = Cardinality({k \in mine : tmAdded[k][2] <= Cutoffs[i]})
=============================================================================
