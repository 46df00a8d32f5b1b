----------------------------- MODULE MCMachines -----------------------------
(***************************************************************************)
(* Checks the smaller machines of the proxy and of the control centre.  In *)
(* a behaviour one of them runs, machine; the others stay as they start.   *)
(***************************************************************************)
EXTENDS ConnectionPool, LRUCache, Sequence, Statements, SessionSettings, ReadWriteSplit, Slices, ControlCentre,
        SessionLoop, ConfigStore, FileLog, Timings

VARIABLE machine

-----------------------------------------------------------------------------
(* Values of constants.                                                    *)

DefaultCollations == "utf8" :> "utf8_general_ci" @@ "gbk" :> "gbk_chinese_ci"
CharsetOfCollation == "utf8_general_ci" :> "utf8" @@ "gbk_chinese_ci" :> "gbk" @@ "utf8_bin" :> "utf8"

SlaveWeights == [slave |-> <<2, 1>>, statistic |-> <<1, 1, 1>>, masterdc |-> <<2, 1>>]

PlainUser == [readOnly |-> FALSE, rwSplit |-> TRUE, statistic |-> FALSE]

UnshuffledQueues == [slave |-> <<0, 0, 1>>, statistic |-> <<0, 1, 2>>, masterdc |-> <<0>>]

TwoNames == <<"n1", "n2">>
DataCentres == [a1 |-> "A", a2 |-> "A", b1 |-> "B", b2 |-> "B"]
TwoCentres == [master |-> "a1", slaves |-> <<"a2">>, dcMaster |-> "b1", dcSlaves |-> <<"b2">>,
               masterDC |-> FALSE, origin |-> FALSE, force |-> FALSE, allowed |-> <<>>]

TwoCutoffs == <<1, 3>>

-----------------------------------------------------------------------------
vars == <<machine, poolVars, cacheVars, sequenceVars, statementsVars, settingsVars, splitVars, slicesVars,
          centreVars, loopVars, storeVars, logVars, timingsVars>>

\* A machine that does not run is in one of its initial states.
Init ==
  /\ machine \in {"pool", "cache", "sequence", "statements", "settings", "split", "slices", "centre", "loop",
                  "store", "log", "timings"}
  /\ PoolInit /\ SequenceInit /\ StatementsInit /\ CentreInit /\ LoopInit /\ StoreInit /\ LogInit /\ TimingsInit
  /\ CacheInit /\ (machine = "cache" \/ lruCapacity = 2)
  /\ SettingsInit /\ (machine = "settings" \/ svSession["s"] = FreshSettings)
  /\ SplitInit /\ (machine = "split" \/ (rwUser = PlainUser /\ rwMasterDC))
  /\ SlicesInit /\ (machine = "slices" \/ rrq = UnshuffledQueues)

\* One machine takes a step, the others none.
Keep(own) ==
  /\ UNCHANGED machine
  /\ IF own = "pool" THEN TRUE ELSE UNCHANGED poolVars
  /\ IF own = "cache" THEN TRUE ELSE UNCHANGED cacheVars
  /\ IF own = "sequence" THEN TRUE ELSE UNCHANGED sequenceVars
  /\ IF own = "statements" THEN TRUE ELSE UNCHANGED statementsVars
  /\ IF own = "settings" THEN TRUE ELSE UNCHANGED settingsVars
  /\ IF own = "split" THEN TRUE ELSE UNCHANGED splitVars
  /\ IF own = "slices" THEN TRUE ELSE UNCHANGED slicesVars
  /\ IF own = "centre" THEN TRUE ELSE UNCHANGED centreVars
  /\ IF own = "loop" THEN TRUE ELSE UNCHANGED loopVars
  /\ IF own = "store" THEN TRUE ELSE UNCHANGED storeVars
  /\ IF own = "log" THEN TRUE ELSE UNCHANGED logVars
  /\ IF own = "timings" THEN TRUE ELSE UNCHANGED timingsVars

PoolStep == machine = "pool" /\ PoolNext /\ Keep("pool")
CacheStep == machine = "cache" /\ CacheNext /\ Keep("cache")
SequenceStep == machine = "sequence" /\ SequenceNext /\ Keep("sequence")
StatementsStep == machine = "statements" /\ StatementsNext /\ Keep("statements")
SettingsStep == machine = "settings" /\ SettingsNext /\ Keep("settings")
SplitStep == machine = "split" /\ SplitNext /\ Keep("split")
SlicesStep == machine = "slices" /\ SlicesNext /\ Keep("slices")
CentreStep == machine = "centre" /\ CentreNext /\ Keep("centre")
LoopStep == machine = "loop" /\ LoopNext /\ Keep("loop")
StoreStep == machine = "store" /\ StoreNext /\ Keep("store")
LogStep == machine = "log" /\ LogNext /\ Keep("log")
TimingsStep == machine = "timings" /\ TimingsNext /\ Keep("timings")

Next == PoolStep \/ CacheStep \/ SequenceStep \/ StatementsStep \/ SettingsStep \/ SplitStep \/ SlicesStep \/
        CentreStep \/ LoopStep \/ StoreStep \/ LogStep \/ TimingsStep

Spec == Init /\ [][Next]_vars

=============================================================================
