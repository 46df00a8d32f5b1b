------------------------------- MODULE FileLog -------------------------------
(***************************************************************************)
(* The log files of a proxy (log/xlog/file.go): any goroutine writes its   *)
(* line to the file of the line's level without a lock, while the spliter  *)
(* goroutine moves both files away when the hour changes and opens new     *)
(* ones.  A handle that is replaced is closed a second later.              *)
(*                                                                         *)
(* A file (an inode) is a number and its contents a set of lines; a handle *)
(* is a number and the file it is open on.  "log" is the file of the lines *)
(* below WARN and "wf" that of the others.  A write is taken to end within *)
(* the second between the replacement of a handle and its closing.         *)
(***************************************************************************)
EXTENDS Naturals, Sequences, FiniteSets, TLC

CONSTANTS
  Writers,
  LogLevel,     \* p.level
  Levels,       \* the levels that are written
  CleanHours,   \* the age at which clean removes a file
  MaxLines, MaxHours, MaxFailures   \* bounds: lines, changes of the hour, failing opens

VARIABLES
  flDir,      \* the directory: file by name, <<kind>> or <<kind, hour>>
  flBytes,    \* the lines of each file
  flHandle,   \* p.file and p.errFile: a handle, or None
  flOpen,     \* the file of each handle, None when it is closed
  flClosing,  \* handles that delayClose is going to close
  flWriter,   \* the handle and the line of each write under way
  flClock,    \* the hour, and the hour and the step of the spliter
  flDone,     \* the lines whose write has returned
  flFailed    \* opens that failed

logVars == <<flDir, flBytes, flHandle, flOpen, flClosing, flWriter, flClock, flDone, flFailed>>

WarnLevel == 3
Kinds == {"log", "wf"}
KindOf(level) == IF level >= WarnLevel THEN "wf" ELSE "log"
None == 0
Resting == [handle |-> None, line |-> {}]
Unused(f) == Cardinality(DOMAIN f) + 1

LogInit ==
  /\ flDir = (<<"log">> :> 1) @@ (<<"wf">> :> 2)
  /\ flBytes = (1 :> {}) @@ (2 :> {})
  /\ flHandle = [log |-> 1, wf |-> 2]
  /\ flOpen = (1 :> 1) @@ (2 :> 2)
  /\ flClosing = {}
  /\ flWriter = [w \in Writers |-> Resting]
  /\ flClock = [hour |-> 0, seen |-> 0, at |-> "sleep"]
  /\ flDone = {} /\ flFailed = 0

-----------------------------------------------------------------------------
(* A writer: the level is looked at, the handle is read, and the line goes *)
(* to whatever the handle is open on by then; nobody looks at the error.   *)

Lines == {flWriter[w].line : w \in Writers} \union {{x} : x \in flDone}
write(w, level) ==
  /\ level >= LogLevel
  /\ flWriter[w] = Resting
  /\ Cardinality(Lines) <= MaxLines
  /\ flWriter' = [flWriter EXCEPT ![w] =
       [handle |-> flHandle[KindOf(level)],
        line |-> {[kind |-> KindOf(level), by |-> w, no |-> Cardinality(flDone),
                   hour |-> flClock.hour]}]]
  /\ UNCHANGED <<flDir, flBytes, flHandle, flOpen, flClosing, flClock, flDone, flFailed>>

Write(w) ==
  LET x == flWriter[w] IN
  /\ x # Resting
  /\ LET f == IF x.handle = None THEN None ELSE flOpen[x.handle] IN
       flBytes' = IF f = None THEN flBytes ELSE [flBytes EXCEPT ![f] = @ \union x.line]
  /\ flDone' = flDone \union x.line
  /\ flWriter' = [flWriter EXCEPT ![w] = Resting]
  /\ UNCHANGED <<flDir, flHandle, flOpen, flClosing, flClock, flFailed>>

-----------------------------------------------------------------------------
(* The spliter.                                                            *)

(* An hour is longer than the sleep of the spliter and the delayed close.  *)
HourPasses ==
  /\ flClock.hour < MaxHours
  /\ flClock.seen = flClock.hour /\ flClosing = {}
  /\ flClock' = [flClock EXCEPT !.hour = @ + 1]
  /\ UNCHANGED <<flDir, flBytes, flHandle, flOpen, flClosing, flWriter, flDone, flFailed>>

(* clean: of the files that were moved away, those not written for the     *)
(* clean time, and the empty ones.  The pattern <filename>.log* does not   *)
(* match <filename>.wf.log-..., so files of warnings are never removed.    *)
Old(f) == \A x \in flBytes[f] : x.hour + CleanHours <= flClock.hour
clean ==
  /\ flClock.at = "sleep" /\ flClock.hour # flClock.seen
  /\ flDir' = [name \in {x \in DOMAIN flDir : Len(x) = 1 \/ x[1] # "log" \/ ~Old(flDir[x])}
                 |-> flDir[name]]
  /\ flClock' = [flClock EXCEPT !.at = "rename"]
  /\ UNCHANGED <<flBytes, flHandle, flOpen, flClosing, flWriter, flDone, flFailed>>

(* rename moves both files, but stops at the first that is empty, or whose *)
(* new name is taken, or that is not there.                                *)
Movable(kind) ==
  /\ <<kind>> \in DOMAIN flDir /\ flBytes[flDir[<<kind>>]] # {}
  /\ <<kind, flClock.seen>> \notin DOMAIN flDir
Moved(kinds) ==
  [name \in (DOMAIN flDir \ {<<k>> : k \in kinds}) \union {<<k, flClock.seen>> : k \in kinds}
     |-> IF name \in DOMAIN flDir THEN flDir[name] ELSE flDir[<<name[1]>>]]
rename ==
  /\ flClock.at = "rename"
  /\ flDir' = CASE flHandle["log"] = None \/ ~Movable("log") -> flDir
                [] Movable("log") /\ ~Movable("wf")          -> Moved({"log"})
                [] OTHER                                     -> Moved(Kinds)
  /\ flClock' = [flClock EXCEPT !.at = "reopen"]
  /\ UNCHANGED <<flBytes, flHandle, flOpen, flClosing, flWriter, flDone, flFailed>>

(* openFile: the file of that name, a new empty one if there is none.      *)
openFile(s, kind) ==
  LET f == IF <<kind>> \in DOMAIN s.dir THEN s.dir[<<kind>>] ELSE Unused(s.bytes) IN
  [dir |-> (<<kind>> :> f) @@ s.dir, bytes |-> s.bytes @@ (f :> {}),
   open |-> s.open @@ (Unused(s.open) :> f), handle |-> [s.handle EXCEPT ![kind] = Unused(s.open)]]

\* Mutant: the handles that are replaced are closed at once.
closeNow(s, h) == [s EXCEPT !.open = [x \in DOMAIN s.open |-> IF x = h THEN None ELSE @[x]]]
(* The goroutine of delayClose only sleeps at first; DelayedClose is its   *)
(* second half.                                                            *)
delayClose(s, h) == s

(* ReOpen: the old handles will be closed whatever becomes of the new      *)
(* ones.  When the first open fails p.file stays the old handle; when the  *)
(* second fails, both fields are left without a file.                      *)
ReOpen(failing) ==
  LET s == delayClose(delayClose([dir |-> flDir, bytes |-> flBytes, open |-> flOpen, handle |-> flHandle],
                                 flHandle["log"]), flHandle["wf"])
      one == openFile(s, "log")
      both == openFile(one, "wf")
      r == CASE failing = "none" -> both
             [] failing = "log"  -> s
             [] failing = "wf"   -> [closeNow(one, one.handle["log"]) EXCEPT
                                       !.handle = [k \in Kinds |-> None]]
  IN
  /\ flClock.at = "reopen"
  /\ failing # "none" => flFailed < MaxFailures
  /\ flFailed' = IF failing = "none" THEN flFailed ELSE flFailed + 1
  /\ flDir' = r.dir /\ flBytes' = r.bytes /\ flOpen' = r.open /\ flHandle' = r.handle
  /\ flClosing' = (flClosing \union {flHandle[k] : k \in Kinds}) \ {None}
  /\ flClock' = [flClock EXCEPT !.at = "sleep", !.seen = flClock.hour]
  /\ UNCHANGED <<flWriter, flDone>>

(* A second later: the writes that began with the handle have returned,    *)
(* unless the handle could not be replaced and is still handed out.        *)
DelayedClose(h) ==
  /\ h \in flClosing
  /\ (\A k \in Kinds : flHandle[k] # h) => \A w \in Writers : flWriter[w].handle # h
  /\ flClosing' = flClosing \ {h}
  /\ flOpen' = [flOpen EXCEPT ![h] = None]
  /\ UNCHANGED <<flDir, flBytes, flHandle, flWriter, flClock, flDone, flFailed>>

LogNext ==
  \/ \E w \in Writers : Write(w) \/ \E level \in Levels : write(w, level)
  \/ HourPasses \/ clean \/ rename
  \/ \E failing \in {"none"} \union Kinds : ReOpen(failing)
  \/ \E h \in flClosing : DelayedClose(h)

LogSpec == LogInit /\ [][LogNext]_logVars

-----------------------------------------------------------------------------
(* A line whose write has returned is in a file of its kind as long as it  *)
(* is younger than the clean time, whatever the spliter did meanwhile, if  *)
(* the files could be opened.                                              *)
LinesKept ==
  flFailed = 0 =>
    \A x \in flDone : x.hour + CleanHours > flClock.hour =>
      \E name \in DOMAIN flDir : name[1] = x.kind /\ x \in flBytes[flDir[name]]
=============================================================================
