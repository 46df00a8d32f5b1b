------------------------------ MODULE Sequence ------------------------------
(***************************************************************************)
(* Global sequence numbers (proxy/sequence/mysql.go): each proxy keeps a   *)
(* range of numbers, and fetches the next range from the database when its *)
(* own is used up.                                                         *)
(*                                                                         *)
(* Several proxies and several goroutines of each share one row of the     *)
(* database.  The database function mycat_seq_nextval is external: it      *)
(* advances the row and answers with the text "value,increment"; without   *)
(* a row the answer is a fixed text whose increment is not a number.       *)
(***************************************************************************)
EXTENDS Integers, Sequences, FiniteSets

CONSTANTS SeqProxies,   \* proxy processes
          SeqWorkers,   \* goroutines of each that ask for numbers
          Step,      \* the increment of the row
          MaxValue   \* bound: the value of the row

Calls == SeqProxies \X SeqWorkers

\* A part of the answer: a number, or a text that is none.
Number(n) == [number |-> TRUE, v |-> n]

NotANumber == [number |-> FALSE, v |-> 0]

\* The value that the database function answers with when it finds no row.
NoRow == -9

VARIABLES seqCurr,   \* s.curr of each proxy
          seqMax,    \* s.max of each proxy
          seqLock,   \* s.lock: the worker that holds it, or "free"
          seqAt,     \* where each worker is
          seqText,   \* what the database answered, split at the comma
          seqRow,    \* the row: its value
          seqGiven,  \* history: the numbers handed out
          seqTwice   \* history: those handed out more than once

sequenceVars == <<seqCurr, seqMax, seqLock, seqAt, seqText, seqRow, seqGiven, seqTwice>>

Numbers == (NoRow - 1)..(MaxValue + 2 * Step)

SequenceTypeOK ==
  /\ seqCurr \in [SeqProxies -> Numbers] /\ seqMax \in [SeqProxies -> Numbers]
  /\ seqAt \in [Calls -> {"idle", "fetch", "parse"}]
  /\ seqRow \in 0..MaxValue
  /\ seqTwice \subseteq seqGiven /\ seqGiven \subseteq Numbers

SequenceInit ==
  /\ seqCurr = [p \in SeqProxies |-> 0] /\ seqMax = [p \in SeqProxies |-> 0]
  /\ seqLock = [p \in SeqProxies |-> "free"]
  /\ seqAt = [c \in Calls |-> "idle"]
  /\ seqText = [c \in Calls |-> <<>>]
  /\ seqRow = 0
  /\ seqGiven = {} /\ seqTwice = {}

\* strconv.ParseInt with its error ignored.
ParseInt(t) == IF t.number THEN t.v ELSE 0

\* s.curr++ and the return of NextSeq.
Hand(p, n) ==
  /\ seqCurr' = [seqCurr EXCEPT ![p] = n + 1]
  /\ seqGiven' = seqGiven \cup {n + 1}
  /\ seqTwice' = seqTwice \cup (seqGiven \cap {n + 1})

\* Mutant: one number more than the range has.
LastOfRange(p) == seqCurr[p] <= seqMax[p]

InRange(p) == seqCurr[p] < seqMax[p]

\* NextSeq: a number of the range at hand, or a fetch with the lock kept.
NextSeq(p, w) ==
  /\ seqAt[<<p, w>>] = "idle" /\ seqLock[p] = "free"
  /\ IF InRange(p)
       THEN Hand(p, seqCurr[p]) /\ UNCHANGED <<seqLock, seqAt>>
       ELSE /\ seqLock' = [seqLock EXCEPT ![p] = w]
            /\ seqAt' = [seqAt EXCEPT ![<<p, w>>] = "fetch"]
            /\ UNCHANGED <<seqCurr, seqGiven, seqTwice>>
  /\ UNCHANGED <<seqMax, seqText, seqRow>>

\* The database advances the row and answers with the new value; without the
\* row the answer is a fixed text.
mycat_seq_nextval(p, w) ==
  /\ seqAt[<<p, w>>] = "fetch"
  /\ seqAt' = [seqAt EXCEPT ![<<p, w>>] = "parse"]
  /\ \/ /\ seqRow + Step <= MaxValue
        /\ seqRow' = seqRow + Step
        /\ seqText' = [seqText EXCEPT ![<<p, w>>] = <<Number(seqRow + Step), Number(Step)>>]
     \/ /\ UNCHANGED seqRow
        /\ seqText' = [seqText EXCEPT ![<<p, w>>] = <<Number(NoRow), NotANumber>>]
  /\ UNCHANGED <<seqCurr, seqMax, seqLock, seqGiven, seqTwice>>

\* getSeqFromDB fails: no connection, USE or SELECT failed, or the answer was
\* lost after the row had advanced, or it has no two parts.
FetchError(p, w) ==
  /\ seqAt[<<p, w>>] \in {"fetch", "parse"}
  /\ seqAt' = [seqAt EXCEPT ![<<p, w>>] = "idle"]
  /\ seqLock' = [seqLock EXCEPT ![p] = "free"]
  /\ seqText' = [seqText EXCEPT ![<<p, w>>] = <<>>]
  /\ UNCHANGED <<seqCurr, seqMax, seqRow, seqGiven, seqTwice>>

\* The rest of getSeqFromDB and of NextSeq.
FetchDone(p, w) ==
  /\ seqAt[<<p, w>>] = "parse"
  /\ LET curr == ParseInt(seqText[<<p, w>>][1])
         incr == ParseInt(seqText[<<p, w>>][2])
     IN  seqMax' = [seqMax EXCEPT ![p] = curr + incr] /\ Hand(p, curr)
  /\ seqAt' = [seqAt EXCEPT ![<<p, w>>] = "idle"]
  /\ seqLock' = [seqLock EXCEPT ![p] = "free"]
  /\ seqText' = [seqText EXCEPT ![<<p, w>>] = <<>>]
  /\ UNCHANGED seqRow

\* A proxy that starts again, or reloads the namespace, begins without a range.
NewMySQLSequence(p) ==
  /\ seqLock[p] = "free"
  /\ seqCurr' = [seqCurr EXCEPT ![p] = 0] /\ seqMax' = [seqMax EXCEPT ![p] = 0]
  /\ UNCHANGED <<seqLock, seqAt, seqText, seqRow, seqGiven, seqTwice>>

SequenceNext ==
  \E p \in SeqProxies :
    \/ NewMySQLSequence(p)
    \/ \E w \in SeqWorkers : NextSeq(p, w) \/ mycat_seq_nextval(p, w) \/ FetchError(p, w) \/ FetchDone(p, w)

SequenceSpec == SequenceInit /\ [][SequenceNext]_sequenceVars

-----------------------------------------------------------------------------
\* No number that comes from the row is handed out twice, by any proxy, over
\* lost answers and restarts.  (Without the row every fetch hands out the same
\* negative number.)
NumbersUnique == \A n \in seqTwice : n < 0
=============================================================================
