------------------------------ MODULE TimeWheel ------------------------------
(***************************************************************************)
(* util/time_wheel.go with its only user, the idle timeout of sessions     *)
(* (proxy/server/server.go, session.go).  A session arms the wheel under   *)
(* its sequence number after the handshake and again with every command;   *)
(* when it ends it asks for the removal and gives the number back, for     *)
(* another session to use.  The wheel's goroutine takes ticks, additions   *)
(* and removals from three channels, in any order.                         *)
(*                                                                         *)
(* One tick is timeWheelUnit; Delay is session_timeout in ticks.           *)
(***************************************************************************)
EXTENDS Naturals, Sequences

CONSTANTS
    Sessions,
    SequenceNumbers,     \* sequence numbers
    None,
    BucketsNum,
    Delay,
    QueueLen     \* capacity of addC and removeC

Buckets == 0 .. BucketsNum - 1

Tasks == [session : Sessions, round : 0 .. Delay]

ASSUME WheelAssumption ==
    /\ BucketsNum \in Nat \ {0}
    /\ Delay \in Nat \ {0}
    /\ QueueLen \in Nat \ {0}
    /\ None \notin SequenceNumbers \cup Buckets \cup Tasks

VARIABLES
    buckets,        \* buckets[i][k]: the task under key k in bucket i, or None
    bucketIndexes,  \* bucketIndexes[k]: the bucket of key k, or None
    currentIndex,
    addC, removeC,
    firing,         \* sessions whose callback, Close, has been started
    pc,             \* where the goroutine of a session is
    closed,         \* closed sessions
    sequence,       \* the number of each session, or None
    pool,           \* numbers that sessionSequencePool may hand out
    due,            \* history: ticks left for the task under each key
    robbed          \* history: sessions whose task another's removal took

vars == <<buckets, bucketIndexes, currentIndex, addC, removeC, firing, pc, closed, sequence, pool,
          due, robbed>>

wheel == <<buckets, bucketIndexes, currentIndex, due, robbed>>

Init ==
    /\ buckets = [i \in Buckets |-> [k \in SequenceNumbers |-> None]]
    /\ bucketIndexes = [k \in SequenceNumbers |-> None]
    /\ currentIndex = 0
    /\ addC = <<>> /\ removeC = <<>>
    /\ firing = {}
    /\ pc = [s \in Sessions |-> "new"]
    /\ closed = {}
    /\ sequence = [s \in Sessions |-> None]
    /\ pool = SequenceNumbers
    /\ due = [k \in SequenceNumbers |-> 0]
    /\ robbed = {}

-----------------------------------------------------------------------------
(* The wheel's goroutine.                                                  *)

calculateRound(delay) == delay \div BucketsNum

(* Mutant: one bucket too far.                                             *)
calculateIndexAfter(delay) == (currentIndex + delay + 1) % BucketsNum

calculateIndex(delay) == (currentIndex + delay) % BucketsNum

Expired == {k \in SequenceNumbers : buckets[currentIndex][k] # None /\ buckets[currentIndex][k].round = 0}

(* Mutant: the first callback ends the loop.                               *)
CallbacksFirst ==
    IF Expired = {} THEN {} ELSE {buckets[currentIndex][CHOOSE k \in Expired : TRUE].session}

Callbacks == {buckets[currentIndex][k].session : k \in Expired}

(* The current bucket after a tick.                                        *)
Swept ==
    [k \in SequenceNumbers |-> IF buckets[currentIndex][k] = None \/ k \in Expired THEN None
                       ELSE [buckets[currentIndex][k] EXCEPT !.round = @ - 1]]

NextIndex == IF currentIndex = BucketsNum - 1 THEN 0 ELSE currentIndex + 1

handleTick ==
    /\ buckets' = [buckets EXCEPT ![currentIndex] = Swept]
    /\ bucketIndexes' = [k \in SequenceNumbers |-> IF k \in Expired THEN None ELSE bucketIndexes[k]]
    /\ firing' = firing \cup Callbacks
    /\ currentIndex' = NextIndex
    /\ due' = [k \in SequenceNumbers |-> IF due[k] = 0 THEN 0 ELSE due[k] - 1]
    /\ UNCHANGED <<addC, removeC, pc, closed, sequence, pool, robbed>>

(* Take the task of key k, if there is one, out of its bucket.             *)
without(k) ==
    [i \in Buckets |-> IF i = bucketIndexes[k] THEN [buckets[i] EXCEPT ![k] = None] ELSE buckets[i]]

add ==
    LET s == Head(addC)
        k == sequence[s]
        i == calculateIndex(Delay)
    IN  /\ addC # <<>>
        /\ addC' = Tail(addC)
        /\ bucketIndexes' = [bucketIndexes EXCEPT ![k] = i]
        /\ buckets' = [without(k) EXCEPT ![i][k] = [session |-> s, round |-> calculateRound(Delay)]]
        /\ due' = [due EXCEPT ![k] = Delay]
        /\ robbed' = robbed \ {s}
        /\ UNCHANGED <<currentIndex, removeC, firing, pc, closed, sequence, pool>>

remove ==
    LET k == Head(removeC)
        i == bucketIndexes[k]
    IN  /\ removeC # <<>>
        /\ removeC' = Tail(removeC)
        /\ buckets' = without(k)
        /\ bucketIndexes' = [bucketIndexes EXCEPT ![k] = None]
        /\ robbed' = IF i = None THEN robbed ELSE robbed \cup {buckets[i][k].session}
        /\ UNCHANGED <<currentIndex, addC, firing, pc, closed, sequence, pool, due>>

-----------------------------------------------------------------------------
(* The sessions.                                                           *)

Add(s) ==
    /\ Len(addC) < QueueLen
    /\ addC' = Append(addC, s)

(* newSession.                                                             *)
Connect(s) ==
    /\ pc[s] = "new"
    /\ \E k \in pool : /\ sequence' = [sequence EXCEPT ![s] = k]
                       /\ pool' = pool \ {k}
    /\ pc' = [pc EXCEPT ![s] = "handshake"]
    /\ UNCHANGED <<wheel, addC, removeC, firing, closed>>

HandshakeRefused(s) ==
    /\ pc[s] = "handshake"
    /\ closed' = closed \cup {s}
    /\ pc' = [pc EXCEPT ![s] = "put"]
    /\ UNCHANGED <<wheel, addC, removeC, firing, sequence, pool>>

(* onConn arms the wheel and starts Run.                                   *)
StartRun(s) ==
    /\ pc[s] = "handshake"
    /\ Add(s)
    /\ pc' = [pc EXCEPT ![s] = "read"]
    /\ UNCHANGED <<wheel, removeC, firing, closed, sequence, pool>>

(* ReadEphemeralPacket returns a command; the wheel may close the session  *)
(* before the command is added.                                            *)
ReadPacket(s) ==
    /\ pc[s] = "read" /\ s \notin closed
    /\ pc' = [pc EXCEPT ![s] = "command"]
    /\ UNCHANGED <<wheel, addC, removeC, firing, closed, sequence, pool>>

Command(s) ==
    /\ pc[s] = "command"
    /\ Add(s)
    /\ pc' = [pc EXCEPT ![s] = "read"]
    /\ UNCHANGED <<wheel, removeC, firing, closed, sequence, pool>>

(* Run returns: the client left, or the session has been closed.           *)
Leave(s) ==
    /\ pc[s] = "read"
    /\ closed' = closed \cup {s}
    /\ pc' = [pc EXCEPT ![s] = "remove"]
    /\ UNCHANGED <<wheel, addC, removeC, firing, sequence, pool>>

Remove(s) ==
    /\ pc[s] = "remove"
    /\ Len(removeC) < QueueLen
    /\ removeC' = Append(removeC, sequence[s])
    /\ pc' = [pc EXCEPT ![s] = "put"]
    /\ UNCHANGED <<wheel, addC, firing, closed, sequence, pool>>

PutSequence(s) ==
    /\ pc[s] = "put"
    /\ pool' = pool \cup {sequence[s]}
    /\ pc' = [pc EXCEPT ![s] = "gone"]
    /\ UNCHANGED <<wheel, addC, removeC, firing, closed, sequence>>

(* The callback: Session.Close, which makes the read return an error.      *)
Callback(s) ==
    /\ s \in firing
    /\ firing' = firing \ {s}
    /\ closed' = closed \cup {s}
    /\ UNCHANGED <<wheel, addC, removeC, pc, sequence, pool>>

Next ==
    \/ handleTick \/ add \/ remove
    \/ \E s \in Sessions : \/ Connect(s) \/ HandshakeRefused(s) \/ StartRun(s) \/ ReadPacket(s)
                           \/ Command(s) \/ Leave(s) \/ Remove(s) \/ PutSequence(s) \/ Callback(s)

Spec == Init /\ [][Next]_vars

-----------------------------------------------------------------------------
(* Properties.                                                             *)

(* Every variable has its type.                                            *)
TypeOK ==
    /\ buckets \in [Buckets -> [SequenceNumbers -> Tasks \cup {None}]]
    /\ bucketIndexes \in [SequenceNumbers -> Buckets \cup {None}]
    /\ currentIndex \in Buckets
    /\ addC \in Seq(Sessions) /\ Len(addC) <= QueueLen
    /\ removeC \in Seq(SequenceNumbers) /\ Len(removeC) <= QueueLen
    /\ firing \subseteq Sessions
    /\ pc \in [Sessions -> {"new", "handshake", "read", "command", "remove", "put", "gone"}]
    /\ closed \subseteq Sessions
    /\ sequence \in [Sessions -> SequenceNumbers \cup {None}]
    /\ pool \subseteq SequenceNumbers
    /\ due \in [SequenceNumbers -> 0 .. Delay]
    /\ robbed \subseteq Sessions

(* A key is in the bucket that bucketIndexes names and in no other, so     *)
(* that remove and the replacement in add find every task.                 *)
OneBucket ==
    \A k \in SequenceNumbers, i \in Buckets : buckets[i][k] # None <=> bucketIndexes[k] = i

(* Ticks from bucket i until it is the current one.                        *)
Distance(i) == IF i >= currentIndex THEN i - currentIndex ELSE i + BucketsNum - currentIndex

(* The rounds left and the distance of the bucket add up to the ticks the  *)
(* task still has to wait, over any number of turns of the wheel: a        *)
(* callback starts neither early nor a turn late (handleTick,              *)
(* calculateRound, calculateIndex).                                        *)
Exact ==
    \A k \in SequenceNumbers, i \in Buckets :
        buckets[i][k] # None => buckets[i][k].round * BucketsNum + Distance(i) = due[k]

InRun(s) == pc[s] \in {"read", "command"}

Queued(s) == \E j \in 1 .. Len(addC) : addC[j] = s

(* Numbers are reused, callbacks are not: the task under the number of a   *)
(* running session closes that session and not the previous owner of the   *)
(* number, unless the session's own task is still in the channel.          *)
OwnTask ==
    \A s \in Sessions, i \in Buckets :
        InRun(s) /\ buckets[i][sequence[s]] # None =>
            buckets[i][sequence[s]].session = s \/ Queued(s)

(* A running session has its timeout armed: its task is in the wheel or on *)
(* its way, or its callback has been started.  There is one exception: the *)
(* wheel takes addC and removeC in any order, so the removal that the      *)
(* previous owner of the number asked for may come after the addition of   *)
(* the new one and take its task.                                          *)
Armed ==
    \A s \in Sessions :
        InRun(s) /\ s \notin closed =>
            \/ Queued(s) \/ s \in firing \/ s \in robbed
            \/ \E i \in Buckets : buckets[i][sequence[s]] # None /\ buckets[i][sequence[s]].session = s

=============================================================================
