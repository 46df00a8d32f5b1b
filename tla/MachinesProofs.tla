--------------------------- MODULE MachinesProofs ---------------------------
(***************************************************************************)
(* Theorems about four smaller machines: the time wheel (TimeWheel), the   *)
(* sequence (Sequence), the read-write split (ReadWriteSplit) and the      *)
(* configuration store (ConfigStore).                                      *)
(***************************************************************************)
EXTENDS TimeWheel, Sequence, ReadWriteSplit, ConfigStore, TLAPS

-----------------------------------------------------------------------------
(***************************************************************************)
(* The time wheel (TimeWheel), for wheels of any size, any timeout and any *)
(* number of sessions.                                                     *)
(***************************************************************************)

\* Arithmetic of the wheel.
LEMMA Remainder ==
    \A B \in Nat \ {0} : \A q \in Nat : \A r \in 0 .. B - 1 : (q * B + r) % B = r
OBVIOUS

(* Where calculateRound and calculateIndex put a task, it has to wait      *)
(* exactly Delay ticks.                                                    *)
LEMMA Placement ==
    ASSUME NEW c \in Buckets
    PROVE  LET i == (c + Delay) % BucketsNum
               q == Delay \div BucketsNum IN
           /\ i \in Buckets
           /\ q \in 0 .. Delay
           /\ q * BucketsNum + (IF i >= c THEN i - c ELSE i + BucketsNum - c) = Delay
<1> DEFINE B == BucketsNum
           q == Delay \div B
           r == Delay % B
<1>1. B \in Nat \ {0} /\ Delay \in Nat /\ c \in Nat /\ c < B
  BY WheelAssumption DEF Buckets
<1> HIDE DEF B
<1>2. Delay = q * B + r /\ r \in 0 .. B - 1 /\ q \in Nat  BY <1>1
<1>3. q \in 0 .. Delay  BY <1>1
<1> HIDE DEF q, r
<1>4. q * B \in Nat  BY <1>1, <1>2
<1>5. CASE c + r < B
  <2>1. c + r \in 0 .. B - 1 /\ c + Delay \in Nat /\ c + Delay = q * B + (c + r)
    BY <1>1, <1>2, <1>4, <1>5
  <2>2. (c + Delay) % B = c + r  BY <1>1, <1>2, <2>1, Remainder
  <2>3. q * B + (c + r - c) = Delay /\ c + r >= c  BY <1>1, <1>2, <1>4
  <2> QED  BY <1>1, <1>2, <1>3, <2>1, <2>2, <2>3 DEF Buckets, B, q
<1>6. CASE c + r >= B
  <2>1. c + r - B \in 0 .. B - 1 /\ c + Delay \in Nat /\ c + Delay = q * B + B + (c + r - B)
    BY <1>1, <1>2, <1>4, <1>6
  <2>2. q + 1 \in Nat /\ (q + 1) * B = q * B + B  BY <1>1, <1>2
  <2>3. (c + Delay) % B = c + r - B
    <3> DEFINE y == c + r - B
               z == q + 1
               x == c + Delay
    <3>1. x = z * B + y  BY <2>1, <2>2
    <3>2. B \in Nat \ {0} /\ z \in Nat /\ y \in 0 .. B - 1 /\ x \in Nat  BY <1>1, <2>1, <2>2
    <3> HIDE DEF x, y, z
    <3>3. (z * B + y) % B = y  BY <3>2, Remainder, Zenon
    <3> QED  BY <3>1, <3>3 DEF x, y
  <2>4. q * B + (c + r - B + B - c) = Delay /\ ~(c + r - B >= c)  BY <1>1, <1>2, <1>4
  <2> QED  BY <1>1, <1>2, <1>3, <2>1, <2>3, <2>4 DEF Buckets, B, q
<1> QED  BY <1>1, <1>2, <1>5, <1>6

(* A tick brings every bucket one step closer, and the current one to the  *)
(* end of the queue.                                                       *)
LEMMA Turn ==
    ASSUME NEW c \in Buckets, NEW i \in Buckets, NEW r \in Nat, NEW d \in Nat,
           r * BucketsNum + (IF i >= c THEN i - c ELSE i + BucketsNum - c) = d,
           i = c => r > 0
    PROVE  LET n == IF c = BucketsNum - 1 THEN 0 ELSE c + 1 IN
           /\ n \in Buckets
           /\ d > 0
           /\ (IF i = c THEN r - 1 ELSE r) * BucketsNum
                + (IF i >= n THEN i - n ELSE i + BucketsNum - n) = d - 1
<1> DEFINE B == BucketsNum
           n == IF c = B - 1 THEN 0 ELSE c + 1
<1>1. B \in Nat \ {0} /\ c \in Nat /\ c < B /\ i \in Nat /\ i < B
  BY WheelAssumption DEF Buckets
<1> HIDE DEF B
<1>2. n \in Nat /\ n < B  BY <1>1
<1>3. r * B \in Nat  BY <1>1
<1>4. CASE i = c
  <2>1. r * B = d  BY <1>1, <1>3, <1>4 DEF B
  <2>2. (r - 1) * B = r * B - B /\ r - 1 \in Nat  BY <1>1, <1>4
  <2>3. (r - 1) * B \in Nat  BY <1>1, <2>2
  <2>4. (IF i >= n THEN i - n ELSE i + B - n) = B - 1  BY <1>1, <1>4
  <2>5. (r - 1) * B + (B - 1) = d - 1 /\ d > 0  BY <1>1, <1>3, <2>1, <2>2, <2>3
  <2> HIDE DEF n
  <2>6. (IF i = c THEN r - 1 ELSE r) = r - 1  BY <1>4
  <2> QED  BY <1>1, <1>2, <2>4, <2>5, <2>6 DEF Buckets, B, n
<1>5. CASE i # c
  <2> DEFINE x == IF i >= c THEN i - c ELSE i + B - c
  <2>1. x \in Nat /\ x > 0  BY <1>1, <1>5
  <2>2. r * B + x = d  BY DEF B
  <2>3. (IF i >= n THEN i - n ELSE i + B - n) = x - 1  BY <1>1, <1>5
  <2> HIDE DEF x, n
  <2>4. r * B + (x - 1) = d - 1 /\ d > 0  BY <1>3, <2>1, <2>2
  <2>5. (IF i = c THEN r - 1 ELSE r) = r  BY <1>5
  <2> QED  BY <1>1, <1>2, <2>3, <2>4, <2>5 DEF Buckets, B, n
<1> QED  BY <1>4, <1>5

-----------------------------------------------------------------------------
(* The inductive invariant.                                                *)

Holding(s) == pc[s] \notin {"new", "gone"}

(* Who has a number, and that a queued task belongs to a session that was  *)
(* started.                                                                *)
Numbered ==
    /\ \A s \in Sessions : pc[s] # "new" => sequence[s] \in SequenceNumbers
    /\ \A j \in 1 .. Len(addC) : pc[addC[j]] # "new"

(* A number has one owner at a time.                                       *)
Unique ==
    \A s \in Sessions : Holding(s) =>
        /\ sequence[s] \notin pool
        /\ \A t \in Sessions : Holding(t) /\ sequence[t] = sequence[s] => t = s

(* Tasks that earlier owners of a number left in addC come before one of   *)
(* the running owner.                                                      *)
LastAdd ==
    \A s \in Sessions : InRun(s) =>
        \A j \in 1 .. Len(addC) : sequence[addC[j]] = sequence[s] =>
            \E l \in j .. Len(addC) : addC[l] = s

WheelInv == TypeOK /\ Numbered /\ Unique /\ LastAdd /\ OneBucket /\ Exact /\ OwnTask /\ Armed

\* The invariant of the wheel holds at first.
LEMMA WheelInitInv == Init => WheelInv
<1> SUFFICES ASSUME Init PROVE WheelInv  OBVIOUS
<1>1. 0 \in Buckets /\ BucketsNum \in Nat /\ Delay \in Nat /\ QueueLen \in Nat  BY WheelAssumption DEF Buckets
<1>2. TypeOK
  <2>1. buckets \in [Buckets -> [SequenceNumbers -> Tasks \cup {None}]]  BY DEF Init
  <2>2. addC \in Seq(Sessions) /\ Len(addC) = 0 /\ removeC \in Seq(SequenceNumbers) /\ Len(removeC) = 0
    BY DEF Init
  <2>3. due \in [SequenceNumbers -> 0 .. Delay]  BY <1>1 DEF Init
  <2> QED  BY <1>1, <2>1, <2>2, <2>3 DEF TypeOK, Init
<1>3. Len(addC) = 0 /\ 1 .. Len(addC) = {}  BY DEF Init
<1>4. \A s \in Sessions : ~Holding(s) /\ ~InRun(s) /\ pc[s] = "new"
  BY Zenon DEF Init, Holding, InRun
<1>5. Numbered /\ Unique /\ LastAdd /\ OwnTask /\ Armed
  BY <1>3, <1>4 DEF Numbered, Unique, LastAdd, OwnTask, Armed
<1>6. OneBucket /\ Exact
  <2>1. \A k \in SequenceNumbers, i \in Buckets : buckets[i][k] = None /\ bucketIndexes[k] # i
    BY WheelAssumption DEF Init
  <2> QED  BY <2>1 DEF OneBucket, Exact
<1> QED  BY <1>2, <1>5, <1>6 DEF WheelInv

(* The wheel turns.                                                        *)
LEMMA TickInv == WheelInv /\ handleTick => WheelInv'
<1> SUFFICES ASSUME WheelInv, handleTick PROVE WheelInv'  OBVIOUS
<1> DEFINE c == currentIndex
<1>1. /\ buckets' = [buckets EXCEPT ![c] = Swept] /\ currentIndex' = NextIndex
      /\ bucketIndexes' = [k \in SequenceNumbers |-> IF k \in Expired THEN None ELSE bucketIndexes[k]]
      /\ firing' = firing \cup Callbacks
      /\ due' = [k \in SequenceNumbers |-> IF due[k] = 0 THEN 0 ELSE due[k] - 1]
      /\ UNCHANGED <<addC, removeC, pc, closed, sequence, pool, robbed>>
  BY DEF handleTick
<1>2. /\ buckets \in [Buckets -> [SequenceNumbers -> Tasks \cup {None}]] /\ c \in Buckets
      /\ bucketIndexes \in [SequenceNumbers -> Buckets \cup {None}] /\ due \in [SequenceNumbers -> 0 .. Delay]
      /\ firing \subseteq Sessions
  BY DEF WheelInv, TypeOK
<1>3. \A k \in SequenceNumbers : buckets[c][k] \in Tasks \cup {None}  BY <1>2
<1>4. \A k \in SequenceNumbers : k \in Expired <=> buckets[c][k] # None /\ buckets[c][k].round = 0
  BY DEF Expired
<1>5. \A k \in SequenceNumbers : buckets[c][k] # None /\ k \notin Expired =>
         /\ Swept[k] \in Tasks
         /\ Swept[k].session = buckets[c][k].session /\ Swept[k].round = buckets[c][k].round - 1
         /\ buckets[c][k].round > 0 /\ Swept[k] # None
  <2> SUFFICES ASSUME NEW k \in SequenceNumbers, buckets[c][k] # None, k \notin Expired
               PROVE  /\ Swept[k] \in Tasks
                      /\ Swept[k].session = buckets[c][k].session /\ Swept[k].round = buckets[c][k].round - 1
                      /\ buckets[c][k].round > 0 /\ Swept[k] # None
    OBVIOUS
  <2>1. buckets[c][k] \in Tasks  BY <1>3
  <2>2. buckets[c][k].round \in 0 .. Delay /\ buckets[c][k].round # 0  BY <1>4, <2>1 DEF Tasks
  <2>3. Swept[k] = [buckets[c][k] EXCEPT !.round = @ - 1]  BY DEF Swept
  <2>4. Delay \in Nat  BY WheelAssumption
  <2>5. buckets[c][k].round - 1 \in 0 .. Delay /\ buckets[c][k].round > 0  BY <2>2, <2>4
  <2>6. /\ Swept[k] \in Tasks /\ Swept[k].session = buckets[c][k].session
        /\ Swept[k].round = buckets[c][k].round - 1
    BY <2>1, <2>3, <2>5 DEF Tasks
  <2> QED  BY <2>5, <2>6, WheelAssumption
<1>6. \A k \in SequenceNumbers : buckets[c][k] = None \/ k \in Expired => Swept[k] = None  BY DEF Swept
<1>7. /\ buckets'[c] = Swept /\ \A i \in Buckets \ {c} : buckets'[i] = buckets[i]
  BY <1>1, <1>2
<1>8. NextIndex \in Buckets  BY <1>2, WheelAssumption DEF NextIndex, Buckets
<1>9. TypeOK'
  <2>1. Swept \in [SequenceNumbers -> Tasks \cup {None}]
    <3>1. \A k \in SequenceNumbers : Swept[k] \in Tasks \cup {None}  BY <1>5, <1>6
    <3>2. Swept = [k \in SequenceNumbers |-> Swept[k]]  BY DEF Swept
    <3> QED  BY <3>1, <3>2
  <2>2. buckets' \in [Buckets -> [SequenceNumbers -> Tasks \cup {None}]]  BY <1>1, <1>2, <2>1
  <2>3. bucketIndexes' \in [SequenceNumbers -> Buckets \cup {None}]  BY <1>1, <1>2
  <2>4. due' \in [SequenceNumbers -> 0 .. Delay]
    <3>1. \A k \in SequenceNumbers : (IF due[k] = 0 THEN 0 ELSE due[k] - 1) \in 0 .. Delay
      <4>1. TAKE k \in SequenceNumbers
      <4>2. due[k] \in 0 .. Delay /\ Delay \in Nat  BY <1>2, WheelAssumption
      <4> QED  BY <4>2
    <3> QED  BY <1>1, <3>1
  <2>5. firing' \subseteq Sessions
    <3>1. \A k \in Expired : buckets[c][k].session \in Sessions  BY <1>3, <1>4 DEF Expired, Tasks
    <3> QED  BY <1>1, <1>2, <3>1 DEF Callbacks
  <2> QED  BY <1>1, <1>8, <2>2, <2>3, <2>4, <2>5 DEF WheelInv, TypeOK
<1>10. Numbered' /\ Unique' /\ LastAdd'
  <2>1. Numbered'  BY <1>1 DEF WheelInv, Numbered
  <2>2. Unique'  BY <1>1 DEF WheelInv, Unique, Holding
  <2>3. LastAdd'  BY <1>1 DEF WheelInv, LastAdd, InRun
  <2> QED  BY <2>1, <2>2, <2>3
<1> HIDE DEF c
<1>11. \A k \in SequenceNumbers, i \in Buckets :
         /\ buckets'[i][k] # None <=> buckets[i][k] # None /\ ~(i = c /\ k \in Expired)
         /\ buckets'[i][k] # None => buckets'[i][k].session = buckets[i][k].session
         /\ buckets'[i][k] # None =>
              buckets'[i][k].round = IF i = c THEN buckets[i][k].round - 1 ELSE buckets[i][k].round
         /\ buckets'[i][k] # None => (i = c => buckets[i][k].round > 0)
  <2> SUFFICES ASSUME NEW k \in SequenceNumbers, NEW i \in Buckets
               PROVE  /\ buckets'[i][k] # None <=> buckets[i][k] # None /\ ~(i = c /\ k \in Expired)
                      /\ buckets'[i][k] # None => buckets'[i][k].session = buckets[i][k].session
                      /\ buckets'[i][k] # None =>
                           buckets'[i][k].round = IF i = c THEN buckets[i][k].round - 1 ELSE buckets[i][k].round
                      /\ buckets'[i][k] # None => (i = c => buckets[i][k].round > 0)
    OBVIOUS
  <2>1. CASE i = c  BY <1>5, <1>6, <1>7, <2>1
  <2>2. CASE i # c  BY <1>7, <2>2
  <2> QED  BY <2>1, <2>2
<1>12. OneBucket'
  <2>1. \A k \in SequenceNumbers, i \in Buckets : buckets[i][k] # None <=> bucketIndexes[k] = i
    BY DEF WheelInv, OneBucket
  <2>2. \A k \in Expired : bucketIndexes[k] = c  BY <1>2, <1>4, <2>1 DEF Expired
  <2>3. \A k \in SequenceNumbers, i \in Buckets : bucketIndexes'[k] = i <=> bucketIndexes[k] = i /\ k \notin Expired
    BY <1>1, <1>2, WheelAssumption
  <2> QED  BY <1>2, <1>11, <2>1, <2>2, <2>3 DEF OneBucket
<1>13. Exact'
  <2> SUFFICES ASSUME NEW k \in SequenceNumbers, NEW i \in Buckets, buckets'[i][k] # None
               PROVE  buckets'[i][k].round * BucketsNum + Distance(i)' = due'[k]
    BY DEF Exact
  <2> DEFINE r == buckets[i][k].round
             n == IF c = BucketsNum - 1 THEN 0 ELSE c + 1
  <2>1. buckets[i][k] # None /\ (i = c => r > 0)  BY <1>11
  <2>2. r * BucketsNum + (IF i >= c THEN i - c ELSE i + BucketsNum - c) = due[k]
    BY <2>1 DEF WheelInv, Exact, Distance, c
  <2>3. r \in Nat /\ due[k] \in Nat
    <3>1. buckets[i][k] \in Tasks /\ due[k] \in 0 .. Delay  BY <1>2, <2>1
    <3>2. r \in 0 .. Delay /\ Delay \in Nat  BY <3>1, WheelAssumption DEF Tasks
    <3> QED  BY <3>1, <3>2
  <2>4. buckets'[i][k].round = IF i = c THEN r - 1 ELSE r  BY <1>11
  <2>5. Distance(i)' = IF i >= n THEN i - n ELSE i + BucketsNum - n
    BY <1>1 DEF Distance, NextIndex, c
  <2> DEFINE d == due[k]
  <2>a. /\ c \in Buckets /\ r \in Nat /\ d \in Nat /\ (i = c => r > 0)
        /\ r * BucketsNum + (IF i >= c THEN i - c ELSE i + BucketsNum - c) = d
    BY <1>2, <2>1, <2>2, <2>3
  <2> HIDE DEF r, d
  <2>6. /\ d > 0
        /\ (IF i = c THEN r - 1 ELSE r) * BucketsNum + (IF i >= n THEN i - n ELSE i + BucketsNum - n)
             = d - 1
    BY <2>a, Turn
  <2> HIDE DEF n
  <2>7. due'[k] = d - 1  BY <1>1, <2>3, <2>6 DEF d
  <2> QED  BY <2>4, <2>5, <2>6, <2>7
<1>14. OwnTask'
  <2> SUFFICES ASSUME NEW s \in Sessions, NEW i \in Buckets, InRun(s)', buckets'[i][sequence'[s]] # None
               PROVE  buckets'[i][sequence'[s]].session = s \/ Queued(s)'
    BY DEF OwnTask
  <2>1. InRun(s) /\ pc[s] # "new" /\ sequence'[s] = sequence[s] /\ (Queued(s)' <=> Queued(s))
    BY <1>1 DEF InRun, Queued
  <2>2. sequence[s] \in SequenceNumbers  BY <2>1 DEF WheelInv, Numbered
  <2>3. buckets[i][sequence[s]] # None /\ buckets'[i][sequence[s]].session = buckets[i][sequence[s]].session
    BY <1>11, <2>1, <2>2
  <2> QED  BY <2>1, <2>3 DEF WheelInv, OwnTask
<1>15. Armed'
  <2> SUFFICES ASSUME NEW s \in Sessions, InRun(s)', s \notin closed'
               PROVE  \/ Queued(s)' \/ s \in firing' \/ s \in robbed'
                      \/ \E i \in Buckets : buckets'[i][sequence'[s]] # None /\ buckets'[i][sequence'[s]].session = s
    BY DEF Armed
  <2>1. InRun(s) /\ pc[s] # "new" /\ sequence'[s] = sequence[s] /\ (Queued(s)' <=> Queued(s))
        /\ s \notin closed /\ robbed' = robbed
    BY <1>1 DEF InRun, Queued
  <2>2. sequence[s] \in SequenceNumbers  BY <2>1 DEF WheelInv, Numbered
  <2>3. CASE Queued(s) \/ s \in firing \/ s \in robbed  BY <1>1, <2>1, <2>3
  <2>4. ASSUME NEW i \in Buckets, buckets[i][sequence[s]] # None, buckets[i][sequence[s]].session = s
        PROVE  s \in firing' \/ (buckets'[i][sequence[s]] # None /\ buckets'[i][sequence[s]].session = s)
    <3>1. CASE i = c /\ sequence[s] \in Expired  BY <1>1, <2>4, <3>1 DEF Callbacks, c
    <3>2. CASE ~(i = c /\ sequence[s] \in Expired)  BY <1>11, <2>2, <2>4, <3>2
    <3> QED  BY <3>1, <3>2
  <2>5. \/ Queued(s) \/ s \in firing \/ s \in robbed
        \/ \E i \in Buckets : buckets[i][sequence[s]] # None /\ buckets[i][sequence[s]].session = s
    BY <2>1 DEF WheelInv, Armed
  <2> QED  BY <2>1, <2>3, <2>4, <2>5
<1> QED  BY <1>9, <1>10, <1>12, <1>13, <1>14, <1>15 DEF WheelInv

\* The buckets without a key: no bucket holds it, the other keys stay.
LEMMA Without ==
    ASSUME WheelInv, NEW k \in SequenceNumbers
    PROVE  /\ without(k) \in [Buckets -> [SequenceNumbers -> Tasks \cup {None}]]
           /\ \A w \in SequenceNumbers, j \in Buckets : without(k)[j][w] = IF w = k THEN None ELSE buckets[j][w]
<1>1. /\ buckets \in [Buckets -> [SequenceNumbers -> Tasks \cup {None}]]
      /\ bucketIndexes \in [SequenceNumbers -> Buckets \cup {None}]
      /\ \A j \in Buckets : buckets[j][k] # None <=> bucketIndexes[k] = j
  BY DEF WheelInv, TypeOK, OneBucket
<1>2. \A j \in Buckets : without(k)[j] = IF j = bucketIndexes[k] THEN [buckets[j] EXCEPT ![k] = None] ELSE buckets[j]
  BY DEF without
<1>3. ASSUME NEW j \in Buckets
      PROVE  without(k)[j] \in [SequenceNumbers -> Tasks \cup {None}]
  <2>1. buckets[j] \in [SequenceNumbers -> Tasks \cup {None}]  BY <1>1
  <2>2. [buckets[j] EXCEPT ![k] = None] \in [SequenceNumbers -> Tasks \cup {None}]  BY <2>1
  <2> QED  BY <1>2, <2>1, <2>2, Zenon
<1>4. without(k) = [j \in Buckets |-> without(k)[j]]  BY DEF without
<1>5. ASSUME NEW w \in SequenceNumbers, NEW j \in Buckets
      PROVE  without(k)[j][w] = IF w = k THEN None ELSE buckets[j][w]
  <2>1. CASE j = bucketIndexes[k]
    <3>1. without(k)[j] = [buckets[j] EXCEPT ![k] = None]  BY <1>2, <2>1
    <3>2. buckets[j] \in [SequenceNumbers -> Tasks \cup {None}]  BY <1>1
    <3> QED  BY <3>1, <3>2
  <2>2. CASE j # bucketIndexes[k]
    <3>1. without(k)[j] = buckets[j] /\ buckets[j][k] = None  BY <1>1, <1>2, <2>2
    <3> QED  BY <3>1
  <2> QED  BY <2>1, <2>2
<1> QED  BY <1>3, <1>4, <1>5

\* A task that is added keeps the invariant (add).
LEMMA AddInv == WheelInv /\ add => WheelInv'
<1> SUFFICES ASSUME WheelInv, add PROVE WheelInv'  OBVIOUS
<1> DEFINE a == Head(addC)
           k == sequence[a]
           i == calculateIndex(Delay)
           task == [session |-> a, round |-> calculateRound(Delay)]
<1>1. /\ addC # <<>> /\ addC' = Tail(addC) /\ bucketIndexes' = [bucketIndexes EXCEPT ![k] = i]
      /\ buckets' = [without(k) EXCEPT ![i][k] = task]
      /\ due' = [due EXCEPT ![k] = Delay] /\ robbed' = robbed \ {a}
      /\ UNCHANGED <<currentIndex, removeC, firing, pc, closed, sequence, pool>>
  BY DEF add
<1>2. /\ addC \in Seq(Sessions) /\ Len(addC) <= QueueLen /\ QueueLen \in Nat
      /\ bucketIndexes \in [SequenceNumbers -> Buckets \cup {None}] /\ due \in [SequenceNumbers -> 0 .. Delay]
      /\ currentIndex \in Buckets
      /\ Delay \in Nat /\ robbed \subseteq Sessions
  BY WheelAssumption DEF WheelInv, TypeOK
<1>3. /\ a \in Sessions /\ a = addC[1] /\ Len(addC) \in Nat /\ Len(addC) >= 1
      /\ addC' \in Seq(Sessions) /\ Len(addC') = Len(addC) - 1
      /\ \A j \in 1 .. Len(addC') : j + 1 \in 1 .. Len(addC) /\ addC'[j] = addC[j + 1]
  BY <1>1, <1>2
<1>4. pc[a] # "new" /\ k \in SequenceNumbers
  <2>1. 1 \in 1 .. Len(addC)  BY <1>3
  <2>2. pc[a] # "new"  BY <1>3, <2>1 DEF WheelInv, Numbered
  <2> QED  BY <1>3, <2>2 DEF WheelInv, Numbered
<1>5. /\ i \in Buckets /\ calculateRound(Delay) \in 0 .. Delay
      /\ calculateRound(Delay) * BucketsNum + Distance(i) = Delay
  BY <1>2, Placement DEF calculateIndex, calculateRound, Distance
<1>6. task \in Tasks /\ task # None /\ task.session = a /\ task.round = calculateRound(Delay)
  <2>1. task \in Tasks  BY <1>3, <1>5 DEF Tasks
  <2> QED  BY <2>1, WheelAssumption
<1> HIDE DEF a, k, i, task
<1>7. /\ without(k) \in [Buckets -> [SequenceNumbers -> Tasks \cup {None}]]
      /\ \A w \in SequenceNumbers, j \in Buckets : without(k)[j][w] = IF w = k THEN None ELSE buckets[j][w]
  BY <1>4, Without
<1>8. /\ buckets' \in [Buckets -> [SequenceNumbers -> Tasks \cup {None}]]
      /\ \A w \in SequenceNumbers, j \in Buckets :
           buckets'[j][w] = IF w # k THEN buckets[j][w] ELSE IF j = i THEN task ELSE None
  <2>1. buckets' = [without(k) EXCEPT ![i] = [without(k)[i] EXCEPT ![k] = task]]  BY <1>1
  <2>2. [without(k)[i] EXCEPT ![k] = task] \in [SequenceNumbers -> Tasks \cup {None}]
    BY <1>4, <1>5, <1>6, <1>7
  <2>3. buckets' \in [Buckets -> [SequenceNumbers -> Tasks \cup {None}]]  BY <1>5, <1>7, <2>1, <2>2
  <2>4. /\ \A j \in Buckets \ {i} : buckets'[j] = without(k)[j]
        /\ buckets'[i] = [without(k)[i] EXCEPT ![k] = task]
    BY <1>5, <1>7, <2>1
  <2>5. ASSUME NEW w \in SequenceNumbers, NEW j \in Buckets
        PROVE  buckets'[j][w] = IF w # k THEN buckets[j][w] ELSE IF j = i THEN task ELSE None
    <3>1. without(k)[j][w] = IF w = k THEN None ELSE buckets[j][w]  BY <1>7
    <3>2. without(k)[j] \in [SequenceNumbers -> Tasks \cup {None}]  BY <1>7
    <3>3. CASE j = i  BY <1>4, <2>4, <3>1, <3>2, <3>3
    <3>4. CASE j # i  BY <2>4, <3>1, <3>4
    <3> QED  BY <3>3, <3>4
  <2> QED  BY <2>3, <2>5
<1>9. TypeOK'
  <2>1. bucketIndexes' \in [SequenceNumbers -> Buckets \cup {None}]  BY <1>1, <1>2, <1>5, Zenon
  <2>2. due' \in [SequenceNumbers -> 0 .. Delay]
    <3>1. Delay \in 0 .. Delay  BY <1>2
    <3> QED  BY <1>1, <1>2, <3>1, Zenon
  <2>3. Len(addC') <= QueueLen  BY <1>2, <1>3
  <2> QED  BY <1>1, <1>2, <1>3, <1>8, <2>1, <2>2, <2>3 DEF WheelInv, TypeOK
<1>10. Numbered'
  <2>1. \A s \in Sessions : pc'[s] # "new" => sequence'[s] \in SequenceNumbers  BY <1>1 DEF WheelInv, Numbered
  <2>2. \A j \in 1 .. Len(addC') : pc'[addC'[j]] # "new"  BY <1>1, <1>3 DEF WheelInv, Numbered
  <2> QED  BY <2>1, <2>2 DEF Numbered
<1>11. Unique'  BY <1>1 DEF WheelInv, Unique, Holding
<1>12. LastAdd'
  <2> SUFFICES ASSUME NEW s \in Sessions, InRun(s)', NEW j \in 1 .. Len(addC'),
                      sequence'[addC'[j]] = sequence'[s]
               PROVE  \E l \in j .. Len(addC') : addC'[l] = s
    BY DEF LastAdd
  <2>1. InRun(s) /\ sequence' = sequence  BY <1>1 DEF InRun
  <2>2. j + 1 \in 1 .. Len(addC) /\ sequence[addC[j + 1]] = sequence[s]  BY <1>3, <2>1
  <2>3. PICK l \in (j + 1) .. Len(addC) : addC[l] = s  BY <2>1, <2>2 DEF WheelInv, LastAdd
  <2>4. l - 1 \in j .. Len(addC') /\ l - 1 \in 1 .. Len(addC') /\ (l - 1) + 1 = l  BY <1>3, <2>2
  <2>5. addC'[l - 1] = addC[l]  BY <1>3, <2>4, SMTT(30)
  <2> QED  BY <2>3, <2>4, <2>5
<1>13. OneBucket'
  <2> SUFFICES ASSUME NEW w \in SequenceNumbers, NEW j \in Buckets
               PROVE  buckets'[j][w] # None <=> bucketIndexes'[w] = j
    BY DEF OneBucket
  <2>1. CASE w = k
    <3>1. bucketIndexes'[w] = i  BY <1>1, <1>2, <2>1
    <3> QED  BY <1>6, <1>8, <2>1, <3>1
  <2>2. CASE w # k
    <3>1. bucketIndexes'[w] = bucketIndexes[w]  BY <1>1, <1>2, <2>2
    <3> QED  BY <1>8, <2>2, <3>1 DEF WheelInv, OneBucket
  <2> QED  BY <2>1, <2>2
<1>14. Exact'
  <2> SUFFICES ASSUME NEW w \in SequenceNumbers, NEW j \in Buckets, buckets'[j][w] # None
               PROVE  buckets'[j][w].round * BucketsNum + Distance(j)' = due'[w]
    BY DEF Exact
  <2>1. Distance(j)' = Distance(j)  BY <1>1 DEF Distance
  <2>2. CASE w = k
    <3>1. j = i /\ buckets'[j][w].round = calculateRound(Delay)  BY <1>6, <1>8, <2>2
    <3>2. due'[w] = Delay  BY <1>1, <1>2, <2>2
    <3> QED  BY <1>5, <2>1, <3>1, <3>2
  <2>3. CASE w # k
    <3>1. buckets'[j][w] = buckets[j][w] /\ due'[w] = due[w]  BY <1>1, <1>2, <1>8, <2>3
    <3>2. buckets[j][w].round * BucketsNum + Distance(j) = due[w]  BY <3>1 DEF WheelInv, Exact
    <3> QED  BY <2>1, <3>1, <3>2
  <2> QED  BY <2>2, <2>3
(* The task that is added is its owner's, or the owner's comes later.      *)
<1>15. ASSUME NEW s \in Sessions, InRun(s), sequence[s] = k
       PROVE  a = s \/ Queued(s)'
  <2>1. 1 \in 1 .. Len(addC) /\ sequence[addC[1]] = sequence[s]  BY <1>3, <1>15 DEF k
  <2>2. PICK l \in 1 .. Len(addC) : addC[l] = s  BY <1>15, <2>1 DEF WheelInv, LastAdd
  <2>3. CASE l = 1  BY <1>3, <2>2, <2>3
  <2>4. CASE l # 1
    <3>1. l - 1 \in 1 .. Len(addC') /\ (l - 1) + 1 = l  BY <1>3, <2>4
    <3>2. addC'[l - 1] = s  BY <1>3, <2>2, <3>1
    <3> QED  BY <3>1, <3>2 DEF Queued
  <2> QED  BY <2>3, <2>4
(* Only the head leaves the channel.                                       *)
<1>16. ASSUME NEW s \in Sessions, s # a, Queued(s)
       PROVE  Queued(s)'
  <2>1. PICK l \in 1 .. Len(addC) : addC[l] = s  BY <1>16 DEF Queued
  <2>2. l # 1  BY <1>3, <1>16, <2>1
  <2>3. l - 1 \in 1 .. Len(addC') /\ (l - 1) + 1 = l  BY <1>3, <2>2
  <2>4. addC'[l - 1] = s  BY <1>3, <2>1, <2>3
  <2> QED  BY <2>3, <2>4 DEF Queued
<1>17. OwnTask'
  <2> SUFFICES ASSUME NEW s \in Sessions, NEW j \in Buckets, InRun(s)', buckets'[j][sequence'[s]] # None
               PROVE  buckets'[j][sequence'[s]].session = s \/ Queued(s)'
    BY DEF OwnTask
  <2>1. InRun(s) /\ pc[s] # "new" /\ sequence'[s] = sequence[s]  BY <1>1 DEF InRun
  <2>2. sequence[s] \in SequenceNumbers  BY <2>1 DEF WheelInv, Numbered
  <2>3. CASE sequence[s] = k
    <3>1. buckets'[j][sequence[s]].session = a  BY <1>6, <1>8, <2>1, <2>2, <2>3
    <3> QED  BY <1>15, <2>1, <2>3, <3>1
  <2>4. CASE sequence[s] # k
    <3>1. buckets'[j][sequence[s]] = buckets[j][sequence[s]] /\ s # a  BY <1>8, <2>2, <2>4 DEF k
    <3>2. buckets[j][sequence[s]].session = s \/ Queued(s)  BY <2>1, <3>1 DEF WheelInv, OwnTask
    <3> QED  BY <1>16, <2>1, <3>1, <3>2, Zenon
  <2> QED  BY <2>3, <2>4
<1>18. Armed'
  <2> SUFFICES ASSUME NEW s \in Sessions, InRun(s)', s \notin closed'
               PROVE  \/ Queued(s)' \/ s \in firing' \/ s \in robbed'
                      \/ \E j \in Buckets : buckets'[j][sequence'[s]] # None /\ buckets'[j][sequence'[s]].session = s
    BY DEF Armed
  <2>1. InRun(s) /\ pc[s] # "new" /\ sequence'[s] = sequence[s] /\ s \notin closed /\ firing' = firing
    BY <1>1 DEF InRun
  <2>2. sequence[s] \in SequenceNumbers  BY <2>1 DEF WheelInv, Numbered
  <2>3. CASE sequence[s] = k
    <3>1. buckets'[i][sequence[s]] # None /\ buckets'[i][sequence[s]].session = a
      BY <1>5, <1>6, <1>8, <2>2, <2>3
    <3> QED  BY <1>5, <1>15, <2>1, <2>3, <3>1
  <2>4. CASE sequence[s] # k
    <3>1. s # a /\ \A j \in Buckets : buckets'[j][sequence[s]] = buckets[j][sequence[s]]
      BY <1>8, <2>2, <2>4, Zenon DEF k
    <3>2. \/ Queued(s) \/ s \in firing \/ s \in robbed
          \/ \E j \in Buckets : buckets[j][sequence[s]] # None /\ buckets[j][sequence[s]].session = s
      BY <2>1, Zenon DEF WheelInv, Armed
    <3> QED  BY <1>1, <1>16, <2>1, <3>1, <3>2, Zenon
  <2> QED  BY <2>3, <2>4, Zenon
<1> QED  BY <1>9, <1>10, <1>11, <1>12, <1>13, <1>14, <1>17, <1>18 DEF WheelInv

\* A task that is removed keeps the invariant (remove).
LEMMA RemoveInv == WheelInv /\ remove => WheelInv'
<1> SUFFICES ASSUME WheelInv, remove PROVE WheelInv'  OBVIOUS
<1> DEFINE k == Head(removeC)
           i == bucketIndexes[k]
<1>1. /\ removeC # <<>> /\ removeC' = Tail(removeC) /\ buckets' = without(k)
      /\ bucketIndexes' = [bucketIndexes EXCEPT ![k] = None]
      /\ robbed' = IF i = None THEN robbed ELSE robbed \cup {buckets[i][k].session}
      /\ UNCHANGED <<currentIndex, addC, firing, pc, closed, sequence, pool, due>>
  BY Zenon DEF remove
<1>2. /\ removeC \in Seq(SequenceNumbers) /\ Len(removeC) <= QueueLen /\ QueueLen \in Nat
      /\ bucketIndexes \in [SequenceNumbers -> Buckets \cup {None}]
      /\ buckets \in [Buckets -> [SequenceNumbers -> Tasks \cup {None}]]
      /\ robbed \subseteq Sessions
  BY WheelAssumption DEF WheelInv, TypeOK
<1>3. k \in SequenceNumbers /\ removeC' \in Seq(SequenceNumbers) /\ Len(removeC') <= QueueLen  BY <1>1, <1>2
<1> HIDE DEF k
<1>4. /\ buckets' \in [Buckets -> [SequenceNumbers -> Tasks \cup {None}]]
      /\ \A w \in SequenceNumbers, j \in Buckets : buckets'[j][w] = IF w = k THEN None ELSE buckets[j][w]
  BY <1>1, <1>3, Without
<1>5. i # None => i \in Buckets /\ buckets[i][k] # None /\ buckets[i][k] \in Tasks
  BY <1>2, <1>3 DEF WheelInv, OneBucket
<1>6. TypeOK'
  <2>1. bucketIndexes' \in [SequenceNumbers -> Buckets \cup {None}]  BY <1>1, <1>2, Zenon
  <2>2. robbed' \subseteq Sessions
    <3>1. i # None => buckets[i][k].session \in Sessions  BY <1>5 DEF Tasks
    <3> QED  BY <1>1, <1>2, <3>1
  <2> QED  BY <1>1, <1>3, <1>4, <2>1, <2>2 DEF WheelInv, TypeOK
<1>7. Numbered' /\ Unique' /\ LastAdd'
  BY <1>1, ZenonT(40) DEF WheelInv, Numbered, Unique, LastAdd, Holding, InRun
<1>8. OneBucket'
  <2> SUFFICES ASSUME NEW w \in SequenceNumbers, NEW j \in Buckets
               PROVE  buckets'[j][w] # None <=> bucketIndexes'[w] = j
    BY DEF OneBucket
  <2>1. CASE w = k
    <3>1. bucketIndexes'[w] = None /\ None # j  BY <1>1, <1>2, <2>1, WheelAssumption
    <3> QED  BY <1>4, <2>1, <3>1, Zenon
  <2>2. CASE w # k
    <3>1. bucketIndexes'[w] = bucketIndexes[w]  BY <1>1, <1>2, <2>2
    <3> QED  BY <1>4, <2>2, <3>1 DEF WheelInv, OneBucket
  <2> QED  BY <2>1, <2>2
<1>9. Exact'
  <2> SUFFICES ASSUME NEW w \in SequenceNumbers, NEW j \in Buckets, buckets'[j][w] # None
               PROVE  buckets'[j][w].round * BucketsNum + Distance(j)' = due'[w]
    BY DEF Exact
  <2>1. Distance(j)' = Distance(j) /\ due' = due  BY <1>1, Zenon DEF Distance
  <2>2. buckets'[j][w] = buckets[j][w]  BY <1>4
  <2>3. buckets[j][w].round * BucketsNum + Distance(j) = due[w]  BY <2>2 DEF WheelInv, Exact
  <2> QED  BY <2>1, <2>2, <2>3, Zenon
<1>10. OwnTask'
  <2> SUFFICES ASSUME NEW s \in Sessions, NEW j \in Buckets, InRun(s)', buckets'[j][sequence'[s]] # None
               PROVE  buckets'[j][sequence'[s]].session = s \/ Queued(s)'
    BY DEF OwnTask
  <2>1. InRun(s) /\ pc[s] # "new" /\ sequence'[s] = sequence[s] /\ (Queued(s)' <=> Queued(s))
    BY <1>1 DEF InRun, Queued
  <2>2. sequence[s] \in SequenceNumbers  BY <2>1 DEF WheelInv, Numbered
  <2>3. buckets'[j][sequence[s]] = buckets[j][sequence[s]]  BY <1>4, <2>1, <2>2, Zenon
  <2> QED  BY <2>1, <2>3, Zenon DEF WheelInv, OwnTask
<1>11. Armed'
  <2> SUFFICES ASSUME NEW s \in Sessions, InRun(s)', s \notin closed'
               PROVE  \/ Queued(s)' \/ s \in firing' \/ s \in robbed'
                      \/ \E j \in Buckets : buckets'[j][sequence'[s]] # None /\ buckets'[j][sequence'[s]].session = s
    BY DEF Armed
  <2>1. /\ InRun(s) /\ pc[s] # "new" /\ sequence'[s] = sequence[s] /\ (Queued(s)' <=> Queued(s))
        /\ s \notin closed /\ firing' = firing
    BY <1>1, Zenon DEF InRun, Queued
  <2>2. sequence[s] \in SequenceNumbers  BY <2>1, Zenon DEF WheelInv, Numbered
  <2>3. \/ Queued(s) \/ s \in firing \/ s \in robbed
        \/ \E j \in Buckets : buckets[j][sequence[s]] # None /\ buckets[j][sequence[s]].session = s
    BY <2>1, Zenon DEF WheelInv, Armed
  <2>4. ASSUME NEW j \in Buckets, buckets[j][sequence[s]] # None, buckets[j][sequence[s]].session = s
        PROVE  s \in robbed' \/ (buckets'[j][sequence[s]] # None /\ buckets'[j][sequence[s]].session = s)
    <3>1. CASE sequence[s] = k
      <4>1. i = j /\ i # None  BY <2>2, <2>4, <3>1, WheelAssumption DEF WheelInv, OneBucket
      <4> QED  BY <1>1, <2>4, <3>1, <4>1, Zenon
    <3>2. CASE sequence[s] # k  BY <1>4, <2>2, <2>4, <3>2, Zenon
    <3> QED  BY <3>1, <3>2, Zenon
  <2> HIDE DEF i
  <2>5. robbed \subseteq robbed'  BY <1>1
  <2> QED  BY <2>1, <2>3, <2>4, <2>5, Zenon
<1> QED  BY <1>6, <1>7, <1>8, <1>9, <1>10, <1>11 DEF WheelInv

-----------------------------------------------------------------------------
(* The sessions leave the wheel alone.                                     *)
LEMMA Still == WheelInv /\ UNCHANGED wheel => OneBucket' /\ Exact'
<1> SUFFICES ASSUME WheelInv, UNCHANGED wheel PROVE OneBucket' /\ Exact'  OBVIOUS
<1>1. buckets' = buckets /\ bucketIndexes' = bucketIndexes /\ currentIndex' = currentIndex /\ due' = due
  BY DEF wheel
<1> QED  BY <1>1, Zenon DEF WheelInv, OneBucket, Exact, Distance

(* A step of a session that adds no task, takes no number and starts no    *)
(* session.                                                                *)
LEMMA Quiet ==
    ASSUME WheelInv, TypeOK', UNCHANGED <<wheel, addC, sequence>>, closed \subseteq closed',
           \A t \in Sessions : /\ InRun(t)' => InRun(t)
                               /\ Holding(t)' => Holding(t) /\ sequence[t] \notin pool'
                               /\ pc'[t] = "new" <=> pc[t] = "new"
                               /\ t \in firing /\ t \notin closed' => t \in firing'
    PROVE  WheelInv'
<1>1. /\ buckets' = buckets /\ robbed' = robbed /\ addC' = addC /\ sequence' = sequence
  BY Zenon DEF wheel
<1>2. OneBucket' /\ Exact'  BY Still, Zenon
<1>3. Numbered'
  <2>1. \A j \in 1 .. Len(addC) : addC[j] \in Sessions  BY DEF WheelInv, TypeOK
  <2> QED  BY <1>1, <2>1, Zenon DEF WheelInv, Numbered
<1>4. Unique'  BY <1>1, Zenon DEF WheelInv, Unique
<1>5. LastAdd'
  <2> SUFFICES ASSUME NEW s \in Sessions, InRun(s)'
               PROVE  \A j \in 1 .. Len(addC') : sequence'[addC'[j]] = sequence'[s] =>
                          \E l \in j .. Len(addC') : addC'[l] = s
    BY Zenon DEF LastAdd
  <2>1. \A j \in 1 .. Len(addC) : sequence[addC[j]] = sequence[s] =>
            \E l \in j .. Len(addC) : addC[l] = s
    BY Zenon DEF WheelInv, LastAdd
  <2> QED  BY <1>1, <2>1, Zenon
<1>6. \A t \in Sessions : Queued(t)' <=> Queued(t)  BY <1>1, Zenon DEF Queued
<1>7. OwnTask'  BY <1>1, <1>6, Zenon DEF WheelInv, OwnTask
<1>8. Armed'  BY <1>1, <1>6, Zenon DEF WheelInv, Armed
<1> QED  BY <1>2, <1>3, <1>4, <1>5, <1>7, <1>8, Zenon DEF WheelInv

\* A new session with its number keeps the invariant.
LEMMA ConnectInv == ASSUME NEW s \in Sessions, WheelInv, Connect(s) PROVE WheelInv'
<1>1. PICK k \in pool : sequence' = [sequence EXCEPT ![s] = k] /\ pool' = pool \ {k}
  BY Zenon DEF Connect
<1>2. /\ pc[s] = "new" /\ pc' = [pc EXCEPT ![s] = "handshake"]
      /\ UNCHANGED wheel /\ UNCHANGED <<addC, removeC, firing, closed>>
  BY DEF Connect
<1>3. /\ buckets' = buckets /\ bucketIndexes' = bucketIndexes /\ currentIndex' = currentIndex
      /\ due' = due /\ robbed' = robbed
  BY <1>2 DEF wheel
<1>4. k \in SequenceNumbers  BY DEF WheelInv, TypeOK
<1>5. /\ pc \in [Sessions -> {"new", "handshake", "read", "command", "remove", "put", "gone"}]
      /\ sequence \in [Sessions -> SequenceNumbers \cup {None}] /\ pool \subseteq SequenceNumbers
      /\ \A j \in 1 .. Len(addC) : addC[j] \in Sessions
  BY DEF WheelInv, TypeOK
<1>6. pc'[s] = "handshake" /\ sequence'[s] = k  BY <1>1, <1>2, <1>5
<1>7. \A t \in Sessions : t # s => pc'[t] = pc[t] /\ sequence'[t] = sequence[t]  BY <1>1, <1>2, <1>5
<1>8. TypeOK'
  <2>1. pc' \in [Sessions -> {"new", "handshake", "read", "command", "remove", "put", "gone"}]
    BY <1>2, <1>5
  <2>2. sequence' \in [Sessions -> SequenceNumbers \cup {None}]  BY <1>1, <1>4, <1>5
  <2>3. pool' \subseteq SequenceNumbers  BY <1>1, <1>5
  <2> QED  BY <1>2, <1>3, <2>1, <2>2, <2>3 DEF WheelInv, TypeOK
<1>9. \A j \in 1 .. Len(addC) : addC[j] # s  BY <1>2 DEF WheelInv, Numbered
<1>10. Numbered'  BY <1>2, <1>4, <1>5, <1>6, <1>7, <1>9, Zenon DEF WheelInv, Numbered
<1>11. \A t \in Sessions : t # s => (Holding(t)' <=> Holding(t))  BY <1>7, Zenon DEF Holding
<1>12. \A t \in Sessions : Holding(t) => sequence[t] # k  BY DEF WheelInv, Unique
<1>13. Unique'
  <2> SUFFICES ASSUME NEW t \in Sessions, Holding(t)'
               PROVE  /\ sequence'[t] \notin pool'
                      /\ \A u \in Sessions : Holding(u)' /\ sequence'[u] = sequence'[t] => u = t
    BY DEF Unique
  <2>1. CASE t = s  BY <1>1, <1>6, <1>7, <1>11, <1>12, <2>1
  <2>2. CASE t # s
    <3>1. Holding(t) /\ sequence'[t] = sequence[t] /\ sequence[t] # k  BY <1>7, <1>11, <1>12, <2>2
    <3>2. sequence[t] \notin pool  BY <3>1 DEF WheelInv, Unique
    <3>3. \A u \in Sessions : Holding(u)' /\ sequence'[u] = sequence'[t] => u = t
      BY <1>6, <1>7, <1>11, <3>1, Zenon DEF WheelInv, Unique
    <3> QED  BY <1>1, <3>1, <3>2, <3>3
  <2> QED  BY <2>1, <2>2
<1>14. \A t \in Sessions : InRun(t)' => InRun(t) /\ t # s  BY <1>6, <1>7 DEF InRun
<1>15. \A t \in Sessions : Queued(t)' <=> Queued(t)  BY <1>2 DEF Queued
<1>16. LastAdd'  BY <1>2, <1>5, <1>7, <1>9, <1>14, SMTT(20) DEF WheelInv, LastAdd
<1>17. OwnTask'  BY <1>3, <1>7, <1>14, <1>15, ZenonT(40) DEF WheelInv, OwnTask
<1>18. Armed'
  <2>1. closed' = closed /\ firing' = firing  BY <1>2
  <2> QED  BY <1>3, <1>7, <1>14, <1>15, <2>1, ZenonT(40) DEF WheelInv, Armed
<1>19. OneBucket' /\ Exact'  BY <1>2, Still
<1> QED  BY <1>8, <1>10, <1>13, <1>16, <1>17, <1>18, <1>19 DEF WheelInv

(* A session arms the wheel: its task is the last one in the channel.      *)
LEMMA ArmInv ==
    ASSUME NEW s \in Sessions, WheelInv, StartRun(s) \/ Command(s)
    PROVE  WheelInv'
<1>1. /\ pc[s] \in {"handshake", "command"} /\ pc' = [pc EXCEPT ![s] = "read"]
      /\ Len(addC) < QueueLen /\ addC' = Append(addC, s)
      /\ UNCHANGED wheel /\ UNCHANGED <<removeC, firing, closed, sequence, pool>>
  BY DEF StartRun, Command, Add
<1>2. /\ buckets' = buckets /\ bucketIndexes' = bucketIndexes /\ currentIndex' = currentIndex
      /\ due' = due /\ robbed' = robbed
  BY <1>1 DEF wheel
<1>3. /\ pc \in [Sessions -> {"new", "handshake", "read", "command", "remove", "put", "gone"}]
      /\ addC \in Seq(Sessions) /\ Len(addC) \in Nat /\ QueueLen \in Nat
  BY WheelAssumption DEF WheelInv, TypeOK
<1>4. /\ addC' \in Seq(Sessions) /\ Len(addC') = Len(addC) + 1 /\ addC'[Len(addC) + 1] = s
      /\ \A j \in 1 .. Len(addC) : addC'[j] = addC[j] /\ addC[j] \in Sessions
  BY <1>1, <1>3
<1>5. \A j \in 1 .. Len(addC') : j \in 1 .. Len(addC) \/ j = Len(addC) + 1  BY <1>3, <1>4
<1>6. Len(addC) + 1 \in 1 .. Len(addC') /\ 1 .. Len(addC) \subseteq 1 .. Len(addC')  BY <1>3, <1>4
<1>7. pc'[s] = "read" /\ pc[s] # "new" /\ Holding(s) /\ \A t \in Sessions : t # s => pc'[t] = pc[t]
  BY <1>1, <1>3 DEF Holding
<1>8. TypeOK'
  <2>1. pc' \in [Sessions -> {"new", "handshake", "read", "command", "remove", "put", "gone"}]
    BY <1>1, <1>3
  <2>2. Len(addC') <= QueueLen  BY <1>1, <1>3, <1>4
  <2> QED  BY <1>1, <1>2, <1>4, <2>1, <2>2, Zenon DEF WheelInv, TypeOK
<1>9. \A t \in Sessions : (pc'[t] = "new" <=> pc[t] = "new") /\ (Holding(t)' <=> Holding(t))
  BY <1>7 DEF Holding
<1>10. Numbered'
  <2>1. \A t \in Sessions : pc'[t] # "new" => sequence'[t] \in SequenceNumbers  BY <1>1, <1>9 DEF WheelInv, Numbered
  <2>2. \A j \in 1 .. Len(addC') : pc'[addC'[j]] # "new"
    BY <1>4, <1>5, <1>7, <1>9, Zenon DEF WheelInv, Numbered
  <2> QED  BY <2>1, <2>2 DEF Numbered
<1>11. Unique'  BY <1>1, <1>9 DEF WheelInv, Unique
<1>12. \A t \in Sessions : InRun(t)' => t = s \/ InRun(t)  BY <1>7 DEF InRun
<1>13. LastAdd'
  <2> SUFFICES ASSUME NEW t \in Sessions, InRun(t)', NEW j \in 1 .. Len(addC'),
                      sequence'[addC'[j]] = sequence'[t]
               PROVE  \E l \in j .. Len(addC') : addC'[l] = t
    BY DEF LastAdd
  <2>1. CASE t = s
    <3>1. Len(addC) + 1 \in j .. Len(addC')  BY <1>3, <1>4
    <3> QED  BY <1>4, <2>1, <3>1
  <2>2. CASE t # s
    <3>1. InRun(t) /\ Holding(t)  BY <1>12, <2>2 DEF InRun, Holding
    <3>2. j \in 1 .. Len(addC)
      <4>1. j = Len(addC) + 1 => sequence[s] = sequence[t]  BY <1>1, <1>4
      <4>2. sequence[s] # sequence[t]  BY <1>7, <2>2, <3>1 DEF WheelInv, Unique
      <4> QED  BY <1>5, <4>1, <4>2
    <3>3. sequence[addC[j]] = sequence[t]  BY <1>1, <1>4, <3>2
    <3>4. PICK l \in j .. Len(addC) : addC[l] = t  BY <3>1, <3>2, <3>3 DEF WheelInv, LastAdd
    <3>5. l \in 1 .. Len(addC) /\ l \in j .. Len(addC')
      <4> DEFINE n == Len(addC)
                 m == Len(addC')
      <4>1. n \in Nat /\ m = n + 1 /\ j \in 1 .. n /\ l \in j .. n  BY <1>3, <1>4, <3>2, Zenon
      <4> HIDE DEF n, m
      <4>2. l \in 1 .. n /\ l \in j .. m  BY <4>1
      <4> QED  BY <4>2 DEF n, m
    <3> QED  BY <1>4, <3>4, <3>5
  <2> QED  BY <2>1, <2>2
<1>14. Queued(s)' /\ \A t \in Sessions : Queued(t) => Queued(t)'  BY <1>4, <1>6 DEF Queued
<1>15. OwnTask'  BY <1>1, <1>2, <1>12, <1>14, Zenon DEF WheelInv, OwnTask
<1>16. Armed'  BY <1>1, <1>2, <1>12, <1>14, Zenon DEF WheelInv, Armed
<1>17. OneBucket' /\ Exact'  BY <1>1, Still
<1> QED  BY <1>8, <1>10, <1>11, <1>13, <1>15, <1>16, <1>17 DEF WheelInv

(* The steps of a session that Quiet covers.                               *)
LEMMA QuietInv ==
    ASSUME NEW s \in Sessions, WheelInv,
           HandshakeRefused(s) \/ ReadPacket(s) \/ Leave(s) \/ Remove(s) \/ PutSequence(s) \/ Callback(s)
    PROVE  WheelInv'
<1> DEFINE States == {"new", "handshake", "read", "command", "remove", "put", "gone"}
<1>1. /\ pc \in [Sessions -> States] /\ closed \subseteq Sessions /\ firing \subseteq Sessions
      /\ pool \subseteq SequenceNumbers /\ removeC \in Seq(SequenceNumbers) /\ Len(removeC) <= QueueLen
      /\ QueueLen \in Nat
  BY WheelAssumption DEF WheelInv, TypeOK
<1>2. UNCHANGED wheel /\ UNCHANGED <<addC, sequence>>
  BY Zenon DEF HandshakeRefused, ReadPacket, Leave, Remove, PutSequence, Callback
<1>3. /\ buckets' = buckets /\ bucketIndexes' = bucketIndexes /\ currentIndex' = currentIndex
      /\ due' = due /\ robbed' = robbed /\ addC' = addC /\ sequence' = sequence
  BY <1>2 DEF wheel
<1>4. ASSUME pc' \in [Sessions -> States], closed' \subseteq Sessions, firing' \subseteq Sessions,
             pool' \subseteq SequenceNumbers, removeC' \in Seq(SequenceNumbers), Len(removeC') <= QueueLen
      PROVE  TypeOK'
  BY <1>3, <1>4 DEF WheelInv, TypeOK
<1>5. \A t \in Sessions : Holding(t) => sequence[t] \notin pool  BY DEF WheelInv, Unique
<1>6. CASE HandshakeRefused(s)
  <2>1. /\ pc[s] = "handshake" /\ pc' = [pc EXCEPT ![s] = "put"] /\ closed' = closed \cup {s}
        /\ UNCHANGED <<removeC, firing, pool>>
    BY <1>6 DEF HandshakeRefused
  <2>2. TypeOK'  BY <1>1, <1>4, <2>1
  <2>3. \A t \in Sessions : (pc'[t] = "new" <=> pc[t] = "new") /\ (Holding(t)' => Holding(t))
                            /\ (InRun(t)' => InRun(t))
    BY <1>1, <2>1 DEF Holding, InRun
  <2> QED  BY <1>2, <1>5, <2>1, <2>2, <2>3, Quiet
<1>7. CASE ReadPacket(s)
  <2>1. /\ pc[s] = "read" /\ pc' = [pc EXCEPT ![s] = "command"]
        /\ UNCHANGED <<removeC, firing, closed, pool>>
    BY <1>7 DEF ReadPacket
  <2>2. TypeOK'  BY <1>1, <1>4, <2>1
  <2>3. \A t \in Sessions : (pc'[t] = "new" <=> pc[t] = "new") /\ (Holding(t)' => Holding(t))
                            /\ (InRun(t)' => InRun(t))
    BY <1>1, <2>1 DEF Holding, InRun
  <2> QED  BY <1>2, <1>5, <2>1, <2>2, <2>3, Quiet
<1>8. CASE Leave(s)
  <2>1. /\ pc[s] = "read" /\ pc' = [pc EXCEPT ![s] = "remove"] /\ closed' = closed \cup {s}
        /\ UNCHANGED <<removeC, firing, pool>>
    BY <1>8 DEF Leave
  <2>2. TypeOK'  BY <1>1, <1>4, <2>1
  <2>3. \A t \in Sessions : (pc'[t] = "new" <=> pc[t] = "new") /\ (Holding(t)' => Holding(t))
                            /\ (InRun(t)' => InRun(t))
    BY <1>1, <2>1 DEF Holding, InRun
  <2> QED  BY <1>2, <1>5, <2>1, <2>2, <2>3, Quiet
<1>9. CASE Remove(s)
  <2>1. /\ pc[s] = "remove" /\ pc' = [pc EXCEPT ![s] = "put"]
        /\ Len(removeC) < QueueLen /\ removeC' = Append(removeC, sequence[s])
        /\ UNCHANGED <<firing, closed, pool>>
    BY <1>9 DEF Remove
  <2>2. TypeOK'
    <3>1. sequence[s] \in SequenceNumbers  BY <2>1, Zenon DEF WheelInv, Numbered
    <3>2. removeC' \in Seq(SequenceNumbers) /\ Len(removeC') <= QueueLen  BY <1>1, <2>1, <3>1
    <3>3. pc' \in [Sessions -> States]  BY <1>1, <2>1
    <3> QED  BY <1>1, <1>4, <2>1, <3>2, <3>3
  <2>3. \A t \in Sessions : (pc'[t] = "new" <=> pc[t] = "new") /\ (Holding(t)' => Holding(t))
                            /\ (InRun(t)' => InRun(t))
    BY <1>1, <2>1 DEF Holding, InRun
  <2> QED  BY <1>2, <1>5, <2>1, <2>2, <2>3, Quiet
<1>10. CASE PutSequence(s)
  <2>1. /\ pc[s] = "put" /\ pc' = [pc EXCEPT ![s] = "gone"] /\ pool' = pool \cup {sequence[s]}
        /\ UNCHANGED <<removeC, firing, closed>>
    BY <1>10 DEF PutSequence
  <2>2. sequence[s] \in SequenceNumbers  BY <2>1, Zenon DEF WheelInv, Numbered
  <2>3. TypeOK'  BY <1>1, <1>4, <2>1, <2>2
  <2>4. \A t \in Sessions : (pc'[t] = "new" <=> pc[t] = "new") /\ (Holding(t)' => Holding(t) /\ t # s)
                            /\ (InRun(t)' => InRun(t))
    BY <1>1, <2>1 DEF Holding, InRun
  <2>5. \A t \in Sessions : Holding(t) /\ t # s => sequence[t] # sequence[s]
    <3>1. Holding(s)  BY <2>1 DEF Holding
    <3> QED  BY <3>1 DEF WheelInv, Unique
  <2>6. \A t \in Sessions : Holding(t)' => Holding(t) /\ sequence[t] \notin pool'
    BY <1>5, <2>1, <2>4, <2>5
  <2> QED  BY <1>2, <2>1, <2>3, <2>4, <2>6, Quiet
<1>11. CASE Callback(s)
  <2>1. /\ firing' = firing \ {s} /\ closed' = closed \cup {s} /\ UNCHANGED <<removeC, pc, pool>>
    BY <1>11 DEF Callback
  <2>2. TypeOK'  BY <1>1, <1>4, <2>1
  <2>3. \A t \in Sessions : (pc'[t] = "new" <=> pc[t] = "new") /\ (Holding(t)' => Holding(t))
                            /\ (InRun(t)' => InRun(t))
    BY <2>1 DEF Holding, InRun
  <2> QED  BY <1>2, <1>5, <2>1, <2>2, <2>3, Quiet, Zenon
<1> QED  BY <1>6, <1>7, <1>8, <1>9, <1>10, <1>11

\* The invariant is about the variables of the wheel only.
LEMMA StutterInv == WheelInv /\ UNCHANGED vars => WheelInv'
<1> SUFFICES ASSUME WheelInv, UNCHANGED vars PROVE WheelInv'  OBVIOUS
<1>1. UNCHANGED <<wheel, addC, sequence>> /\ UNCHANGED <<removeC, firing, pc, closed, pool>>
  BY DEF vars, wheel
<1>2. TypeOK'  BY <1>1 DEF WheelInv, TypeOK, wheel
<1>3. \A t \in Sessions : Holding(t) => sequence[t] \notin pool  BY DEF WheelInv, Unique
<1> QED  BY <1>1, <1>2, <1>3, Quiet, Zenon DEF Holding, InRun

\* Every step keeps the invariant of the wheel.
LEMMA WheelNextInv == WheelInv /\ [Next]_vars => WheelInv'
<1> SUFFICES ASSUME WheelInv, [Next]_vars PROVE WheelInv'  OBVIOUS
<1>1. CASE handleTick  BY <1>1, TickInv
<1>2. CASE add  BY <1>2, AddInv
<1>3. CASE remove  BY <1>3, RemoveInv
<1>4. ASSUME NEW s \in Sessions, Connect(s) PROVE WheelInv'  BY <1>4, ConnectInv
<1>5. ASSUME NEW s \in Sessions, StartRun(s) \/ Command(s) PROVE WheelInv'  BY <1>5, ArmInv
<1>6. ASSUME NEW s \in Sessions, HandshakeRefused(s) \/ ReadPacket(s) \/ Leave(s) \/ Remove(s)
                                 \/ PutSequence(s) \/ Callback(s)
      PROVE  WheelInv'
  BY <1>6, QuietInv
<1>7. CASE UNCHANGED vars  BY <1>7, StutterInv
<1> QED  BY <1>1, <1>2, <1>3, <1>4, <1>5, <1>6, <1>7 DEF Next

\* The invariant of the wheel holds in every reachable state.
LEMMA WheelInvariance == Spec => []WheelInv
BY WheelInitInv, WheelNextInv, PTL DEF Spec

-----------------------------------------------------------------------------
(* The wheel's maps, the channels and the sessions keep their types.       *)
THEOREM WheelTypeCorrect == Spec => []TypeOK
<1>1. WheelInv => TypeOK  BY DEF WheelInv
<1> QED  BY <1>1, WheelInvariance, PTL

(* bucketIndexes names the only bucket that holds a key, whatever the      *)
(* order of ticks, additions and removals.                                 *)
THEOREM KeyInOneBucket == Spec => []OneBucket
<1>1. WheelInv => OneBucket  BY DEF WheelInv
<1> QED  BY <1>1, WheelInvariance, PTL

(* A callback starts after exactly the delay, for every number of buckets  *)
(* and every delay.                                                        *)
THEOREM TimeoutExact == Spec => []Exact
<1>1. WheelInv => Exact  BY DEF WheelInv
<1> QED  BY <1>1, WheelInvariance, PTL

(* A running session's task never closes an earlier owner of its number,   *)
(* once its own addition has been taken from the channel.                  *)
THEOREM TaskOfOwner == Spec => []OwnTask
<1>1. WheelInv => OwnTask  BY DEF WheelInv
<1> QED  BY <1>1, WheelInvariance, PTL

(* A running session is armed, or has lost its task to the late removal of *)
(* the previous owner of its number.                                       *)
THEOREM RunningIsArmed == Spec => []Armed
<1>1. WheelInv => Armed  BY DEF WheelInv
<1> QED  BY <1>1, WheelInvariance, PTL

-----------------------------------------------------------------------------
(* The sequence: a number that is not negative is in one place only        *)
(* - handed out, in the range of one proxy, or in the answer to one call - *)
(* and no number is beyond what the row has advanced to.                   *)

Answers == {<<Number(NoRow), NotANumber>>} \cup {<<Number(v), Number(Step)>> : v \in Nat}

SeqTypes ==
  /\ seqCurr \in [SeqProxies -> Int] /\ seqMax \in [SeqProxies -> Int]
  /\ seqAt \in [Calls -> {"idle", "fetch", "parse"}]
  /\ DOMAIN seqText = Calls /\ seqText = [c \in Calls |-> seqText[c]]
  /\ \A c \in Calls : seqAt[c] = "parse" => seqText[c] \in Answers
  /\ seqRow \in Nat
  /\ seqGiven \subseteq Int /\ seqTwice \subseteq Int

\* The numbers proxy p may hand out without asking.
Has(p, n) == seqCurr[p] < n /\ n <= seqMax[p]

\* The numbers in the answer that call c has got.
Got(c, n) ==
  /\ seqAt[c] = "parse"
  /\ ParseInt(seqText[c][1]) < n /\ n <= ParseInt(seqText[c][1]) + ParseInt(seqText[c][2])

OnePlace(n) ==
  /\ n \in seqGiven => (\A p \in SeqProxies : ~Has(p, n)) /\ (\A c \in Calls : ~Got(c, n))
  /\ \A p, q \in SeqProxies : Has(p, n) /\ Has(q, n) => p = q
  /\ \A c, d \in Calls : Got(c, n) /\ Got(d, n) => c = d
  /\ \A p \in SeqProxies, c \in Calls : ~(Has(p, n) /\ Got(c, n))

Behind(n) ==
  n \in seqGiven \/ (\E p \in SeqProxies : Has(p, n)) \/ (\E c \in Calls : Got(c, n)) => n <= seqRow + Step

Apart ==
  /\ SeqTypes /\ NumbersUnique
  /\ \A n \in Nat : OnePlace(n) /\ Behind(n)

\* No proxy, goroutine or database starts with a number (Init).
LEMMA ApartAtFirst ==
  ASSUME Step \in Nat \ {0}, SequenceInit
  PROVE  Apart
<1>1. SeqTypes  BY DEF SequenceInit, SeqTypes
<1>2. NumbersUnique  BY DEF SequenceInit, NumbersUnique
<1>3. \A n \in Nat : OnePlace(n) /\ Behind(n)
  BY DEF SequenceInit, OnePlace, Behind, Has, Got
<1> QED  BY <1>1, <1>2, <1>3 DEF Apart

\* NextSeq: the number handed out leaves the range of its proxy, and the other
\* numbers stay where they are.
LEMMA NextSeqApart ==
  ASSUME Step \in Nat \ {0}, Apart, NEW p \in SeqProxies, NEW w \in SeqWorkers, NextSeq(p, w)
  PROVE  Apart'
<1> USE DEF NextSeq, Calls
<1>1. CASE InRange(p)
  <2> DEFINE k == seqCurr[p] + 1
  <2>1. k \in Int /\ Has(p, k)  BY <1>1 DEF InRange, Has, Apart, SeqTypes
  <2>2. k \in Nat => k \notin seqGiven  BY <2>1 DEF Apart, OnePlace
  <2>3. NumbersUnique'  BY <1>1, <2>1, <2>2 DEF Hand, Apart, NumbersUnique
  <2>4. SeqTypes'  BY <1>1, <2>1 DEF Hand, Apart, SeqTypes
  <2>5. ASSUME NEW n \in Nat PROVE OnePlace(n)' /\ Behind(n)'
    <3>1. ASSUME NEW q \in SeqProxies, Has(q, n)' PROVE Has(q, n)
      <4>1. seqCurr[q] \in Int /\ seqMax[q] \in Int /\ seqMax'[q] = seqMax[q]  BY DEF Apart, SeqTypes
      <4>2. seqCurr'[q] = seqCurr[q] \/ seqCurr'[q] = seqCurr[q] + 1  BY <1>1 DEF Hand, Apart, SeqTypes
      <4> QED  BY <3>1, <4>1, <4>2 DEF Has
    <3>2. \A c \in Calls : Got(c, n)' <=> Got(c, n)  BY <1>1, Zenon DEF Got
    <3>3. n = k => ~Has(p, n)'  BY <1>1, <2>1 DEF Hand, Has, Apart, SeqTypes
    <3>4. n \in seqGiven' => n \in seqGiven \/ n = k  BY <1>1 DEF Hand
    <3>5. OnePlace(n) /\ Behind(n)  BY DEF Apart
    <3> QED  BY <1>1, <2>1, <3>1, <3>2, <3>3, <3>4, <3>5 DEF OnePlace, Behind
  <2> QED  BY <2>3, <2>4, <2>5 DEF Apart
<1>2. CASE ~InRange(p)
  <2>1. SeqTypes' /\ NumbersUnique'  BY <1>2, SMTT(30) DEF Apart, SeqTypes, NumbersUnique
  <2>2. ASSUME NEW n \in Nat PROVE OnePlace(n)' /\ Behind(n)'
    <3>1. \A q \in SeqProxies : Has(q, n)' <=> Has(q, n)  BY <1>2, Zenon DEF Has
    <3>2. \A c \in Calls : Got(c, n)' => Got(c, n)  BY <1>2, Zenon DEF Got, Apart, SeqTypes
    <3>3. OnePlace(n) /\ Behind(n)  BY DEF Apart
    <3> QED  BY <1>2, <3>1, <3>2, <3>3, Zenon DEF OnePlace, Behind
  <2> QED  BY <2>1, <2>2 DEF Apart
<1> QED  BY <1>1, <1>2

\* mycat_seq_nextval: the answer's numbers are beyond all that have been given
\* away, or there are none in it.
LEMMA NextvalApart ==
  ASSUME Step \in Nat \ {0}, Apart, NEW p \in SeqProxies, NEW w \in SeqWorkers, mycat_seq_nextval(p, w)
  PROVE  Apart'
<1> DEFINE c == <<p, w>>
<1> USE DEF mycat_seq_nextval, Calls
<1>1. SeqTypes'
  <2>1. seqRow \in Nat /\ seqRow + Step \in Nat /\ c \in DOMAIN seqText  BY DEF Apart, SeqTypes
  <2>2. \/ seqText'[c] = <<Number(seqRow + Step), Number(Step)>>
        \/ seqText'[c] = <<Number(NoRow), NotANumber>>
    BY <2>1, Zenon
  <2>3. seqText'[c] \in Answers  BY <2>1, <2>2, Zenon DEF Answers
  <2>4. seqRow' \in Nat  BY <2>1
  <2> QED  BY <2>3, <2>4, Zenon DEF Apart, SeqTypes
<1>2. NumbersUnique'  BY DEF Apart, NumbersUnique
<1>3. ASSUME NEW n \in Nat PROVE OnePlace(n)' /\ Behind(n)'
  <2>1. \A q \in SeqProxies : Has(q, n)' <=> Has(q, n)  BY Zenon DEF Has
  <2>2. \A d \in Calls : Got(d, n)' => Got(d, n) \/ d = c  BY Zenon DEF Got, Apart, SeqTypes
  <2>3. Got(c, n)' => seqRow' = seqRow + Step /\ seqRow + Step < n /\ n <= seqRow' + Step
    BY DEF Got, Apart, SeqTypes, ParseInt, Number, NotANumber, NoRow
  <2>4. c \in Calls /\ seqGiven' = seqGiven /\ seqRow <= seqRow' /\ seqRow \in Nat /\ seqRow' \in Nat
    BY DEF Apart, SeqTypes
  <2> HIDE DEF mycat_seq_nextval
  <2>5. OnePlace(n) /\ Behind(n)  BY DEF Apart
  <2>6. n <= seqRow + Step => n <= seqRow' + Step /\ ~Got(c, n)'
    <3>1. n <= seqRow + Step => n <= seqRow' + Step
      <4>1. \A a, b, m, k \in Nat : a <= b /\ m <= a + k => m <= b + k  OBVIOUS
      <4> QED  BY <2>4, <4>1, Zenon
    <3>2. n <= seqRow + Step => ~(seqRow + Step < n)  BY <2>4
    <3> QED  BY <2>3, <3>1, <3>2
  <2>7. n \in seqGiven \/ (\E q \in SeqProxies : Has(q, n)) \/ (\E d \in Calls : Got(d, n))
          => n <= seqRow + Step
    BY <2>5 DEF Behind
  <2>8. OnePlace(n)'  BY <2>1, <2>2, <2>4, <2>5, <2>6, <2>7, Zenon DEF OnePlace
  <2>9. Behind(n)'  BY <2>1, <2>2, <2>3, <2>4, <2>6, <2>7, Zenon DEF Behind
  <2> QED  BY <2>8, <2>9
<1> QED  BY <1>1, <1>2, <1>3 DEF Apart

\* FetchError: the numbers of the answer, if there was one, are lost.
LEMMA FetchErrorApart ==
  ASSUME Step \in Nat \ {0}, Apart, NEW p \in SeqProxies, NEW w \in SeqWorkers, FetchError(p, w)
  PROVE  Apart'
<1> USE DEF FetchError, Calls
<1>1. SeqTypes'  BY Zenon DEF Apart, SeqTypes
<1>2. NumbersUnique'  BY DEF Apart, NumbersUnique
<1>3. ASSUME NEW n \in Nat PROVE OnePlace(n)' /\ Behind(n)'
  <2>1. \A q \in SeqProxies : Has(q, n)' <=> Has(q, n)  BY Zenon DEF Has
  <2>2. \A d \in Calls : Got(d, n)' => Got(d, n)  BY DEF Got, Apart, SeqTypes
  <2>3. OnePlace(n) /\ Behind(n)  BY DEF Apart
  <2> QED  BY <2>1, <2>2, <2>3, Zenon DEF OnePlace, Behind
<1> QED  BY <1>1, <1>2, <1>3 DEF Apart

\* What ParseInt reads.
LEMMA ParseNumber == ParseInt(NotANumber) = 0 /\ \A x : ParseInt(Number(x)) = x
BY DEF ParseInt, Number, NotANumber

\* FetchDone: the first number of the answer is handed out and the others
\* become the range of the proxy.
LEMMA FetchDoneApart ==
  ASSUME Step \in Nat \ {0}, Apart, NEW p \in SeqProxies, NEW w \in SeqWorkers, FetchDone(p, w)
  PROVE  Apart'
<1> DEFINE c == <<p, w>>
           v == ParseInt(seqText[c][1])
           i == ParseInt(seqText[c][2])
<1> USE DEF FetchDone, Calls
<1>1. c \in Calls /\ v \in Int /\ i \in Int /\ ((v = NoRow /\ i = 0) \/ (v \in Nat /\ i = Step))
  <2>1. c \in Calls /\ seqText[c] \in Answers  BY Zenon DEF Apart, SeqTypes
  <2>2. CASE seqText[c] = <<Number(NoRow), NotANumber>>
    <3>1. seqText[c][1] = Number(NoRow) /\ seqText[c][2] = NotANumber  BY <2>2
    <3>2. v = NoRow /\ i = 0  BY <3>1, ParseNumber, Zenon
    <3> QED  BY <2>1, <3>2 DEF NoRow
  <2>3. CASE \E x \in Nat : seqText[c] = <<Number(x), Number(Step)>>
    <3>1. PICK x \in Nat : seqText[c] = <<Number(x), Number(Step)>>  BY <2>3
    <3>2. seqText[c][1] = Number(x) /\ seqText[c][2] = Number(Step)  BY <3>1
    <3>3. v = x /\ i = Step  BY <3>2, ParseNumber, Zenon
    <3> QED  BY <2>1, <3>3
  <2> QED  BY <2>1, <2>2, <2>3, Zenon DEF Answers
<1>2. v + 1 \in Nat => Got(c, v + 1)  BY <1>1 DEF Got, NoRow
<1>3. v + 1 \in Nat => v + 1 \notin seqGiven  BY <1>1, <1>2 DEF Apart, OnePlace
<1>4. NumbersUnique'  BY <1>1, <1>3 DEF Hand, Apart, NumbersUnique
<1>5. SeqTypes'
  <2>1. \A d \in Calls : seqAt'[d] = "parse" => d # c /\ seqAt[d] = "parse" /\ seqText'[d] = seqText[d]
    BY DEF Apart, SeqTypes
  <2>2. v + 1 \in Int /\ v + i \in Int  BY <1>1
  <2> QED  BY <2>1, <2>2, Zenon DEF Hand, Apart, SeqTypes
<1>6. ASSUME NEW n \in Nat PROVE OnePlace(n)' /\ Behind(n)'
  <2>1. \A q \in SeqProxies : q # p => (Has(q, n)' <=> Has(q, n))  BY DEF Hand, Has, Apart, SeqTypes
  <2>2. Has(p, n)' => Got(c, n) /\ n # v + 1  BY <1>1 DEF Hand, Has, Got, Apart, SeqTypes
  <2>3. \A d \in Calls : Got(d, n)' => Got(d, n) /\ d # c  BY <1>1, Zenon DEF Got, Apart, SeqTypes
  <2>4. n \in seqGiven' => n \in seqGiven \/ (n = v + 1 /\ Got(c, n))  BY <1>1, <1>2, Zenon DEF Hand
  <2>5. OnePlace(n) /\ Behind(n)  BY DEF Apart
  <2> QED  BY <1>1, <2>1, <2>2, <2>3, <2>4, <2>5, Zenon DEF OnePlace, Behind
<1> QED  BY <1>4, <1>5, <1>6 DEF Apart

\* NewMySQLSequence: the rest of the proxy's range is lost.
LEMMA NewSequenceApart ==
  ASSUME Step \in Nat \ {0}, Apart, NEW p \in SeqProxies, NewMySQLSequence(p)
  PROVE  Apart'
<1> USE DEF NewMySQLSequence
<1>1. SeqTypes'  BY DEF Apart, SeqTypes
<1>2. NumbersUnique'  BY DEF Apart, NumbersUnique
<1>3. ASSUME NEW n \in Nat PROVE OnePlace(n)' /\ Behind(n)'
  <2>1. \A q \in SeqProxies : Has(q, n)' => Has(q, n)  BY DEF Has, Apart, SeqTypes
  <2>2. \A d \in Calls : Got(d, n)' <=> Got(d, n)  BY Zenon DEF Got
  <2>3. OnePlace(n) /\ Behind(n)  BY DEF Apart
  <2> QED  BY <2>1, <2>2, <2>3 DEF OnePlace, Behind
<1> QED  BY <1>1, <1>2, <1>3 DEF Apart

\* Any number of proxies and goroutines that share a row hand out each of its
\* numbers at most once, over lost answers and restarts (NextSeq, getSeqFromDB).
THEOREM SequenceUnique ==
  ASSUME Step \in Nat \ {0}
  PROVE  SequenceSpec => []NumbersUnique
<1>1. SequenceInit => Apart  BY ApartAtFirst
<1>2. Apart /\ [SequenceNext]_sequenceVars => Apart'
  <2> SUFFICES ASSUME Apart, [SequenceNext]_sequenceVars PROVE Apart'  OBVIOUS
  <2>1. CASE SequenceNext
    BY <2>1, NextSeqApart, NextvalApart, FetchErrorApart, FetchDoneApart, NewSequenceApart DEF SequenceNext
  <2>2. CASE UNCHANGED sequenceVars
    <3> USE <2>2 DEF sequenceVars
    <3>1. SeqTypes' /\ NumbersUnique'  BY Zenon DEF Apart, SeqTypes, NumbersUnique
    <3>2. \A n, q : Has(q, n)' <=> Has(q, n)  BY Zenon DEF Has
    <3>3. \A n, d : Got(d, n)' <=> Got(d, n)  BY Zenon DEF Got
    <3>4. \A n \in Nat : OnePlace(n)' /\ Behind(n)'  BY <3>2, <3>3, Zenon DEF Apart, OnePlace, Behind
    <3> QED  BY <3>1, <3>4, Zenon DEF Apart
  <2> QED  BY <2>1, <2>2
<1>3. Apart => NumbersUnique  BY DEF Apart
<1> QED  BY <1>1, <1>2, <1>3, PTL DEF SequenceSpec

-----------------------------------------------------------------------------
(* The read-write split, for any tables, rules and interval: a select of a *)
(* table with a recent noted write runs in the master's data centre.  The  *)
(* invariant: what elapsedTables remembers of a write that was noted is no *)
(* longer ago than the write itself.                                       *)

(* The times are numbers.                                                  *)
SplitTimes ==
  /\ \A t \in DOMAIN rwElapsed : rwElapsed[t] \in Nat
  /\ rwWrote \in [DOMAIN rwWrote -> [at : Nat, noted : BOOLEAN]]

(* A write that the session notes is in elapsedTables, with a time no      *)
(* longer ago than the write is.                                           *)
NotedWrites ==
  \A t \in DOMAIN rwWrote :
    rwWrote[t].noted => t \in DOMAIN rwElapsed /\ rwElapsed[t] <= rwWrote[t].at

SplitInv == SplitTimes /\ NotedWrites /\ ReadYourWrites

\* A session starts without any write.
LEMMA SplitInitInv == SplitInit => SplitInv
BY DEF SplitInit, SplitInv, SplitTimes, NotedWrites, ReadYourWrites, NoStatement

(* The tables that the Checker notes are tables of the statement.          *)
LEMMA ElapsedAreTables == \A s : ElapsedTables(s.tables) \subseteq TablesOf(s)
BY DEF ElapsedTables, TablesOf

(* What updateWriteTableCurrentTime makes of the times: those of the       *)
(* tables it notes are reset, the others stay.                             *)
LEMMA TimesNoted ==
    ASSUME NEW s \in Statements, SplitTimes,
           rwElapsed' = updateWriteTableCurrentTime(s)
    PROVE  /\ \A t \in DOMAIN rwElapsed' : rwElapsed'[t] \in Nat
           /\ \A t \in DOMAIN rwElapsed :
                t \in DOMAIN rwElapsed' /\ (rwElapsed'[t] = rwElapsed[t] \/ rwElapsed'[t] = 0)
           /\ s.kind \in {"insert", "update", "delete"} =>
                \A t \in ElapsedTables(s.tables) : t \in DOMAIN rwElapsed' /\ rwElapsed'[t] = 0
BY DEF updateWriteTableCurrentTime, SplitTimes, Overlaid

(* Where a statement goes: to the master unless it is a select without the *)
(* comment, and to the master's data centre when it reads a table noted    *)
(* within the interval.                                                    *)
LEMMA GoesTo ==
    ASSUME NEW s \in Statements,
           NEW node \in getBackendConn(getExecuteFlagFromSlave(s))
    PROVE  /\ s.kind # "select" \/ s.comment = "/*master*/" => node = "master"
           /\ readRequestIsReadMaster(s.tables) => NodeInMasterDC(node)
<1>1. s.kind # "select" \/ s.comment = "/*master*/" => getExecuteFlagFromSlave(s) = MasterFlag
  BY DEF getExecuteFlagFromSlave
<1>2. ~(s.kind # "select" \/ s.comment = "/*master*/") /\ readRequestIsReadMaster(s.tables) /\ ~rwMasterDC
        => getExecuteFlagFromSlave(s) = MasterDCFlag
  BY DEF getExecuteFlagFromSlave
<1>3. \A x : SplitGetConn(MasterFlag, x) = {"master"} /\ SplitGetConn(MasterDCFlag, x) = {"masterDCSlave"}
  BY DEF SplitGetConn, MasterFlag, SlaveFlag, MasterDCFlag
<1>4. node = "master" \/ node \in SplitGetConn(getExecuteFlagFromSlave(s), rwUser.statistic)
  BY DEF getBackendConn
<1> QED  BY <1>1, <1>2, <1>3, <1>4 DEF NodeInMasterDC

\* A statement that is executed keeps the invariant (doQuery).
LEMMA DoQueryInv ==
    ASSUME SplitInv, NEW s \in Statements, doQuery(s)
    PROVE  SplitInv'
<1>1. s.kind \in StatementKinds  BY DEF Statements
<1>2. ElapsedTables(s.tables) \subseteq TablesOf(s)  BY ElapsedAreTables
<1>3. /\ rwElapsed' = updateWriteTableCurrentTime(s)
      /\ rwMasterDC' = rwMasterDC
  BY DEF doQuery
<1>4. SplitTimes /\ NotedWrites  BY DEF SplitInv
<1>5. /\ \A t \in DOMAIN rwElapsed' : rwElapsed'[t] \in Nat
      /\ \A t \in DOMAIN rwElapsed :
           t \in DOMAIN rwElapsed' /\ (rwElapsed'[t] = rwElapsed[t] \/ rwElapsed'[t] = 0)
      /\ s.kind \in {"insert", "update", "delete"} =>
           \A t \in ElapsedTables(s.tables) : t \in DOMAIN rwElapsed' /\ rwElapsed'[t] = 0
  BY <1>3, <1>4, TimesNoted
<1>6. SplitTimes' /\ NotedWrites'
  <2>1. CASE s.kind = "select"
    <3>1. rwWrote' = rwWrote  BY <2>1 DEF doQuery
    <3> QED  BY <3>1, <1>4, <1>5 DEF SplitTimes, NotedWrites
  <2>2. CASE s.kind # "select"
    <3> DEFINE seen(t) == s.kind # "replace" /\ t \in ElapsedTables(s.tables)
               new == [t \in TablesOf(s) |-> [at |-> 0, noted |-> seen(t)]]
    <3>1. rwWrote' = Overlaid(new, rwWrote)  BY <2>2, Zenon DEF doQuery
    <3>2. /\ DOMAIN rwWrote' = TablesOf(s) \cup DOMAIN rwWrote
          /\ rwWrote' = [t \in TablesOf(s) \cup DOMAIN rwWrote |->
                           IF t \in TablesOf(s) THEN new[t] ELSE rwWrote[t]]
      BY <3>1, Zenon DEF Overlaid
    <3>3. \A t \in TablesOf(s) :
            /\ rwWrote'[t] = [at |-> 0, noted |-> seen(t)]
            /\ seen(t) \in BOOLEAN
      BY <3>2
    <3> HIDE DEF seen
    <3>4. \A t \in DOMAIN rwWrote \ TablesOf(s) : rwWrote'[t] = rwWrote[t]  BY <3>2
    <3>5. SplitTimes'  BY <3>2, <3>3, <3>4, <1>4, <1>5 DEF SplitTimes
    <3>6. ASSUME NEW t \in DOMAIN rwWrote', rwWrote'[t].noted
          PROVE  t \in DOMAIN rwElapsed' /\ rwElapsed'[t] <= rwWrote'[t].at
      <4>1. CASE t \in TablesOf(s)
        <5>1. rwWrote'[t].at = 0 /\ s.kind # "replace" /\ t \in ElapsedTables(s.tables)
          <6>1. rwWrote'[t] = [at |-> 0, noted |-> seen(t)]  BY <4>1, <3>3, Zenon
          <6>2. rwWrote'[t].at = 0 /\ rwWrote'[t].noted = seen(t)  BY <6>1
          <6> QED  BY <6>2, <3>6, Zenon DEF seen
        <5> QED  BY <5>1, <1>1, <1>5, <2>2 DEF StatementKinds
      <4>2. CASE t \notin TablesOf(s)
        <5>1. t \in DOMAIN rwWrote /\ rwWrote'[t] = rwWrote[t]  BY <4>2, <3>2, <3>4, Zenon
        <5> QED  BY <5>1, <3>6, <1>4, <1>5 DEF NotedWrites, SplitTimes
      <4> QED  BY <4>1, <4>2
    <3> QED  BY <3>5, <3>6 DEF NotedWrites
  <2> QED  BY <2>1, <2>2
<1>7. ReadYourWrites'
  <2>1. PICK node \in getBackendConn(getExecuteFlagFromSlave(s)) : rwLast' = Ran(s, node)
    BY DEF doQuery
  <2>2. /\ rwLast'.kind = s.kind /\ rwLast'.comment = s.comment /\ rwLast'.node = node
        /\ rwLast'.noted = \E t \in Recent(ElapsedTables(s.tables)) : rwWrote[t].noted
    BY <2>1 DEF Ran
  <2>3. ASSUME NEW t \in Recent(ElapsedTables(s.tables)), rwWrote[t].noted
        PROVE  readRequestIsReadMaster(s.tables)
    <3>1. t \in ElapsedTables(s.tables) /\ t \in DOMAIN rwWrote /\ rwWrote[t].at < writeElapsedInterval
      BY DEF Recent
    <3>2. t \in DOMAIN rwElapsed /\ rwElapsed[t] <= rwWrote[t].at  BY <3>1, <2>3, <1>4 DEF NotedWrites
    <3>3. rwElapsed[t] < writeElapsedInterval
      BY <3>1, <3>2, <1>4, SplitAssumption DEF SplitTimes
    <3> QED  BY <3>1, <3>2, <3>3, Zenon DEF readRequestIsReadMaster
  <2>4. NodeInMasterDC(node)' <=> NodeInMasterDC(node)  BY <1>3 DEF NodeInMasterDC
  <2>5. rwLast'.noted => NodeInMasterDC(node)  BY <2>2, <2>3, GoesTo, Zenon
  <2>6. s.kind # "select" \/ s.comment = "/*master*/" => node = "master"  BY GoesTo
  <2>7. rwLast'.noted => (node \in {"master", "masterDCSlave"} \/ rwMasterDC')
    BY <2>5, <1>3 DEF NodeInMasterDC
  <2> QED  BY <2>2, <2>6, <2>7 DEF ReadYourWrites, NodeInMasterDC
<1> QED  BY <1>6, <1>7 DEF SplitInv

\* A statement that fails has been noted, but has written nothing.
LEMMA DoQueryFailsInv ==
    ASSUME SplitInv, NEW s \in Statements, doQueryFails(s)
    PROVE  SplitInv'
<1>1. /\ rwElapsed' = updateWriteTableCurrentTime(s)
      /\ rwMasterDC' = rwMasterDC /\ rwWrote' = rwWrote /\ rwLast' = rwLast
  BY DEF doQueryFails
<1>2. SplitTimes /\ NotedWrites /\ ReadYourWrites  BY DEF SplitInv
<1>3. /\ \A t \in DOMAIN rwElapsed' : rwElapsed'[t] \in Nat
      /\ \A t \in DOMAIN rwElapsed :
           t \in DOMAIN rwElapsed' /\ (rwElapsed'[t] = rwElapsed[t] \/ rwElapsed'[t] = 0)
  BY <1>1, <1>2, TimesNoted
<1>4. SplitTimes' /\ NotedWrites'  BY <1>1, <1>2, <1>3 DEF SplitTimes, NotedWrites
<1>5. ReadYourWrites'  BY <1>1, <1>2 DEF ReadYourWrites, NodeInMasterDC
<1> QED  BY <1>4, <1>5 DEF SplitInv

(* The clock keeps the order of two times.                                 *)
LEMMA ClockInv == SplitInv /\ Tick => SplitInv'
<1> SUFFICES ASSUME SplitInv, Tick PROVE SplitInv'
  OBVIOUS
<1> DEFINE Older(n) == IF n < writeElapsedInterval THEN n + 1 ELSE n
<1>1. SplitTimes /\ NotedWrites /\ ReadYourWrites  BY DEF SplitInv
<1>2. /\ rwElapsed' = [t \in DOMAIN rwElapsed |-> Older(rwElapsed[t])]
      /\ rwWrote' = [t \in DOMAIN rwWrote |-> [rwWrote[t] EXCEPT !.at = Older(@)]]
      /\ rwMasterDC' = rwMasterDC /\ rwLast' = rwLast
  BY DEF Tick
<1>3. \A m, n \in Nat : Older(m) \in Nat /\ (m <= n => Older(m) <= Older(n))
  BY SplitAssumption
<1> HIDE DEF Older
<1>4. \A t \in DOMAIN rwWrote : rwWrote[t] \in [at : Nat, noted : BOOLEAN]
  BY <1>1 DEF SplitTimes
<1>5. \A t \in DOMAIN rwWrote :
        rwWrote'[t] = [rwWrote[t] EXCEPT !.at = Older(rwWrote[t].at)]
  BY <1>2
<1>6. \A t \in DOMAIN rwWrote :
        rwWrote'[t] = [at |-> Older(rwWrote[t].at), noted |-> rwWrote[t].noted]
  BY <1>4, <1>5
<1>7. DOMAIN rwWrote' = DOMAIN rwWrote /\ DOMAIN rwElapsed' = DOMAIN rwElapsed  BY <1>2
<1>8. \A t \in DOMAIN rwElapsed : rwElapsed'[t] = Older(rwElapsed[t])  BY <1>2
<1>9. SplitTimes'
  <2>1. \A t \in DOMAIN rwWrote : rwWrote'[t] \in [at : Nat, noted : BOOLEAN]
    <3> TAKE t \in DOMAIN rwWrote
    <3>1. rwWrote[t].at \in Nat /\ rwWrote[t].noted \in BOOLEAN  BY <1>4
    <3>2. Older(rwWrote[t].at) \in Nat  BY <3>1, <1>3
    <3>3. [at |-> Older(rwWrote[t].at), noted |-> rwWrote[t].noted] \in [at : Nat, noted : BOOLEAN]
      BY <3>1, <3>2, Zenon
    <3> QED  BY <3>3, <1>6, Zenon
  <2>2. rwWrote' = [t \in DOMAIN rwWrote' |-> rwWrote'[t]]  BY <1>2
  <2>3. rwWrote' \in [DOMAIN rwWrote' -> [at : Nat, noted : BOOLEAN]]  BY <2>1, <2>2, <1>7
  <2> QED  BY <2>3, <1>1, <1>3, <1>7, <1>8 DEF SplitTimes
<1>10. NotedWrites'
  BY <1>1, <1>3, <1>4, <1>6, <1>7, <1>8 DEF NotedWrites, SplitTimes
<1>11. ReadYourWrites'  BY <1>1, <1>2 DEF ReadYourWrites, NodeInMasterDC
<1> QED  BY <1>9, <1>10, <1>11 DEF SplitInv

\* Every step of a session with its clock keeps the invariant.
LEMMA SplitNextInv == SplitInv /\ [SplitNext]_splitVars => SplitInv'
<1> SUFFICES ASSUME SplitInv, [SplitNext]_splitVars PROVE SplitInv'
  OBVIOUS
<1>1. CASE \E s \in Statements : doQuery(s)  BY <1>1, DoQueryInv
<1>2. CASE \E s \in Statements : doQueryFails(s)  BY <1>2, DoQueryFailsInv
<1>3. CASE handleBegin \/ handleCommit \/ UNCHANGED splitVars
  BY <1>3 DEF handleBegin, handleCommit, splitVars, SplitInv, SplitTimes, NotedWrites, ReadYourWrites,
              NodeInMasterDC
<1>4. CASE Tick  BY <1>4, ClockInv
<1> QED  BY <1>1, <1>2, <1>3, <1>4 DEF SplitNext

\* ReadYourWrites: doQuery sends every write and every select that asks for it to the
\* master, and a select of a table with a recent noted write into the master's data
\* centre, for any tables, any shard rules and any interval.
THEOREM ReadsOwnWrites == SplitSpec => []ReadYourWrites
<1>1. SplitInv => ReadYourWrites  BY DEF SplitInv
<1> QED  BY <1>1, SplitInitInv, SplitNextInv, PTL DEF SplitSpec

-----------------------------------------------------------------------------
(* The configuration store, for any number of proxies, namespaces, loading *)
(* goroutines, changes and faults: a proxy that has started has loaded     *)
(* every namespace it listed, and a change reported as done is served by   *)
(* every proxy that was up when it began and still is.                     *)

(* What is served or prepared: some of the names, each with a version.     *)
Versions == UNION {[S -> Nat] : S \in SUBSET StoreNames}

ProxyRecords ==
  [at : {"down", "loading", "created", "up"}, listed : SUBSET StoreNames, todo : SUBSET StoreNames,
   worker : [StoreWorkers -> StoreNames \cup {Free, Gone}], err : BOOLEAN,
   serves : Versions, ready : Versions]

OpRecords ==
  [at : {"idle", "stored", "reading", "prepare", "commit", "delete"}, kind : {"none", "modify", "delete"},
   name : StoreNames \cup {"none"}, left : SUBSET StoreProxies, found : SUBSET StoreProxies,
   out : {"none", "ok", "error"}, before : SUBSET StoreProxies]

Paths == {NamespacePath(n) : n \in StoreNames} \cup {ProxyPath(p) : p \in StoreProxies}

NodesTyped == DOMAIN csNodes \subseteq Paths /\ \A x \in DOMAIN csNodes : csNodes[x] \in Nat

StoreTypes ==
  /\ NodesTyped
  /\ csProxy \in [StoreProxies -> ProxyRecords]
  /\ csOp \in OpRecords
  /\ csOp.at # "idle" => csOp.name \in StoreNames /\ csOp.kind \in {"modify", "delete"}
  /\ csCount \in [changes : Nat, starts : Nat, faults : Nat]

(* The names a worker has in its hands.                                    *)
InHand(r) == {n \in StoreNames : \E w \in StoreWorkers : r.worker[w] = n}

(* While a proxy loads, every listed name is served, to do or in the hands *)
(* of a worker, unless one has failed.                                     *)
Listing(r) ==
  /\ r.at # "loading" => \A w \in StoreWorkers : r.worker[w] = Gone
  /\ r.at = "loading" /\ ~r.err => r.listed = DOMAIN r.serves \cup r.todo \cup InHand(r)
  /\ r.at = "created" => DOMAIN r.serves = r.listed

AllListing == \A p \in StoreProxies : Listing(csProxy[p])

-----------------------------------------------------------------------------
\* A proxy that serves nothing.
LEMMA NoVersions == [n \in {} |-> 0] \in Versions
<1>1. [n \in {} |-> 0] \in [{} -> Nat]  OBVIOUS
<1> QED  BY <1>1 DEF Versions

\* Storing a version under a name (EtcdClient.Update on what is served).
LEMMA UpdateVersions ==
    ASSUME NEW f \in Versions, NEW n \in StoreNames, NEW v \in Nat
    PROVE  Update(f, n, v) \in Versions /\ DOMAIN Update(f, n, v) = DOMAIN f \cup {n}
<1>1. PICK S \in SUBSET StoreNames : f \in [S -> Nat]  BY DEF Versions
<1>2. S \cup {n} \in SUBSET StoreNames  OBVIOUS
<1>3. Update(f, n, v) \in [S \cup {n} -> Nat]  BY <1>1 DEF Update
<1> QED  BY <1>1, <1>2, <1>3, Zenon DEF Versions, Update

\* Removing a name from what is served.
LEMMA DeleteVersions ==
    ASSUME NEW f \in Versions, NEW n
    PROVE  ClientDelete(f, n) \in Versions
<1>1. PICK S \in SUBSET StoreNames : f \in [S -> Nat]  BY DEF Versions
<1>2. S \ {n} \in SUBSET StoreNames  OBVIOUS
<1>3. ClientDelete(f, n) \in [S \ {n} -> Nat]  BY <1>1 DEF ClientDelete, Restrict
<1> QED  BY <1>2, <1>3 DEF Versions

(* Reading what was just written or removed, and anything else.            *)
LEMMA ReadUpdate ==
    ASSUME NEW f, NEW x, NEW v
    PROVE  /\ Read(Update(f, x, v), x) = v
           /\ \A y : y # x => Read(Update(f, x, v), y) = Read(f, y)
           /\ \A y : y # x => (y \in DOMAIN Update(f, x, v) <=> y \in DOMAIN f)
           /\ x \in DOMAIN Update(f, x, v)
BY DEF Read, Update

\* Delete removes one node and leaves the others as they are.
LEMMA ReadDelete ==
    ASSUME NEW f, NEW x
    PROVE  /\ Read(ClientDelete(f, x), x) = Missing
           /\ \A y : y # x => Read(ClientDelete(f, x), y) = Read(f, y)
           /\ \A y : y # x => (y \in DOMAIN ClientDelete(f, x) <=> y \in DOMAIN f)
           /\ x \notin DOMAIN ClientDelete(f, x)
BY DEF Read, ClientDelete, Restrict

\* The node of a namespace is never the node of a proxy (NamespacePath, ProxyPath).
LEMMA PathsApart == \A n, p : NamespacePath(n) # ProxyPath(p)
BY DEF NamespacePath, ProxyPath

\* Update writes one node.
LEMMA NodesUpdate ==
    ASSUME NodesTyped, NEW x \in Paths, NEW v \in Nat, csNodes' = Update(csNodes, x, v)
    PROVE  NodesTyped'
<1>1. DOMAIN csNodes' = DOMAIN csNodes \cup {x}  BY DEF Update
<1>2. \A y \in DOMAIN csNodes' : csNodes'[y] = IF y = x THEN v ELSE csNodes[y]  BY DEF Update
<1>3. Paths' = Paths  BY DEF Paths, NamespacePath, ProxyPath
<1> QED  BY <1>1, <1>2, <1>3 DEF NodesTyped

\* Delete removes one node.
LEMMA NodesDelete ==
    ASSUME NodesTyped, NEW x, csNodes' = ClientDelete(csNodes, x)
    PROVE  NodesTyped'
<1>1. DOMAIN csNodes' = DOMAIN csNodes \ {x}  BY DEF ClientDelete, Restrict
<1>2. \A y \in DOMAIN csNodes' : csNodes'[y] = csNodes[y]  BY DEF ClientDelete, Restrict
<1>3. Paths' = Paths  BY DEF Paths, NamespacePath, ProxyPath
<1> QED  BY <1>1, <1>2, <1>3 DEF NodesTyped

(* The names that are listed are names.                                    *)
LEMMA ListedAreNames ==
    ASSUME NodesTyped
    PROVE  ListNamespace \subseteq StoreNames /\ List(csNodes, "proxy") \subseteq StoreProxies
<1>1. \A x \in DOMAIN csNodes : \/ \E n \in StoreNames : x = <<"namespace", n>>
                                \/ \E p \in StoreProxies : x = <<"proxy", p>>
  BY DEF NodesTyped, Paths, NamespacePath, ProxyPath
<1>2. \A x \in DOMAIN csNodes : /\ x[1] = "namespace" => x[2] \in StoreNames
                                /\ x[1] = "proxy" => x[2] \in StoreProxies
  BY <1>1
<1> QED  BY <1>2 DEF ListNamespace, List

-----------------------------------------------------------------------------
(* The start of a proxy.                                                   *)

\* A proxy that is not running lists nothing and has no workers.
LEMMA DownIs == Down \in ProxyRecords /\ Listing(Down)
<1>1. Down \in ProxyRecords  BY NoVersions, Zenon DEF Down, ProxyRecords
<1> QED  BY <1>1, Zenon DEF Down, Listing

(* A step that sets one proxy's record.                                    *)
LEMMA SetOne ==
    ASSUME csProxy \in [StoreProxies -> ProxyRecords], AllListing,
           NEW p \in StoreProxies, NEW r \in ProxyRecords, Listing(r), SetProxy(p, r)
    PROVE  /\ csProxy' \in [StoreProxies -> ProxyRecords] /\ AllListing'
           /\ csProxy'[p] = r /\ \A q \in StoreProxies \ {p} : csProxy'[q] = csProxy[q]
<1>1. csProxy' = [csProxy EXCEPT ![p] = r]  BY DEF SetProxy
<1>2. /\ csProxy' \in [StoreProxies -> ProxyRecords]
      /\ csProxy'[p] = r /\ \A q \in StoreProxies \ {p} : csProxy'[q] = csProxy[q]
  BY <1>1
<1>3. \A q \in StoreProxies : Listing(csProxy'[q])  BY <1>2 DEF AllListing
<1> QED  BY <1>2, <1>3 DEF AllListing

\* The names listed at the start are all still to be taken (loadAllNamespace).
LEMMA StartListingIs ==
    ASSUME NEW L \in SUBSET StoreNames
    PROVE  LET r == [Down EXCEPT !.at = "loading", !.listed = L, !.todo = L,
                                 !.worker = [w \in StoreWorkers |-> Free]]
           IN  r \in ProxyRecords /\ Listing(r)
<1> DEFINE r == [Down EXCEPT !.at = "loading", !.listed = L, !.todo = L,
                             !.worker = [w \in StoreWorkers |-> Free]]
<1>1. Down.serves = [n \in {} |-> 0]  BY DEF Down
<1>2. r \in ProxyRecords  BY DownIs, Zenon DEF ProxyRecords
<1>3. /\ r.at = "loading" /\ r.listed = L /\ r.todo = L /\ r.worker = [w \in StoreWorkers |-> Free]
      /\ r.serves = [n \in {} |-> 0]
  BY <1>1, DownIs DEF ProxyRecords
<1> HIDE DEF r
<1>4. InHand(r) = {}  BY <1>3, StoreAssumption DEF InHand
<1>5. DOMAIN r.serves = {}  BY <1>3
<1> QED  BY <1>2, <1>3, <1>4, <1>5 DEF r, Listing

\* A worker of loadAllNamespace takes a name from the channel into its hands.
LEMMA TakeNameIs ==
    ASSUME NEW r \in ProxyRecords, Listing(r), NEW w \in StoreWorkers, r.at = "loading", r.worker[w] = Free,
           NEW n \in r.todo
    PROVE  LET t == [r EXCEPT !.todo = @ \ {n}, !.worker[w] = n]
           IN  t \in ProxyRecords /\ Listing(t)
<1> DEFINE t == [r EXCEPT !.todo = r.todo \ {n}, !.worker[w] = n]
<1>1. n \in StoreNames  BY DEF ProxyRecords
<1>2. t \in ProxyRecords  BY <1>1, Zenon DEF ProxyRecords
<1>3. /\ t.at = r.at /\ t.listed = r.listed /\ t.todo = r.todo \ {n} /\ t.err = r.err /\ t.serves = r.serves
      /\ t.worker[w] = n /\ \A u \in StoreWorkers \ {w} : t.worker[u] = r.worker[u]
  BY DEF ProxyRecords
<1> HIDE DEF t
<1>4. InHand(t) = InHand(r) \cup {n}  BY <1>1, <1>3, StoreAssumption DEF InHand
<1>5. Listing(t)  BY <1>3, <1>4 DEF Listing
<1> QED  BY <1>2, <1>5 DEF t

\* A worker that cannot load its name ends, with an error.
LEMMA LoadFailsIs ==
    ASSUME NEW r \in ProxyRecords, Listing(r), NEW w \in StoreWorkers, r.worker[w] \in StoreNames
    PROVE  LET t == [r EXCEPT !.err = TRUE, !.worker[w] = Gone]
           IN  t \in ProxyRecords /\ Listing(t) /\ t.at = "loading" /\ r.at = "loading"
<1> DEFINE t == [r EXCEPT !.err = TRUE, !.worker[w] = Gone]
<1>1. r.at = "loading"  BY StoreAssumption DEF Listing
<1>2. t \in ProxyRecords  BY Zenon DEF ProxyRecords
<1>3. t.at = r.at /\ t.err = TRUE  BY DEF ProxyRecords
<1> HIDE DEF t
<1>4. Listing(t)  BY <1>1, <1>3 DEF Listing
<1> QED  BY <1>1, <1>2, <1>3, <1>4 DEF t

\* A worker that has loaded its name puts it among those served.
LEMMA LoadSucceedsIs ==
    ASSUME NEW r \in ProxyRecords, Listing(r), NEW w \in StoreWorkers, r.worker[w] \in StoreNames, NEW v \in Nat
    PROVE  LET t == [r EXCEPT !.serves = Update(@, r.worker[w], v), !.worker[w] = Free]
           IN  t \in ProxyRecords /\ Listing(t) /\ t.at = "loading" /\ r.at = "loading"
<1> DEFINE n == r.worker[w]
           f == Update(r.serves, n, v)
           t == [r EXCEPT !.serves = f, !.worker[w] = Free]
<1>1. r.at = "loading"  BY StoreAssumption DEF Listing
<1>2. r.serves \in Versions  BY DEF ProxyRecords
<1>3. f \in Versions /\ DOMAIN f = DOMAIN r.serves \cup {n}  BY <1>2, UpdateVersions, Zenon
<1> HIDE DEF f
<1>4. t \in ProxyRecords  BY <1>3, Zenon DEF ProxyRecords
<1>5. /\ t.at = r.at /\ t.listed = r.listed /\ t.todo = r.todo /\ t.err = r.err /\ t.serves = f
      /\ t.worker[w] = Free /\ \A u \in StoreWorkers \ {w} : t.worker[u] = r.worker[u]
  BY DEF ProxyRecords
<1> HIDE DEF t
<1>6. InHand(r) \cup {n} = InHand(t) \cup {n}  BY <1>5, StoreAssumption DEF InHand
<1>7. n \in InHand(r)  BY DEF InHand
<1>8. Listing(t)  BY <1>1, <1>3, <1>5, <1>6, <1>7 DEF Listing
<1> QED  BY <1>1, <1>4, <1>5, <1>8 DEF t, f

\* When the names are used up and no worker has one, all listed names are served.
LEMMA LoadedIs ==
    ASSUME NEW r \in ProxyRecords, Listing(r), r.at = "loading", ~r.err, r.todo = {},
           \A w \in StoreWorkers : r.worker[w] \notin StoreNames
    PROVE  LET t == [r EXCEPT !.at = "created", !.worker = [w \in StoreWorkers |-> Gone]]
           IN  t \in ProxyRecords /\ Listing(t)
<1> DEFINE t == [r EXCEPT !.at = "created", !.worker = [w \in StoreWorkers |-> Gone]]
<1>1. t \in ProxyRecords  BY Zenon DEF ProxyRecords
<1>2. /\ t.at = "created" /\ t.listed = r.listed /\ t.serves = r.serves
      /\ \A w \in StoreWorkers : t.worker[w] = Gone
  BY DEF ProxyRecords
<1> HIDE DEF t
<1>3. InHand(r) = {}  BY DEF InHand
<1>4. r.listed = DOMAIN r.serves  BY <1>3 DEF Listing
<1>5. Listing(t)  BY <1>2, <1>4 DEF Listing
<1> QED  BY <1>1, <1>5 DEF t

(* A proxy that is up, or comes up, may serve anything.                    *)
LEMMA UpIs ==
    ASSUME NEW r, Listing(r), r.at \in {"created", "up"}, NEW t, t.at = "up", t.worker = r.worker
    PROVE  Listing(t)
BY DEF Listing

-----------------------------------------------------------------------------
(* The change of the control centre.                                       *)

Stored == Read(csNodes, NamespacePath(csOp.name))
ServesStored(p) == Read(csProxy[p].serves, csOp.name) = Stored
ReadyStored(p) == Read(csProxy[p].ready, csOp.name) = Stored

(* A proxy that is up is entered.                                          *)
Entered == \A p \in Up : ProxyPath(p) \in DOMAIN csNodes

(* How far the change has come with the proxies that were up before it and *)
(* still are: they will be found, are found, are prepared, and serve it.   *)
Reaches ==
  /\ csOp.before \subseteq Up
  /\ csOp.at = "reading" => csOp.before \subseteq csOp.left \cup csOp.found
  /\ csOp.at \in {"prepare", "commit", "delete"} => csOp.before \subseteq csOp.found
  /\ csOp.at = "prepare" => \A p \in csOp.before \ csOp.left : ReadyStored(p)
  /\ csOp.at = "commit" => \A p \in csOp.before \cap csOp.left : ReadyStored(p)
  /\ csOp.at \in {"commit", "delete"} => \A p \in csOp.before \ csOp.left : ServesStored(p)
  /\ csOp.at = "delete" => csOp.kind = "delete"
  /\ csOp.at # "idle" /\ csOp.kind = "delete" => Stored = Missing
  /\ ChangeReaches

StoreInv == StoreTypes /\ AllListing /\ Entered /\ Reaches

StoreCounts == [changes : Nat, starts : Nat, faults : Nat]

\* At first no proxy runs and no change is under way.
LEMMA StoreInitInv == StoreInit => StoreInv
<1> SUFFICES ASSUME StoreInit PROVE StoreInv
  OBVIOUS
<1>1. NodesTyped  BY DEF StoreInit, NodesTyped, Paths
<1>2. csProxy \in [StoreProxies -> ProxyRecords] /\ \A p \in StoreProxies : csProxy[p] = Down
  BY DownIs DEF StoreInit
<1>3. csOp = StoreIdle /\ csCount = [changes |-> 0, starts |-> 0, faults |-> 0]  BY DEF StoreInit
<1>4. csOp \in OpRecords /\ csOp.at = "idle" /\ csOp.out = "none" /\ csOp.before = {}
  BY <1>3, Zenon DEF StoreIdle, OpRecords
<1>5. csCount \in [changes : Nat, starts : Nat, faults : Nat]  BY <1>3
<1>6. AllListing  BY <1>2, DownIs DEF AllListing
<1>7. Down.at = "down"  BY DEF Down
<1>8. Up = {}  BY <1>2, <1>7 DEF Up
<1>9. Entered  BY <1>8 DEF Entered
<1>10. Reaches  BY <1>4, Zenon DEF Reaches, ChangeReaches
<1> QED  BY <1>1, <1>2, <1>4, <1>5, <1>6, <1>9, <1>10 DEF StoreInv, StoreTypes

(* No namespace changes in the store, and no proxy but p leaves it.        *)
OwnNodeOnly(p) ==
  /\ \A n : Read(csNodes', NamespacePath(n)) = Read(csNodes, NamespacePath(n))
  /\ \A q \in StoreProxies \ {p} : ProxyPath(q) \in DOMAIN csNodes => ProxyPath(q) \in DOMAIN csNodes'

(* A step of a proxy that no change has to reach any longer.               *)
LEMMA OwnStep ==
    ASSUME StoreInv, NEW p \in StoreProxies, NEW r \in ProxyRecords, Listing(r), SetProxy(p, r),
           NodesTyped', OwnNodeOnly(p), csCount' \in StoreCounts,
           csOp' = csOp \/ Leaves(p),
           p \notin csOp'.before,
           r.at = "up" => ProxyPath(p) \in DOMAIN csNodes'
    PROVE  StoreInv'
<1>1. /\ NodesTyped /\ csProxy \in [StoreProxies -> ProxyRecords] /\ csOp \in OpRecords
      /\ csOp.at # "idle" => csOp.name \in StoreNames /\ csOp.kind \in {"modify", "delete"}
      /\ AllListing /\ Entered /\ Reaches
  BY DEF StoreInv, StoreTypes
<1>2. /\ csProxy' \in [StoreProxies -> ProxyRecords] /\ AllListing'
      /\ csProxy'[p] = r /\ \A q \in StoreProxies \ {p} : csProxy'[q] = csProxy[q]
  BY <1>1, SetOne, Zenon
<1>3. /\ csOp' \in OpRecords
      /\ csOp'.at = csOp.at /\ csOp'.kind = csOp.kind /\ csOp'.name = csOp.name /\ csOp'.left = csOp.left
      /\ csOp'.found = csOp.found /\ csOp'.out = csOp.out /\ csOp'.before \subseteq csOp.before
  <2>1. CASE csOp' = csOp  BY <2>1, <1>1, Zenon
  <2>2. CASE Leaves(p)
    <3>1. csOp' = [csOp EXCEPT !.before = csOp.before \ {p}]  BY <2>2 DEF Leaves
    <3> QED  BY <3>1, <1>1 DEF OpRecords
  <2> QED  BY <2>1, <2>2
<1>4. StoreTypes'  BY <1>1, <1>2, <1>3 DEF StoreTypes, StoreCounts
<1>5. \A q \in StoreProxies \ {p} : q \in Up' <=> q \in Up  BY <1>2, Zenon DEF Up
<1>6. Up' \subseteq StoreProxies /\ Up \subseteq StoreProxies /\ (p \in Up' => r.at = "up")
  BY <1>2, Zenon DEF Up
<1>7. Entered'
  <2> SUFFICES ASSUME NEW q \in Up' PROVE ProxyPath(q) \in DOMAIN csNodes'
    BY Zenon DEF Entered, ProxyPath
  <2>1. CASE q = p  BY <2>1, <1>6, Zenon
  <2>2. CASE q # p  BY <2>2, <1>1, <1>5, <1>6, Zenon DEF Entered, OwnNodeOnly
  <2> QED  BY <2>1, <2>2, Zenon
<1>8. \A q \in csOp'.before : q \in StoreProxies \ {p} /\ q \in csOp.before /\ q \in Up /\ q \in Up'
  BY <1>1, <1>3, <1>5, <1>6, Zenon DEF Reaches
<1>9. Stored' = Stored  BY <1>3, Zenon DEF Stored, OwnNodeOnly, NamespacePath
<1>10. \A q \in csOp'.before :
         (ServesStored(q) => ServesStored(q)') /\ (ReadyStored(q) => ReadyStored(q)')
  BY <1>2, <1>3, <1>8, <1>9, Zenon DEF ServesStored, ReadyStored
<1>11. ChangeReaches <=> (csOp.at = "idle" /\ csOp.out = "ok" => \A q \in csOp.before : ServesStored(q))
  BY Zenon DEF ChangeReaches, ServesStored, Stored
<1>12. ChangeReaches' <=> (csOp'.at = "idle" /\ csOp'.out = "ok" => \A q \in csOp'.before : ServesStored(q)')
  BY Zenon DEF ChangeReaches, ServesStored, Stored
<1>13. Reaches'
  <2>1. csOp'.before \subseteq Up'  BY <1>8, Zenon
  <2>2. /\ csOp'.at = "reading" => csOp'.before \subseteq csOp'.left \cup csOp'.found
        /\ csOp'.at \in {"prepare", "commit", "delete"} => csOp'.before \subseteq csOp'.found
        /\ csOp'.at = "delete" => csOp'.kind = "delete"
        /\ csOp'.at # "idle" /\ csOp'.kind = "delete" => Stored' = Missing
    BY <1>1, <1>3, <1>9, Zenon DEF Reaches
  <2>3. csOp'.at = "prepare" => \A q \in csOp'.before \ csOp'.left : ReadyStored(q)'
    BY <1>1, <1>3, <1>10, Zenon DEF Reaches
  <2>4. csOp'.at = "commit" => \A q \in csOp'.before \cap csOp'.left : ReadyStored(q)'
    BY <1>1, <1>3, <1>10, Zenon DEF Reaches
  <2>5. csOp'.at \in {"commit", "delete"} => \A q \in csOp'.before \ csOp'.left : ServesStored(q)'
    BY <1>1, <1>3, <1>10, Zenon DEF Reaches
  <2>6. ChangeReaches'  BY <1>1, <1>3, <1>10, <1>11, <1>12, Zenon DEF Reaches
  <2> QED  BY <2>1, <2>2, <2>3, <2>4, <2>5, <2>6, Zenon DEF Reaches, Missing
<1> QED  BY <1>2, <1>4, <1>7, <1>13 DEF StoreInv

\* A step that does not write the store leaves the nodes of others alone.
LEMMA NodesStay == ASSUME NEW p, csNodes' = csNodes PROVE OwnNodeOnly(p)
BY DEF OwnNodeOnly

\* A step that does not write the store keeps the types of its nodes.
LEMMA NodesTypedStay == NodesTyped /\ csNodes' = csNodes => NodesTyped'
BY DEF NodesTyped, Paths, NamespacePath, ProxyPath

(* The counters stay numbers.                                              *)
LEMMA StepsCounted ==
    ASSUME csCount \in StoreCounts
    PROVE  /\ StoreFault => csCount' \in StoreCounts
           /\ Calm => csCount' \in StoreCounts
           /\ csCount' = [csCount EXCEPT !.starts = @ + 1] => csCount' \in StoreCounts
           /\ csCount' = [csCount EXCEPT !.changes = @ + 1] => csCount' \in StoreCounts
           /\ csCount' = [csCount EXCEPT !.changes = @ + 1, !.faults = @ + 1] => csCount' \in StoreCounts
<1>1. StoreFault => csCount' \in StoreCounts  BY DEF StoreCounts, StoreFault
<1>2. Calm => csCount' \in StoreCounts  BY DEF Calm
<1>3. csCount' = [csCount EXCEPT !.starts = @ + 1] => csCount' \in StoreCounts  BY DEF StoreCounts
<1>4. csCount' = [csCount EXCEPT !.changes = @ + 1] => csCount' \in StoreCounts  BY DEF StoreCounts
<1>5. csCount' = [csCount EXCEPT !.changes = @ + 1, !.faults = @ + 1] => csCount' \in StoreCounts
  <2>1. csCount.changes + 1 \in Nat /\ csCount.faults + 1 \in Nat  BY DEF StoreCounts
  <2> QED  BY <2>1, Zenon DEF StoreCounts
<1> QED  BY <1>1, <1>2, <1>3, <1>4, <1>5

(* What the actions of a proxy use of the invariant.                       *)
LEMMA InvOf ==
    ASSUME StoreInv, NEW p \in StoreProxies
    PROVE  /\ NodesTyped /\ csProxy[p] \in ProxyRecords /\ Listing(csProxy[p])
           /\ csCount \in StoreCounts
           /\ csProxy[p].at # "up" => p \notin csOp.before
BY DEF StoreInv, StoreTypes, StoreCounts, AllListing, Reaches, Up

\* The start of loadAllNamespace keeps the invariant.
LEMMA StartListingInv ==
    ASSUME StoreInv, NEW p \in StoreProxies, StartListing(p)
    PROVE  StoreInv'
<1> DEFINE r == [Down EXCEPT !.at = "loading", !.listed = ListNamespace, !.todo = ListNamespace,
                             !.worker = [w \in StoreWorkers |-> Free]]
<1>1. csNodes' = csNodes /\ csOp' = csOp /\ csProxy[p].at = "down" /\ SetProxy(p, r)
  BY DEF StartListing
<1>2. csCount' \in StoreCounts  BY InvOf, StepsCounted DEF StartListing
<1>3. NodesTyped /\ p \notin csOp'.before  BY <1>1, InvOf
<1>4. r \in ProxyRecords /\ Listing(r)  BY <1>3, ListedAreNames, StartListingIs, Zenon
<1>5. r.at = "loading"  BY DownIs DEF ProxyRecords
<1> HIDE DEF r
<1>6. NodesTyped' /\ OwnNodeOnly(p)  BY <1>1, <1>3, NodesStay, NodesTypedStay
<1>7. r.at # "up"  BY <1>5
<1> QED  BY <1>1, <1>2, <1>3, <1>4, <1>6, <1>7, OwnStep, Zenon

\* A worker that takes a name keeps the invariant.
LEMMA TakeNameInv ==
    ASSUME StoreInv, NEW p \in StoreProxies, NEW w \in StoreWorkers, TakeName(p, w)
    PROVE  StoreInv'
<1>1. PICK n \in csProxy[p].todo : SetProxy(p, [csProxy[p] EXCEPT !.todo = @ \ {n}, !.worker[w] = n])
  BY Zenon DEF TakeName
<1> DEFINE r == [csProxy[p] EXCEPT !.todo = @ \ {n}, !.worker[w] = n]
<1>2. /\ csNodes' = csNodes /\ csOp' = csOp /\ csCount' = csCount
      /\ csProxy[p].at = "loading" /\ csProxy[p].worker[w] = Free
  BY DEF TakeName
<1>3. /\ NodesTyped /\ csProxy[p] \in ProxyRecords /\ Listing(csProxy[p]) /\ csCount' \in StoreCounts
      /\ p \notin csOp'.before
  BY <1>2, InvOf
<1>4. r \in ProxyRecords /\ Listing(r)  BY <1>2, <1>3, TakeNameIs, Zenon
<1>5. r.at # "up"  BY <1>2, <1>3 DEF ProxyRecords
<1>6. SetProxy(p, r)  BY <1>1
<1> HIDE DEF r
<1>7. NodesTyped' /\ OwnNodeOnly(p)  BY <1>2, <1>3, NodesStay, NodesTypedStay
<1> QED  BY <1>2, <1>3, <1>4, <1>5, <1>6, <1>7, OwnStep, Zenon

\* A worker that fails keeps the invariant.
LEMMA LoadFailsInv ==
    ASSUME StoreInv, NEW p \in StoreProxies, NEW w \in StoreWorkers, LoadFails(p, w)
    PROVE  StoreInv'
<1> DEFINE r == [csProxy[p] EXCEPT !.err = TRUE, !.worker[w] = Gone]
<1>1. /\ csNodes' = csNodes /\ csOp' = csOp /\ (Calm \/ StoreFault) /\ SetProxy(p, r)
      /\ csProxy[p].worker[w] \in StoreNames
  BY DEF LoadFails
<1>2. NodesTyped /\ csProxy[p] \in ProxyRecords /\ Listing(csProxy[p]) /\ csCount \in StoreCounts  BY InvOf
<1>3. r \in ProxyRecords /\ Listing(r) /\ r.at = "loading" /\ csProxy[p].at = "loading"
  BY <1>1, <1>2, LoadFailsIs, Zenon
<1> HIDE DEF r
<1>4. csCount' \in StoreCounts /\ p \notin csOp'.before /\ r.at # "up"  BY <1>1, <1>2, <1>3, InvOf, StepsCounted
<1>5. NodesTyped' /\ OwnNodeOnly(p)  BY <1>1, <1>2, NodesStay, NodesTypedStay
<1> QED  BY <1>1, <1>3, <1>4, <1>5, OwnStep, Zenon

\* A worker that loads a namespace keeps the invariant.
LEMMA LoadSucceedsInv ==
    ASSUME StoreInv, NEW p \in StoreProxies, NEW w \in StoreWorkers, LoadSucceeds(p, w)
    PROVE  StoreInv'
<1> DEFINE n == csProxy[p].worker[w]
           v == csNodes[NamespacePath(n)]
           r == [csProxy[p] EXCEPT !.serves = Update(@, csProxy[p].worker[w], v), !.worker[w] = Free]
<1>1. /\ csNodes' = csNodes /\ csOp' = csOp /\ csCount' = csCount /\ SetProxy(p, r)
      /\ n \in StoreNames /\ Read(csNodes, NamespacePath(n)) # Missing
  BY DEF LoadSucceeds
<1>2. NodesTyped /\ csProxy[p] \in ProxyRecords /\ Listing(csProxy[p]) /\ csCount \in StoreCounts  BY InvOf
<1>3. v \in Nat  BY <1>1, <1>2 DEF NodesTyped, Read
<1> HIDE DEF v
<1>4. r \in ProxyRecords /\ Listing(r) /\ r.at = "loading" /\ csProxy[p].at = "loading"
  BY <1>1, <1>2, <1>3, LoadSucceedsIs, Zenon
<1> HIDE DEF r
<1>5. csCount' \in StoreCounts /\ p \notin csOp'.before /\ r.at # "up"  BY <1>1, <1>2, <1>4, InvOf, Zenon
<1>6. NodesTyped' /\ OwnNodeOnly(p)  BY <1>1, <1>2, NodesStay, NodesTypedStay
<1> QED  BY <1>1, <1>4, <1>5, <1>6, OwnStep, Zenon

\* The end of loadAllNamespace keeps the invariant.
LEMMA LoadedInv ==
    ASSUME StoreInv, NEW p \in StoreProxies, Loaded(p)
    PROVE  StoreInv'
<1> DEFINE t == [csProxy[p] EXCEPT !.at = "created", !.worker = [w \in StoreWorkers |-> Gone]]
           r == IF csProxy[p].err THEN Down ELSE t
<1>1. /\ csNodes' = csNodes /\ csOp' = csOp /\ csCount' = csCount /\ SetProxy(p, r)
      /\ csProxy[p].at = "loading" /\ csProxy[p].todo = {}
      /\ \A w \in StoreWorkers : csProxy[p].worker[w] \notin StoreNames
  BY DEF Loaded, AllDispatched
<1>2. NodesTyped /\ csProxy[p] \in ProxyRecords /\ Listing(csProxy[p]) /\ csCount \in StoreCounts  BY InvOf
<1>3. r \in ProxyRecords /\ Listing(r)  BY <1>1, <1>2, DownIs, LoadedIs, Zenon
<1>4. r.at # "up"  BY <1>2 DEF ProxyRecords, Down
<1> HIDE DEF r
<1>5. csCount' \in StoreCounts /\ p \notin csOp'.before  BY <1>1, <1>2, InvOf
<1>6. NodesTyped' /\ OwnNodeOnly(p)  BY <1>1, <1>2, NodesStay, NodesTypedStay, Zenon
<1> QED  BY <1>1, <1>3, <1>4, <1>5, <1>6, OwnStep, Zenon

(* Entering and leaving the store is no change of a namespace.             *)
LEMMA NodeOfProxy ==
    ASSUME NodesTyped, NEW p \in StoreProxies
    PROVE  /\ csNodes' = registerProxy(p) => NodesTyped' /\ OwnNodeOnly(p) /\ ProxyPath(p) \in DOMAIN csNodes'
           /\ csNodes' = unregisterProxy(p) => NodesTyped' /\ OwnNodeOnly(p)
<1>1. ProxyPath(p) \in Paths  BY DEF Paths
<1>2. \A q \in StoreProxies \ {p} : ProxyPath(q) # ProxyPath(p)  BY DEF ProxyPath
<1>3. \A n : NamespacePath(n) # ProxyPath(p)  BY PathsApart
<1>4. ASSUME csNodes' = registerProxy(p)
      PROVE  NodesTyped' /\ OwnNodeOnly(p) /\ ProxyPath(p) \in DOMAIN csNodes'
  <2>1. csNodes' = Update(csNodes, ProxyPath(p), 1)  BY <1>4 DEF registerProxy, CreateProxy
  <2>2. NodesTyped'  BY <1>1, <2>1, NodesUpdate
  <2> QED  BY <1>2, <1>3, <2>1, <2>2, ReadUpdate DEF OwnNodeOnly
<1>5. ASSUME csNodes' = unregisterProxy(p)
      PROVE  NodesTyped' /\ OwnNodeOnly(p)
  <2>1. csNodes' = ClientDelete(csNodes, ProxyPath(p))  BY <1>5 DEF unregisterProxy, DeleteProxy
  <2>2. NodesTyped'  BY <2>1, NodesDelete
  <2> QED  BY <1>2, <1>3, <2>1, <2>2, ReadDelete DEF OwnNodeOnly
<1> QED  BY <1>4, <1>5

\* Registration enters the node of a proxy before it is up (registerProxy).
LEMMA NewAdminServerInv ==
    ASSUME StoreInv, NEW p \in StoreProxies, NewAdminServer(p)
    PROVE  StoreInv'
<1> DEFINE t == [csProxy[p] EXCEPT !.at = "up"]
<1>1. /\ csOp' = csOp /\ csProxy[p].at = "created"
      /\ \/ csNodes' = registerProxy(p) /\ SetProxy(p, t) /\ Calm
         \/ StoreFault /\ SetProxy(p, Down) /\ csNodes' = unregisterProxy(p)
  BY DEF NewAdminServer
<1>2. NodesTyped /\ csProxy[p] \in ProxyRecords /\ Listing(csProxy[p]) /\ csCount \in StoreCounts  BY InvOf
<1>3. p \notin csOp'.before /\ csCount' \in StoreCounts  BY <1>1, <1>2, InvOf, StepsCounted
<1>4. t \in ProxyRecords /\ t.at = "up" /\ t.worker = csProxy[p].worker  BY <1>2 DEF ProxyRecords
<1> HIDE DEF t
<1>5. Listing(t)  BY <1>1, <1>2, <1>4, UpIs, Zenon
<1>6. CASE csNodes' = registerProxy(p) /\ SetProxy(p, t)
  <2>1. NodesTyped' /\ OwnNodeOnly(p) /\ ProxyPath(p) \in DOMAIN csNodes'  BY <1>2, <1>6, NodeOfProxy
  <2> QED  BY <2>1, <1>1, <1>3, <1>4, <1>5, <1>6, OwnStep, Zenon
<1>7. CASE SetProxy(p, Down) /\ csNodes' = unregisterProxy(p)
  <2>1. NodesTyped' /\ OwnNodeOnly(p)  BY <1>2, <1>7, NodeOfProxy
  <2>2. Down.at # "up"  BY DEF Down
  <2> QED  BY <2>1, <2>2, <1>1, <1>3, <1>7, DownIs, OwnStep, Zenon
<1> QED  BY <1>1, <1>6, <1>7

\* A proxy that closes or crashes no longer counts as one that a change must reach.
LEMMA EndsInv ==
    ASSUME StoreInv, NEW p \in StoreProxies, Close(p) \/ Crash(p)
    PROVE  StoreInv'
<1>1. /\ SetProxy(p, Down) /\ Leaves(p) /\ (Calm \/ StoreFault)
      /\ csNodes' = unregisterProxy(p) \/ csNodes' = csNodes
  BY DEF Close, Crash
<1>2. NodesTyped /\ csCount \in StoreCounts  BY InvOf, Zenon
<1>3. csCount' \in StoreCounts  BY <1>1, <1>2, StepsCounted
<1>4. NodesTyped' /\ OwnNodeOnly(p)  BY <1>1, <1>2, NodeOfProxy, NodesStay, NodesTypedStay
<1>5. csOp \in OpRecords  BY DEF StoreInv, StoreTypes
<1>6. p \notin csOp'.before  BY <1>1, <1>5 DEF Leaves, OpRecords
<1>7. Down.at # "up"  BY DEF Down
<1> QED  BY <1>1, <1>3, <1>4, <1>6, <1>7, DownIs, OwnStep, Zenon

-----------------------------------------------------------------------------
(* A request or a call that fails ends the change with an error.           *)
LEMMA FailReaches ==
    ASSUME csOp \in OpRecords, csOp.before \subseteq Up', FailOp
    PROVE  csOp' \in OpRecords /\ csOp'.at = "idle" /\ Reaches'
<1>1. csOp' = [csOp EXCEPT !.at = "idle", !.left = {}, !.found = {}, !.out = "error"]  BY DEF FailOp, End
<1>2. csOp' \in OpRecords  BY <1>1, Zenon DEF OpRecords
<1>3. csOp'.at = "idle" /\ csOp'.out = "error" /\ csOp'.before = csOp.before  BY <1>1 DEF OpRecords
<1> QED  BY <1>2, <1>3, Zenon DEF Reaches, ChangeReaches

(* What the steps of the change use of the invariant.                      *)
LEMMA InvOfChange ==
    ASSUME StoreInv
    PROVE  /\ csOp \in OpRecords /\ csOp.before \subseteq Up /\ Up \subseteq StoreProxies
           /\ csOp.at # "idle" => csOp.name \in StoreNames /\ csOp.kind \in {"modify", "delete"}
           /\ NodesTyped /\ csProxy \in [StoreProxies -> ProxyRecords] /\ csCount \in StoreCounts
           /\ AllListing /\ Entered /\ Reaches
BY Zenon DEF StoreInv, StoreTypes, Reaches, Up, StoreCounts

(* A step that leaves the store and the proxies alone.                     *)
LEMMA ChangeStep ==
    ASSUME StoreInv, csNodes' = csNodes, csProxy' = csProxy, csCount' \in StoreCounts,
           csOp' \in OpRecords,
           csOp'.at # "idle" => csOp'.name \in StoreNames /\ csOp'.kind \in {"modify", "delete"},
           Reaches'
    PROVE  StoreInv'
<1>1. NodesTyped'  BY InvOfChange, NodesTypedStay
<1>2. AllListing'  BY InvOfChange DEF AllListing
<1>3. Entered'  BY InvOfChange DEF Entered, Up
<1>4. StoreTypes'  BY <1>1, InvOfChange DEF StoreTypes, StoreCounts
<1> QED  BY <1>2, <1>3, <1>4 DEF StoreInv

\* The control centre lists the nodes of the proxies: all that are up are there.
LEMMA ListProxiesInv == ASSUME StoreInv, ListProxies PROVE StoreInv'
<1> DEFINE L == List(csNodes, "proxy")
<1>1. /\ csNodes' = csNodes /\ csProxy' = csProxy /\ csOp.at = "stored"
      /\ (csOp' = [csOp EXCEPT !.at = "reading", !.left = L] /\ Calm) \/ (StoreFault /\ FailOp)
  BY DEF ListProxies
<1>2. csCount' \in StoreCounts  BY <1>1, InvOfChange, StepsCounted
<1>3. Up' = Up  BY <1>1 DEF Up
<1>4. CASE FailOp
  BY <1>1, <1>2, <1>3, <1>4, InvOfChange, FailReaches, ChangeStep, Zenon
<1>5. CASE csOp' = [csOp EXCEPT !.at = "reading", !.left = L]
  <2>1. L \in SUBSET StoreProxies  BY InvOfChange, ListedAreNames
  <2>2. \A p \in Up : p \in L
    <3> TAKE p \in Up
    <3>1. <<"proxy", p>> \in DOMAIN csNodes  BY InvOfChange DEF Entered, ProxyPath
    <3>2. <<"proxy", p>>[1] = "proxy" /\ <<"proxy", p>>[2] = p  OBVIOUS
    <3> QED  BY <3>1, <3>2 DEF List
  <2> HIDE DEF L
  <2>3. csOp \in OpRecords  BY InvOfChange
  <2>4. csOp' \in OpRecords  BY <1>5, <2>1, <2>3, Zenon DEF OpRecords
  <2>5. /\ csOp'.at = "reading" /\ csOp'.left = L /\ csOp'.before = csOp.before
        /\ csOp'.name = csOp.name /\ csOp'.kind = csOp.kind
    BY <1>5, <2>3 DEF OpRecords
  <2>6. Stored' = Stored  BY <1>1, <2>5 DEF Stored, NamespacePath
  <2>7. csOp.kind = "delete" => Stored = Missing  BY <1>1, InvOfChange DEF Reaches
  <2>8. csOp'.before \subseteq Up' /\ csOp'.before \subseteq L  BY <1>3, <2>2, <2>5, InvOfChange
  <2>9. Reaches'  BY <2>5, <2>6, <2>7, <2>8, Zenon DEF Reaches, ChangeReaches, Missing
  <2>10. csOp.name \in StoreNames /\ csOp.kind \in {"modify", "delete"}  BY <1>1, InvOfChange
  <2> QED  BY <1>1, <1>2, <2>4, <2>5, <2>9, <2>10, ChangeStep
<1> QED  BY <1>1, <1>4, <1>5

\* The control centre reads a proxy that it has listed; one that is gone ends the change.
LEMMA ReadProxyInv == ASSUME StoreInv, NEW p \in StoreProxies, ReadProxy(p) PROVE StoreInv'
<1>1. /\ csNodes' = csNodes /\ csProxy' = csProxy /\ csCount' = csCount /\ csOp.at = "reading"
      /\ FailOp \/ csOp' = [csOp EXCEPT !.left = csOp.left \ {p}, !.found = csOp.found \union {p}]
  BY DEF ReadProxy
<1>2. csCount' \in StoreCounts  BY <1>1, InvOfChange
<1>3. Up' = Up  BY <1>1 DEF Up
<1>4. CASE FailOp
  BY <1>1, <1>2, <1>3, <1>4, InvOfChange, FailReaches, ChangeStep, Zenon
<1>5. CASE csOp' = [csOp EXCEPT !.left = csOp.left \ {p}, !.found = csOp.found \union {p}]
  <2>1. csOp \in OpRecords  BY InvOfChange
  <2>2. csOp' \in OpRecords
    <3>1. csOp.left \ {p} \in SUBSET StoreProxies /\ csOp.found \union {p} \in SUBSET StoreProxies
      BY <2>1 DEF OpRecords
    <3> QED  BY <1>5, <2>1, <3>1, Zenon DEF OpRecords
  <2>3. /\ csOp'.at = csOp.at /\ csOp'.before = csOp.before /\ csOp'.name = csOp.name /\ csOp'.kind = csOp.kind
        /\ csOp'.left = csOp.left \ {p} /\ csOp'.found = csOp.found \union {p}
    BY <1>5, <2>1 DEF OpRecords
  <2>4. Stored' = Stored  BY <1>1, <2>3 DEF Stored, NamespacePath
  <2>5. /\ csOp.kind = "delete" => Stored = Missing
        /\ csOp.before \subseteq csOp.left \cup csOp.found /\ csOp.before \subseteq Up
    BY <1>1, InvOfChange DEF Reaches
  <2>6. Reaches'  BY <1>1, <1>3, <2>3, <2>4, <2>5 DEF Reaches, ChangeReaches, Missing
  <2>7. csOp.name \in StoreNames /\ csOp.kind \in {"modify", "delete"}  BY <1>1, InvOfChange
  <2> QED  BY <1>1, <1>2, <2>2, <2>3, <2>6, <2>7, ChangeStep
<1> QED  BY <1>1, <1>4, <1>5

\* A call that is not answered ends the change with an error.
LEMMA CallUnansweredInv == ASSUME StoreInv, NEW p \in StoreProxies, CallUnanswered(p) PROVE StoreInv'
<1>1. csNodes' = csNodes /\ csProxy' = csProxy /\ csCount' = csCount /\ FailOp  BY DEF CallUnanswered
<1>2. csCount' \in StoreCounts  BY <1>1, InvOfChange
<1>3. Up' = Up  BY <1>1 DEF Up
<1> QED  BY <1>1, <1>2, <1>3, InvOfChange, FailReaches, ChangeStep, Zenon

\* A phase ends when all proxies found have been called: the next one starts, or the
\* change is done.
LEMMA CallAllInv == ASSUME StoreInv, CallAll PROVE StoreInv'
<1>1. /\ csNodes' = csNodes /\ csProxy' = csProxy /\ csCount' = csCount /\ csOp.left = {}
      /\ \/ csOp.at = "reading" /\ Phase(IF csOp.kind = "modify" THEN "prepare" ELSE "delete")
         \/ csOp.at = "prepare" /\ Phase("commit")
         \/ csOp.at \in {"commit", "delete"} /\ csOp' = End("ok")
  BY DEF CallAll
<1>2. csCount' \in StoreCounts  BY <1>1, InvOfChange
<1>3. Up' = Up  BY <1>1 DEF Up
<1>4. csOp \in OpRecords /\ csOp.before \subseteq Up /\ Reaches  BY InvOfChange
<1>5. /\ csOp.name \in StoreNames /\ csOp.kind \in {"modify", "delete"}
      /\ csOp.kind = "delete" => Stored = Missing
  BY <1>1, <1>4, InvOfChange, Zenon DEF Reaches
<1>6. ASSUME NEW at \in {"prepare", "commit", "delete"}, Phase(at),
             csOp.before \subseteq csOp.found,
             at = "commit" => \A p \in csOp.before : ReadyStored(p),
             at = "delete" => csOp.kind = "delete"
      PROVE  StoreInv'
  <2>1. csOp' = [csOp EXCEPT !.at = at, !.left = csOp.found]  BY <1>6 DEF Phase
  <2>2. csOp' \in OpRecords
    <3>1. at \in {"idle", "stored", "reading", "prepare", "commit", "delete"}  OBVIOUS
    <3> QED  BY <1>4, <2>1, <3>1, Zenon DEF OpRecords
  <2>3. /\ csOp'.at = at /\ csOp'.before = csOp.before /\ csOp'.name = csOp.name /\ csOp'.kind = csOp.kind
        /\ csOp'.left = csOp.found /\ csOp'.found = csOp.found
    BY <1>4, <2>1 DEF OpRecords
  <2>4. Stored' = Stored  BY <1>1, <2>3, Zenon DEF Stored, NamespacePath
  <2>5. \A p \in csOp.before : ReadyStored(p) => ReadyStored(p)'
    BY <1>1, <2>3, <2>4, Zenon DEF ReadyStored
  <2>6. Reaches'
    BY <1>3, <1>4, <1>5, <1>6, <2>3, <2>4, <2>5, Zenon DEF Reaches, ChangeReaches, Missing
  <2> QED  BY <1>1, <1>2, <1>5, <2>2, <2>3, <2>6, ChangeStep, Zenon
<1>7. CASE csOp.at = "reading" /\ Phase(IF csOp.kind = "modify" THEN "prepare" ELSE "delete")
  <2>1. csOp.before \subseteq csOp.found  BY <1>1, <1>4, <1>7, Zenon DEF Reaches
  <2>2. CASE csOp.kind = "modify"  BY <1>6, <1>7, <2>1, <2>2
  <2>3. CASE csOp.kind = "delete"  BY <1>6, <1>7, <2>1, <2>3
  <2> QED  BY <1>5, <2>2, <2>3
<1>8. CASE csOp.at = "prepare" /\ Phase("commit")
  <2>1. csOp.before \subseteq csOp.found /\ \A p \in csOp.before : ReadyStored(p)
    BY <1>1, <1>4, <1>8 DEF Reaches
  <2> QED  BY <1>6, <1>8, <2>1
<1>9. CASE csOp.at \in {"commit", "delete"} /\ csOp' = End("ok")
  <2>1. csOp' = [csOp EXCEPT !.at = "idle", !.left = {}, !.found = {}, !.out = "ok"]  BY <1>9 DEF End
  <2>2. csOp' \in OpRecords  BY <1>4, <2>1, Zenon DEF OpRecords
  <2>3. csOp'.at = "idle" /\ csOp'.before = csOp.before /\ csOp'.name = csOp.name
    BY <1>4, <2>1 DEF OpRecords
  <2>4. \A p \in csOp.before : ServesStored(p)  BY <1>1, <1>4, <1>9 DEF Reaches
  <2>5. Stored' = Stored  BY <1>1, <2>3 DEF Stored, NamespacePath
  <2>6. \A p \in csOp'.before : ServesStored(p)'  BY <1>1, <2>3, <2>4, <2>5 DEF ServesStored
  <2>7. ChangeReaches'  BY <2>6 DEF ChangeReaches, ServesStored, Stored
  <2>8. Reaches'  BY <1>3, <1>4, <2>3, <2>7, Zenon DEF Reaches
  <2> QED  BY <1>1, <1>2, <2>2, <2>3, <2>8, ChangeStep
<1> QED  BY <1>1, <1>7, <1>8, <1>9

(* The first request of a change; only a namespace's node changes.         *)
LEMMA BeginChangeInv ==
    ASSUME StoreInv, NEW kind \in {"modify", "delete"}, NEW n \in StoreNames, NEW nodes,
           csNodes' = nodes => NodesTyped',
           \A p : ProxyPath(p) \in DOMAIN csNodes => ProxyPath(p) \in DOMAIN nodes,
           kind = "delete" => Read(nodes, NamespacePath(n)) = Missing,
           BeginChange(kind, n, nodes)
    PROVE  StoreInv'
<1> DEFINE op == [StoreIdle EXCEPT !.at = "stored", !.kind = kind, !.name = n, !.before = Up]
<1>1. /\ csProxy' = csProxy /\ csOp.at = "idle"
      /\ \/ /\ csNodes' = nodes /\ csOp' = op /\ csCount' = [csCount EXCEPT !.changes = @ + 1]
         \/ /\ csCount' = [csCount EXCEPT !.changes = @ + 1, !.faults = @ + 1]
            /\ csNodes' \in {csNodes, nodes}
            /\ csOp' = [op EXCEPT !.at = "idle", !.out = "error"]
  BY DEF BeginChange
<1>2. csCount' \in StoreCounts  BY <1>1, InvOfChange, StepsCounted
<1>3. Up' = Up /\ Up \in SUBSET StoreProxies  BY <1>1, InvOfChange DEF Up
<1>4. NodesTyped' /\ \A p : ProxyPath(p) \in DOMAIN csNodes => ProxyPath(p) \in DOMAIN csNodes'
  BY <1>1, InvOfChange, NodesTypedStay
<1>5. Entered'  BY <1>3, <1>4, InvOfChange, Zenon DEF Entered, ProxyPath
<1>6. AllListing'  BY <1>1, InvOfChange DEF AllListing
<1>7. StoreIdle \in OpRecords  BY Zenon DEF StoreIdle, OpRecords
<1>8. op \in OpRecords
  <2>1. kind \in {"none", "modify", "delete"} /\ n \in StoreNames \cup {"none"}  OBVIOUS
  <2> QED  BY <1>3, <1>7, <2>1, Zenon DEF OpRecords
<1>9. op.at = "stored" /\ op.kind = kind /\ op.name = n /\ op.before = Up  BY <1>7 DEF OpRecords
<1> HIDE DEF op
<1>10. CASE csNodes' = nodes /\ csOp' = op
  <2>1. Stored' = Read(nodes, NamespacePath(n))  BY <1>9, <1>10, Zenon DEF Stored, NamespacePath
  <2>2. Reaches'  BY <1>3, <1>9, <1>10, <2>1, Zenon DEF Reaches, ChangeReaches, Missing
  <2>3. StoreTypes'  BY <1>1, <1>2, <1>4, <1>8, <1>9, <1>10, InvOfChange DEF StoreTypes, StoreCounts
  <2> QED  BY <1>5, <1>6, <2>2, <2>3 DEF StoreInv
<1>11. CASE csOp' = [op EXCEPT !.at = "idle", !.out = "error"]
  <2>1. csOp' \in OpRecords  BY <1>8, <1>11, Zenon DEF OpRecords
  <2>2. csOp'.at = "idle" /\ csOp'.out = "error" /\ csOp'.before = Up  BY <1>8, <1>9, <1>11 DEF OpRecords
  <2>3. Reaches'  BY <1>3, <2>2, Zenon DEF Reaches, ChangeReaches
  <2>4. StoreTypes'  BY <1>1, <1>2, <1>4, <2>1, <2>2, InvOfChange DEF StoreTypes, StoreCounts
  <2> QED  BY <1>5, <1>6, <2>3, <2>4 DEF StoreInv
<1> QED  BY <1>1, <1>10, <1>11

\* ModifyNamespace and DelNamespace write the store; no proxy has been called yet.
LEMMA ChangesInv ==
    ASSUME StoreInv, NEW n \in StoreNames, ModifyNamespace(n) \/ RemoveNamespace(n)
    PROVE  StoreInv'
<1>1. NamespacePath(n) \in Paths /\ \A p : ProxyPath(p) # NamespacePath(n)
  BY PathsApart DEF Paths
<1>2. NodesTyped /\ csCount.changes \in Nat  BY InvOfChange DEF StoreCounts
<1>3. CASE ModifyNamespace(n)
  <2> DEFINE v == 2 + csCount.changes
             nodes == UpdateNamespace(n, v)
  <2>1. BeginChange("modify", n, nodes)  BY <1>3 DEF ModifyNamespace
  <2>2. v \in Nat  BY <1>2
  <2>3. nodes = Update(csNodes, NamespacePath(n), v)  BY DEF UpdateNamespace
  <2> HIDE DEF v, nodes
  <2>4. csNodes' = nodes => NodesTyped'  BY <1>1, <1>2, <2>2, <2>3, NodesUpdate
  <2>5. \A p : ProxyPath(p) \in DOMAIN csNodes => ProxyPath(p) \in DOMAIN nodes
    BY <1>1, <2>3, ReadUpdate
  <2> QED  BY <2>1, <2>4, <2>5, BeginChangeInv, Zenon
<1>4. CASE RemoveNamespace(n)
  <2> DEFINE nodes == DelNamespace(n)
  <2>1. BeginChange("delete", n, nodes)  BY <1>4 DEF RemoveNamespace
  <2>2. nodes = ClientDelete(csNodes, NamespacePath(n))  BY DEF DelNamespace
  <2> HIDE DEF nodes
  <2>3. csNodes' = nodes => NodesTyped'  BY <1>2, <2>2, NodesDelete
  <2>4. /\ \A p : ProxyPath(p) \in DOMAIN csNodes => ProxyPath(p) \in DOMAIN nodes
        /\ Read(nodes, NamespacePath(n)) = Missing
    BY <1>1, <2>2, ReadDelete
  <2> QED  BY <2>1, <2>3, <2>4, BeginChangeInv, Zenon
<1> QED  BY <1>3, <1>4

(* A call that sets the record of a proxy that is up, and after which the  *)
(* proxy has the change prepared or in service.                            *)
LEMMA CallStep ==
    ASSUME StoreInv, NEW p \in Up, NEW t \in ProxyRecords, t.at = "up", t.worker = csProxy[p].worker,
           SetProxy(p, t), csNodes' = csNodes, CallDone(p), csOp.at \in {"prepare", "commit", "delete"},
           csOp.at = "prepare" => Read(t.ready, csOp.name) = Stored,
           csOp.at \in {"commit", "delete"} /\ p \in csOp.before => Read(t.serves, csOp.name) = Stored
    PROVE  StoreInv'
<1>1. p \in StoreProxies /\ csProxy[p].at = "up"  BY Zenon DEF Up
<1>2. /\ csOp \in OpRecords /\ csOp.before \subseteq Up /\ Up \subseteq StoreProxies
      /\ csOp.name \in StoreNames /\ csOp.kind \in {"modify", "delete"}
      /\ NodesTyped /\ csProxy \in [StoreProxies -> ProxyRecords] /\ csCount \in StoreCounts
      /\ AllListing /\ Entered /\ Reaches
  BY InvOfChange, Zenon
<1>3. Listing(csProxy[p])  BY <1>1, <1>2, Zenon DEF AllListing
<1>4. Listing(t)  BY <1>1, <1>3, UpIs, Zenon
<1>5. /\ csProxy' \in [StoreProxies -> ProxyRecords] /\ AllListing'
      /\ csProxy'[p] = t /\ \A q \in StoreProxies \ {p} : csProxy'[q] = csProxy[q]
  BY <1>1, <1>2, <1>4, SetOne, Zenon
<1>6. Up' = Up  BY <1>1, <1>5, Zenon DEF Up
<1>7. Entered'  BY <1>2, <1>6, Zenon DEF Entered, ProxyPath
<1>8. NodesTyped'  BY <1>2, NodesTypedStay, Zenon
<1>9. csCount' \in StoreCounts  BY <1>2, StepsCounted DEF CallDone
<1>10. csOp.before \subseteq Up'  BY <1>2, <1>6, Zenon
<1>11. CASE FailOp
  <2>1. csOp' \in OpRecords /\ csOp'.at = "idle" /\ Reaches'  BY <1>2, <1>10, <1>11, FailReaches, Zenon
  <2>2. StoreTypes'  BY <1>5, <1>8, <1>9, <2>1, Zenon DEF StoreTypes, StoreCounts
  <2> QED  BY <1>5, <1>7, <2>1, <2>2, Zenon DEF StoreInv
<1>12. CASE Called(p)
  <2>1. csOp' = [csOp EXCEPT !.left = csOp.left \ {p}]  BY <1>12 DEF Called
  <2>2. csOp' \in OpRecords
    <3>1. csOp.left \ {p} \in SUBSET StoreProxies  BY <1>2, Zenon DEF OpRecords
    <3> QED  BY <1>2, <2>1, <3>1, Zenon DEF OpRecords
  <2>3. /\ csOp'.at = csOp.at /\ csOp'.before = csOp.before /\ csOp'.name = csOp.name /\ csOp'.kind = csOp.kind
        /\ csOp'.left = csOp.left \ {p} /\ csOp'.found = csOp.found
    BY <1>2, <2>1 DEF OpRecords
  <2>4. Stored' = Stored  BY <2>3, Zenon DEF Stored, NamespacePath
  <2>5. \A q \in csOp.before \ {p} :
          (ServesStored(q) => ServesStored(q)') /\ (ReadyStored(q) => ReadyStored(q)')
    BY <1>2, <1>5, <2>3, <2>4, Zenon DEF ServesStored, ReadyStored
  <2>6. /\ csOp.at = "prepare" => ReadyStored(p)'
        /\ csOp.at \in {"commit", "delete"} /\ p \in csOp.before => ServesStored(p)'
    BY <1>5, <2>3, <2>4, Zenon DEF ServesStored, ReadyStored
  <2>7. csOp'.at = "prepare" => \A q \in csOp'.before \ csOp'.left : ReadyStored(q)'
    BY <1>2, <2>3, <2>5, <2>6, Zenon DEF Reaches
  <2>8. csOp'.at = "commit" => \A q \in csOp'.before \cap csOp'.left : ReadyStored(q)'
    BY <1>2, <2>3, <2>5, Zenon DEF Reaches
  <2>9. csOp'.at \in {"commit", "delete"} => \A q \in csOp'.before \ csOp'.left : ServesStored(q)'
    BY <1>2, <2>3, <2>5, <2>6, Zenon DEF Reaches
  <2>10. /\ csOp'.at \in {"prepare", "commit", "delete"} /\ csOp'.before \subseteq csOp'.found
         /\ csOp'.at = "delete" => csOp'.kind = "delete"
         /\ csOp'.kind = "delete" => Stored' = Missing
    BY <1>2, <2>3, <2>4, Zenon DEF Reaches
  <2>11. Reaches'  BY <1>10, <2>3, <2>7, <2>8, <2>9, <2>10, Zenon DEF Reaches, ChangeReaches, Missing
  <2>12. StoreTypes'  BY <1>2, <1>5, <1>8, <1>9, <2>2, <2>3, Zenon DEF StoreTypes, StoreCounts
  <2> QED  BY <1>5, <1>7, <2>11, <2>12, Zenon DEF StoreInv
<1> QED  BY <1>11, <1>12, Zenon DEF CallDone

(* A call that changes nothing and ends the change.                        *)
LEMMA CallFails ==
    ASSUME StoreInv, FailOp, Calm, csProxy' = csProxy, csNodes' = csNodes
    PROVE  StoreInv'
<1>1. csCount' \in StoreCounts /\ Up' = Up  BY InvOfChange, StepsCounted DEF Up
<1> QED  BY <1>1, InvOfChange, FailReaches, ChangeStep, Zenon

\* A proxy that is called prepares, commits or deletes what the store has.
LEMMA CallsInv ==
    ASSUME StoreInv, NEW p \in StoreProxies, Prepare(p) \/ Commit(p) \/ DeleteServed(p)
    PROVE  StoreInv'
<1> DEFINE r == csProxy[p]
           v == Read(csNodes, NamespacePath(csOp.name))
<1>1. p \in Up /\ csNodes' = csNodes /\ p \in csOp.left  BY DEF Prepare, Commit, DeleteServed
<1>2. r \in ProxyRecords /\ r.at = "up"  BY <1>1, InvOfChange DEF Up
<1>3. r.serves \in Versions /\ r.ready \in Versions /\ Down.ready \in Versions
  BY <1>2, NoVersions, Zenon DEF ProxyRecords, Down
<1>4. CASE Prepare(p)
  <2> DEFINE f == Update(r.serves, csOp.name, v)
             t == [r EXCEPT !.ready = f]
  <2>1. /\ csOp.at = "prepare"
        /\ \/ FailOp /\ Calm /\ csProxy' = csProxy
           \/ v # Missing /\ SetProxy(p, t) /\ CallDone(p)
    BY <1>4 DEF Prepare
  <2>2. CASE v # Missing /\ SetProxy(p, t) /\ CallDone(p)
    <3>1. v \in Nat  BY <2>2, InvOfChange DEF NodesTyped, Read
    <3>2. csOp.name \in StoreNames  BY <2>1, InvOfChange
    <3>3. f \in Versions /\ Read(f, csOp.name) = v
      <4> HIDE DEF v
      <4>1. f \in Versions  BY <1>3, <3>1, <3>2, UpdateVersions, Zenon
      <4>2. Read(f, csOp.name) = v  BY DEF Read, Update
      <4> QED  BY <4>1, <4>2
    <3> HIDE DEF f
    <3>4. t \in ProxyRecords /\ t.at = "up" /\ t.worker = r.worker /\ t.ready = f
      BY <1>2, <3>3 DEF ProxyRecords
    <3> HIDE DEF t
    <3>5. Read(t.ready, csOp.name) = Stored  BY <3>3, <3>4, Zenon DEF Stored
    <3> QED  BY <1>1, <2>1, <2>2, <3>4, <3>5, CallStep, Zenon
  <2> QED  BY <1>1, <2>1, <2>2, CallFails
<1>5. CASE Commit(p)
  <2> DEFINE t == [r EXCEPT !.serves = r.ready, !.ready = Down.ready]
  <2>1. /\ csOp.at = "commit"
        /\ \/ FailOp /\ Calm /\ csProxy' = csProxy
           \/ SetProxy(p, t) /\ CallDone(p)
    BY <1>5 DEF Commit
  <2>2. CASE SetProxy(p, t) /\ CallDone(p)
    <3>1. t \in ProxyRecords  BY <1>2, <1>3, Zenon DEF ProxyRecords
    <3>2. t.at = "up" /\ t.worker = r.worker /\ t.serves = r.ready  BY <1>2 DEF ProxyRecords
    <3> HIDE DEF t
    <3>3. p \in csOp.before => ReadyStored(p)  BY <1>1, <2>1, InvOfChange, Zenon DEF Reaches
    <3>4. p \in csOp.before => Read(t.serves, csOp.name) = Stored  BY <3>2, <3>3, Zenon DEF ReadyStored
    <3> QED  BY <1>1, <2>1, <2>2, <3>1, <3>2, <3>4, CallStep, Zenon
  <2> QED  BY <1>1, <2>1, <2>2, CallFails
<1>6. CASE DeleteServed(p)
  <2> DEFINE f == ClientDelete(r.serves, csOp.name)
             t == [r EXCEPT !.serves = f]
  <2>1. csOp.at = "delete" /\ SetProxy(p, t) /\ CallDone(p)  BY <1>6 DEF DeleteServed
  <2>2. f \in Versions /\ Read(f, csOp.name) = Missing  BY <1>3, DeleteVersions, ReadDelete, Zenon
  <2>3. Stored = Missing  BY <2>1, InvOfChange DEF Reaches
  <2> HIDE DEF f
  <2>4. t \in ProxyRecords /\ t.at = "up" /\ t.worker = r.worker /\ t.serves = f
    BY <1>2, <2>2 DEF ProxyRecords
  <2> HIDE DEF t
  <2> QED  BY <1>1, <2>1, <2>2, <2>3, <2>4, CallStep, Zenon
<1> QED  BY <1>4, <1>5, <1>6

-----------------------------------------------------------------------------
\* Every step of the store, the proxies and the control centre keeps the invariant.
LEMMA StoreNextInv == StoreInv /\ [StoreNext]_storeVars => StoreInv'
<1> SUFFICES ASSUME StoreInv, [StoreNext]_storeVars PROVE StoreInv'
  OBVIOUS
<1>1. CASE UNCHANGED storeVars
  <2>1. csNodes' = csNodes /\ csProxy' = csProxy /\ csOp' = csOp /\ csCount' = csCount
    BY <1>1 DEF storeVars
  <2>2. Reaches'
    BY <2>1, InvOfChange, Zenon DEF Reaches, ChangeReaches, ServesStored, ReadyStored, Stored, Up, NamespacePath
  <2> QED  BY <2>1, <2>2, InvOfChange, ChangeStep, Zenon
<1>2. ASSUME NEW p \in StoreProxies,
             \/ StartListing(p) \/ Loaded(p) \/ NewAdminServer(p) \/ Close(p) \/ Crash(p)
             \/ ReadProxy(p) \/ Prepare(p) \/ Commit(p) \/ DeleteServed(p) \/ CallUnanswered(p)
      PROVE  StoreInv'
  BY <1>2, StartListingInv, LoadedInv, NewAdminServerInv, EndsInv, ReadProxyInv, CallsInv,
     CallUnansweredInv
<1>3. ASSUME NEW p \in StoreProxies, NEW w \in StoreWorkers,
             TakeName(p, w) \/ LoadFails(p, w) \/ LoadSucceeds(p, w)
      PROVE  StoreInv'
  BY <1>3, TakeNameInv, LoadFailsInv, LoadSucceedsInv
<1>4. ASSUME NEW n \in StoreNames, ModifyNamespace(n) \/ RemoveNamespace(n) PROVE StoreInv'
  BY <1>4, ChangesInv
<1>5. CASE ListProxies \/ CallAll  BY <1>5, ListProxiesInv, CallAllInv
<1> QED  BY <1>1, <1>2, <1>3, <1>4, <1>5 DEF StoreNext

\* The invariant of the store holds in every behaviour.
LEMMA StoreInvariance == StoreSpec => []StoreInv
BY StoreInitInv, StoreNextInv, PTL DEF StoreSpec

\* ChangeReaches: a change that the control centre reports as done is in service on
\* every proxy that was up before it and still is, whatever proxies start, stop or
\* crash and whichever requests and calls fail, for any number of each.
THEOREM ChangeReachesProxies == StoreSpec => []ChangeReaches
<1>1. StoreInv => ChangeReaches  BY DEF StoreInv, Reaches
<1> QED  BY <1>1, StoreInvariance, PTL

\* StartComplete: loadAllNamespace gives a proxy every namespace it listed, or ends it,
\* however the workers share the names out.
THEOREM StartLoadsAll == StoreSpec => []StartComplete
<1>1. StoreInv => StartComplete  BY DEF StoreInv, AllListing, Listing, StartComplete
<1> QED  BY <1>1, StoreInvariance, PTL

=============================================================================
