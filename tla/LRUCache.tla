------------------------------ MODULE LRUCache ------------------------------
(***************************************************************************)
(* The least-recently-used cache that keeps SQL fingerprints               *)
(* (util/cache/lru_cache.go).  Every operation runs under the cache's      *)
(* mutex from start to end, so each one is a single action.                *)
(***************************************************************************)
EXTENDS Integers, Sequences, SequencesExt, FiniteSets

CONSTANTS Keys,         \* the keys asked for
          Sizes,        \* what Size() of a value may return
          Capacities,   \* the capacities set, none negative
          MaxUses       \* bound: uses of the cache

VARIABLES lruList,      \* lru.list, front first: the entries, key and size
          lruTable,     \* lru.table: the keys it maps to an element of the list
          lruSize,      \* lru.size
          lruCapacity,  \* lru.capacity
          lruEvictions, \* lru.evictions
          lruUsed,      \* history: when each key was used last
          lruClock      \* history: the uses so far

cacheVars == <<lruList, lruTable, lruSize, lruCapacity, lruEvictions, lruUsed, lruClock>>

CacheTypeOK ==
  /\ lruList \in Seq([key : Keys, size : Sizes])
  /\ lruTable \subseteq Keys
  /\ lruSize \in Int
  /\ lruCapacity \in Capacities
  /\ lruEvictions \in Nat

\* NewLRUCache
CacheInit ==
  /\ lruList = <<>> /\ lruTable = {} /\ lruSize = 0
  /\ lruCapacity \in Capacities
  /\ lruEvictions = 0
  /\ lruUsed = [k \in Keys |-> 0] /\ lruClock = 0

Used(k) ==
  /\ lruClock < MaxUses
  /\ lruClock' = lruClock + 1
  /\ lruUsed' = [lruUsed EXCEPT ![k] = lruClock + 1]

\* The element of the list that the table names for key k.
Element(k) == CHOOSE i \in DOMAIN lruList : lruList[i].key = k

moveToFront(list, i) == <<list[i]>> \o RemoveAt(list, i)

\* checkCapacity removes from the back; k elements go when that is what it
\* takes for the size to fit.
SizeOf(list) == FoldLeft(LAMBDA n, e : n + e.size, 0, list)

Evicted(list, size, capacity) ==
  CHOOSE k \in 0..Len(list) :
    LET After(n) == size - SizeOf(SubSeq(list, Len(list) - n + 1, Len(list)))
    IN  After(k) <= capacity /\ \A n \in 0..(k - 1) : After(n) > capacity

checkCapacity(list, table, size, capacity) ==
  LET k == Evicted(list, size, capacity)
      gone == SubSeq(list, Len(list) - k + 1, Len(list))
  IN  /\ lruList' = SubSeq(list, 1, Len(list) - k)
      /\ lruTable' = table \ {gone[i].key : i \in DOMAIN gone}
      /\ lruSize' = size - SizeOf(gone)
      /\ lruEvictions' = lruEvictions + k
      /\ lruCapacity' = capacity

updateInplace(k, size) ==
  LET i == Element(k)
  IN  checkCapacity(moveToFront([lruList EXCEPT ![i].size = size], i), lruTable,
                    lruSize + size - lruList[i].size, lruCapacity)

addNew(k, size) ==
  checkCapacity(<<[key |-> k, size |-> size]>> \o lruList, lruTable \cup {k}, lruSize + size, lruCapacity)

Touch(k) ==
  /\ lruList' = moveToFront(lruList, Element(k))
  /\ UNCHANGED <<lruTable, lruSize, lruCapacity, lruEvictions>>

\* Mutant: a hit does not move the entry to the front of the list.
GetStale(k) == k \in lruTable /\ Used(k) /\ UNCHANGED <<lruList, lruTable, lruSize, lruCapacity, lruEvictions>>

Get(k) == k \in lruTable /\ Used(k) /\ Touch(k)

\* A miss, Peek and the statistics leave the cache as it is.
Peek(k) == UNCHANGED cacheVars

CacheSet(k, size) ==
  /\ Used(k)
  /\ IF k \in lruTable THEN updateInplace(k, size) ELSE addNew(k, size)

SetIfAbsent(k, size) ==
  /\ Used(k)
  /\ IF k \in lruTable THEN Touch(k) ELSE addNew(k, size)

CacheDelete(k) ==
  /\ k \in lruTable
  /\ LET i == Element(k)
     IN  /\ lruList' = RemoveAt(lruList, i)
         /\ lruTable' = lruTable \ {k}
         /\ lruSize' = lruSize - lruList[i].size
  /\ UNCHANGED <<lruCapacity, lruEvictions, lruUsed, lruClock>>

Clear ==
  /\ lruList' = <<>> /\ lruTable' = {} /\ lruSize' = 0
  /\ UNCHANGED <<lruCapacity, lruEvictions, lruUsed, lruClock>>

CacheSetCapacity(c) ==
  /\ checkCapacity(lruList, lruTable, lruSize, c)
  /\ UNCHANGED <<lruUsed, lruClock>>

CacheNext ==
  \/ \E k \in Keys : Get(k) \/ Peek(k) \/ CacheDelete(k) \/ \E s \in Sizes : CacheSet(k, s) \/ SetIfAbsent(k, s)
  \/ Clear
  \/ \E c \in Capacities : CacheSetCapacity(c)

-----------------------------------------------------------------------------
\* The list, the table and the size tell the same story: an entry for every
\* key of the table and no other, sizes that add up to at most the capacity,
\* and the entries in the order of their last use, so that the next one to be
\* evicted is the least recently used.
CacheAgrees ==
  /\ {lruList[i].key : i \in DOMAIN lruList} = lruTable
  /\ Cardinality(lruTable) = Len(lruList)
  /\ lruSize = SizeOf(lruList) /\ lruSize <= lruCapacity
  /\ \A i, j \in DOMAIN lruList : i < j => lruUsed[lruList[i].key] > lruUsed[lruList[j].key]
=============================================================================
