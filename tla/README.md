# A verification project for dbproxy

dbproxy is a MySQL proxy written in Go. Clients speak the MySQL protocol to it; it
parses their statements, routes them to *slices* (a MySQL master with its replicas)
and merges the results. This directory holds TLA+ models of its parts, TLC
configurations that check them on small instances, and TLAPS proofs of the properties
that matter most, for instances of every size. `PROJECT.json` lists the components,
the runs, for every property a mutant that breaks it, the source lines behind every
definition, the hazards and the theorems.

## The system and its parts

A client's statement goes from `Session.Run` through `SessionExecutor` and a plan to
the pools of the slices it needs. The pools hand out `PooledConnection`s; `Recycle`
resets them and gives them back. Other goroutines act on the same objects at any
moment: the time wheel closes silent sessions, the idle scan of each pool closes idle
connections, and the administrator's calls replace namespaces, with their slices and
pools, in a running proxy.

| Part | Source | Module |
|---|---|---|
| Resource pool, its idle timer | `util/resource_pool.go`, `util/timer` | `ResourcePool`, `PoolContract` |
| Connection pool | `backend/connection_pool.go` | `ConnectionPool` |
| Backend connection | `backend/direct_connection.go`, `pooled_connection.go` | `SessionExecutor`, `SessionSettings`, `Wire` |
| Executor, transactions | `proxy/server/executor.go`, `executor_handle.go` | `SessionExecutor` |
| Session loop, gauge | `proxy/server/session.go`, `server.go`, `stats/counters.go` | `SessionLoop` |
| Session variables, charsets | `mysql/variables.go`, `backend/direct_connection.go` | `SessionSettings` |
| Prepared statements | `proxy/server/executor_stmt.go` | `Statements`, `Lexer` |
| Read/write splitting | `proxy/server/executor.go`, `backend/slice.go` | `ReadWriteSplit` |
| Slices, balancer | `backend/slice.go`, `balancer.go` | `Slices`, `Balancer` |
| Time wheel, idle timeout | `util/time_wheel.go` | `TimeWheel` |
| Namespace and user manager | `proxy/server/manager.go` | `Manager` |
| Cluster-wide reload | `cc/service`, `cc/proxy`, `proxy/server/admin.go` | `ConfigReload` |
| Configuration store, start-up | `models/store.go`, `models/etcd`, `cmd/dbproxy` | `ConfigStore` |
| Control centre | `cc/server.go`, `cc/service` | `ControlCentre` |
| Namespace documents | `models/`, `proxy/server/namespace.go` | `NamespaceConfig` |
| Shards, rules, router | `proxy/router` | `Shards`, `Rules` |
| Routes, inserts, rewriting | `proxy/plan` | `Route` |
| Merging of results | `proxy/plan/merge_result.go`, `plan_select.go` | `Select` |
| Global sequences | `proxy/sequence` | `Sequence` |
| SQL fingerprints, their cache | `mysql/sql_fingerprint.go`, `util/cache` | `Fingerprint`, `LRUCache` |
| Scanner, preview, comments | `parser/lexer.go`, `analyzer.go`, `comments.go` | `Lexer` |
| Syntax tree | `parser/ast` | `SyntaxStatements`, `SyntaxDefinitions` |
| Decimals | `parser/tidb-types/mydecimal.go` | `Decimal` |
| MySQL protocol, rows | `mysql/`, `proxy/server/client_conn.go` | `Wire`, `Rows` |
| Log files | `log/xlog/file.go` | `FileLog` |
| Timings | `stats/timings.go`, `histogram.go` | `Timings` |
| Encryption, helpers | `util/crypto`, `util/...` | not modelled |
| Grammar | `parser/parser.go` | its actions for types and literals in `SyntaxDefinitions`, `Lexer` |

The modules are of two kinds. *State machines* have variables and actions; the large
ones (`ResourcePool`, `SessionExecutor`, `ConfigReload`, `TimeWheel`) have runs of their
own, the twelve smaller ones share the run `machines`, which executes one of them at a
time (`MCMachines`, which extends them all, so that each has names of its own for its
`Init`, `Next` and `vars`: `LoopInit`, `PoolNext`, `storeVars`). *Algorithms* are operators
without state; the run `algorithms` applies them to every input of the sets that
`MCAlgorithms` and the `...Checks` modules list, and compares the outcome with a reference.

Every run names a module and a `.cfg` file; `MCResourcePool`, `MCSessionExecutor` and
`MCConfigReload` give the large machines their constants, symmetry and views, and
`TimeWheel` needs none. Proofs are in modules of their own: `ResourcePoolProofs` (with
the refinement of `PoolContract`), `ServerProofs` (`ConfigReload`, `SessionSettings`),
`MachinesProofs` (`TimeWheel`, `Sequence`, `ReadWriteSplit`, `ConfigStore`),
`CountersProofs` (`SessionLoop`, `ConnectionPool`, `ControlCentre`), and for
`SessionExecutor` four that build on each other, `SessionConnectionProofs`,
`SessionStepProofs`, `SessionHistoryProofs` and, with the theorems,
`SessionExecutorProofs`.

Where components meet, the inner one appears as its contract: `SessionExecutor` and
`ConnectionPool` use the pool that `ResourcePool` is proved to implement
(`PoolContract`); `ConfigReload` composes the managers of several proxies with the store
and the control centre; `ControlCentre` and `ConfigStore` see a reload as the steps
`ConfigReload` has in detail.

## ResourcePool and PoolContract

The pool is a Go channel of *wrappers*. A wrapper is a token that carries an open
connection or `Nil`. The variables are the channel's buffer, the counters of the struct
and, for each goroutine (clients, resizers, the idle scan), where it is and what it
holds. One action is one channel operation or one atomic update: `Fetch`, `Wait`,
`GetTimeout`, `FactoryOK`, `FactoryError`, `ReturnToken`, `GetDone` are the steps of
`get`; `PutResource`, `PutNil`, `PutSend`, `PutDone` those of `Put`; `SetCapacity`
through `CloseChannel` those of `SetCapacity` and `Close`; `ScanStart`, `ScanReceive`,
`ScanSend` those of `closeIdleResources`. `active` and `inUse` are read by no code of
the pool, so their updates go with the neighbouring step; `available` is read by the
idle scan and keeps a step of its own. Whether a connection has been idle for too long
is a free choice. A panic is a place a goroutine ends in.

`PoolContract` is what users of the pool rely on. It knows no channel and no counter:
a connection is in the pool or leased to one client, a closed pool leases nothing.

* `pool_safety` (three clients, three connections, capacity 2, one resizer, idle
  timer; three clients so that one waits while two hold everything): `NoPanic`,
  `OneOwner` and `ImplementsContract`.
* `pool_liveness` (two clients): `CloseCompletes` (Close returns) and `GetNotStarved`
  (a waiting Get is served). Fairness: runnable goroutines run; a receive that is enabled
  again and again succeeds (Go channels queue their waiters); clients put back what they
  got, which the comment on `Put` demands.

**Proved** in `ResourcePoolProofs` for any finite sets of clients and connections and
any capacities: type correctness, `NoPanic`, `OneOwner`, and that tokens are conserved,
the counters are exact up to the updates that are due, and a closed channel is empty and
stays closed; and the refinement (`PoolImplementsContract`). The invariant `IInv` adds to
the properties what relates program counters to what is held: what a client has in hand
at each place (`ClientShape`), how much a resizer has left to do and that its target is
already published (`ResizerShape`), that the scan runs only while its timer does
(`TimerShape`), that the channel is closed last (`ClosedShape`). Without `ResizerShape`
conservation is not inductive: tokens in circulation equal the capacity only up to what
a resize has not moved yet. Tokens are counted as the cardinality of the set of holders,
so the arithmetic of a step reduces to one element entering or leaving a finite set.

Assumptions: `OneResizer` (two overlapping calls of SetCapacity exceed the maximal
capacity, see *Known disagreements*; the proxy's only resizer is `Close`), and
`CloseStopsTimer`: the pool is closed by `Close`, which stops the idle timer, and not by
`SetCapacity(0)`, which does not.

## SessionExecutor

A session has two goroutines: `cmd` serves the client's commands; `wheel` is the time
wheel's callback, which also calls `Session.Close`. State: the status bits, `txConns`,
the connections of the statement under way, `txLock`, the closed flag, and the place
of each goroutine. A connection has a proxy side (`dc.status`, `closed`, whether
`dc.conn` is nil) and a server side (autocommit, open transaction, whose writes it
holds). MySQL's rules for transactions (`Server`, `Durable`) are external to the
repository. The pools appear through their contract: idle connections and blank tokens.
A statement may fail on any slice; with "break" in `Allowed` a connection may be lost
at any moment, also between a write and its answer.

`Allowed` says how unkind the environment is: connections may break ("break"), the three
attempts to reconnect may all fail ("noReconnect"), the timeout may pass while the
client is silent ("timeout") or during a command ("late"), a client may send SET
autocommit = 1 inside a transaction ("setInTx"). The passing runs leave out "late" and
"noReconnect", because the violation runs show what then goes wrong. They leave out
"setInTx" too. After BEGIN, SET autocommit = 1 recycles the connections of the
transaction (`executor_handle.go:323-335`). Where the connection already has autocommit
on, `SetAutoCommit(1)` sends nothing, so the recycling rolls the transaction back, and
with "setInTx" allowed TLC finds `CommitDurable` violated. No document or test of the
repository says what this sequence should do, so it is a hazard with a note and not a
finding.

* `session_one` (one session, two slices, all commands): `CommitDurable` (what COMMIT
  acknowledged is durable on every slice) and `RollbackClean` (after ROLLBACK nothing of
  the transaction is left or becomes durable).
* `session_faults` (two sessions, one pool of one connection, connections that break, the
  idle timeout while the client is silent): `OneUser`, `PoolClean`, `TokensKept`, and
  `GoneHoldsNothing` (a session that is gone, however it ended, holds no connection).
* `session_liveness` (two sessions, two slices): `CommandAnswered`. Fairness: runnable
  goroutines run, and a Get that finds nothing returns after `getConnTimeout`.
* `session_timeout_race`, `session_reconnect_crash` (violations): see *Findings*.

All clients may leave, so these configurations do not check for deadlock.
Bounds: one connection per pool makes every conflict happen; two slices are enough for
partial failure and for circular waiting; two names per pool let a dropped connection
be replaced while its network connection is still up. Names of connections are used
again once nothing refers to them. `session_faults` compares states without the
history of writes (`VIEW WithoutHistory`): the history decides only whether a client
sends SET autocommit = 1, which that run leaves out, and its invariants do not mention
it. Sessions, slices and names are interchangeable, which justifies the symmetry; the
liveness run uses none.

**Proved** in `SessionExecutorProofs` for any number of sessions, slices, connections
and names: what the two safety runs check. There are three inductive invariants.

* `IInv` (assumption `Calm`: "late" and "noReconnect" are not allowed) gives `OneUser`
  and `PoolClean`, and `TokensKept` with the argument below. None of them is inductive:
  that a `Recycle` gives back a connection nobody else uses depends on the places of
  both goroutines. `Shape` says what a goroutine at each place may hold: a statement's
  connections are those of the transaction, if there is one (`Leasing`), the
  transaction's are in `txConns` until the goroutine with `txLock` has let them go
  (`Transaction`, `Doing`), and once the wheel has fired the command goroutine can only
  close the session, too (`Wheel`). `Tidy` says how far `dc.status` tells the truth
  about the server: `ResetConnection` looks at nothing else. It is exact with autocommit
  on; with autocommit off a failed statement may have opened a transaction that the
  status does not show, which is why turning autocommit on again is what makes
  `PoolClean` true. A step changes one connection and one session; the lemma
  `ChangeKeeps` has the condition under which such a step keeps the pools in order, and
  every action is reduced to it. For `TokensKept`, each action is shown to pass at most
  one token between a pool's idle connections, its blank tokens and the sessions
  (`Balanced`); that the three add up to the capacity (`Tokens`) follows by counting
  (`TransferKeeps`).
* `Ends` (also under `Calm`) gives `GoneHoldsNothing`: a session that is closed has no
  connections of a transaction left, or one of its goroutines is releasing them (`Over`).
  That no goroutine has crashed is part of it, and true only because `Calm` leaves out
  failed reconnects. The two violation runs show that both parts of `Calm` are needed.
* `HInv` (assumption `Quiet`: only "timeout" is allowed) gives `CommitDurable` and
  `RollbackClean`. `Kept` is its core: every acknowledged write is durable or waits on the
  server, on a connection that the session still holds. `Ours` says that such a connection
  has writes of its session only and would not commit one at once; `Nothing` that nothing
  of an open transaction is durable; `InStep` that client and proxy agree on whether there
  is a transaction, which they do not while a command is under way. With "break" a
  connection may be lost with the writes it holds, and the two properties are not
  claimed; "setInTx" is the case described above.

`SessionConnectionProofs` has the invariant and what a statement and `Recycle` do to one
connection, `SessionStepProofs` that every action keeps `IInv` and passes at most one
token, `SessionHistoryProofs` that every action keeps `HInv`, and `SessionExecutorProofs`
puts them together. `CommandAnswered` is liveness and stays with TLC.

## Manager and ConfigReload

`Manager` has the state of `proxy/server/manager.go` as a value: two slots of namespaces
and of users, `switchIndex`, `reloadPrepared`, the document each namespace object was
built from, and the objects handed to the delayed `Close(true)`. `ReloadNamespacePrepare`,
`ReloadNamespaceCommit`, `DeleteNamespace` and `CreateManager` are functions on that
value. A user table has the two Go maps `userNamespaces` and `users`. Names and passwords
are sequences of the pieces between their colons, so `getUserKey` and
`getUserAndPasswordFromKey` do what the code does: a password with a colon is cut.

`ConfigReload` composes managers with the control centre: the store, the proxies'
registration entries, and administrators whose requests (`ModifyNamespace`,
`DelNamespace`) write the store, list the proxies, and call prepare and then commit, or
delete, on each. A call may fail before it reaches the proxy, its answer may get lost
after the proxy has done the work, a document may be refused, a proxy may stop with or
without removing its entry and come back. A call that is still on its way when its
request has returned is not modelled: a call whose answer is lost has done its work by then.
`settled[n]` records the proxies that a successful change of `n` reached.

* `reload` (two proxies, two namespaces that share a user name, one refused document,
  one restart, one administrator): `CurrentOpen` (nothing in service is closed) and
  `SuccessStays`. Five objects per proxy are enough because an object that no slot refers
  to is used again. `VIEW WithoutObjects` compares states up to the names of objects and
  slots: of an object only its content, its fate and whether both slots hold it matter,
  and the other slot is read only by a commit.

**Proved** in `ServerProofs` for any proxies, namespaces, versions and users: both,
type correctness, that the users a proxy lets in are those of the versions it serves
(`UsersFollowNamespaces`) and that a step changes only the namespace it is about
(`ChangesOnlyNamed`). The lemmas `ClearAgrees` and `RebuildAgrees` show that the table
operations keep the user table in agreement with the served versions; one lemma per
manager operation (`PrepareEffect`, `CommitEffect`, `DeleteEffect`, `CreateEffect`) says
what becomes of the slot in service. `IInv` adds to the properties: the current slot
serves distinct open objects and its table agrees with it (`SlotsOK`); a request that is
committing has prepared every proxy it still has to call, unless the proxy has restarted
since (`RequestOK`); what is settled is not a refused document (`SettledOK`), without
which a restart could undo a success.

Assumptions: `OneAdmin` (one change at a time: `docs/config-reloading.md` asks for
a global lock that the code does not have), `ColonFree` (no colon in user names and
passwords), `UniqueUsers` (the comment on `UserManager`: user name and password together
are globally unique).

## TimeWheel

The wheel's goroutine (`handleTick`, `add`, `remove`) takes ticks, additions and removals
from three channels in any order. Its only user is the idle timeout: a session takes a
sequence number, arms the wheel under it after the handshake and with every command, asks
for removal when it ends and gives the number back for reuse. Callbacks run in goroutines
of their own (`firing`). `due` and `robbed` are history variables.

* `wheel` (two sessions, two numbers, three buckets, a delay of seven ticks, channels of
  length two): `Exact` (rounds and position add up to the ticks still to wait) and
  `Armed` (a running session has its timeout armed, except when the late removal of the
  number's previous owner took it). The delay goes around the wheel twice and ends in
  another bucket.

**Proved** in `MachinesProofs` for any number of sessions, buckets, delay and channel
length: both, type correctness, that a number is in one bucket (`KeyInOneBucket`) and
that its task closes its present owner (`TaskOfOwner`). `Remainder`, `Placement` and
`Turn` are the arithmetic of the wheel: where a task is put, and what one tick does to
rounds and distance. `WheelInv` adds `Unique` (a number has one owner), `Numbered`, and
`LastAdd`: tasks that earlier owners left in `addC` come before one of the running owner,
which makes `TaskOfOwner` inductive.

## The machines

`machines` runs one of twelve state machines per behaviour; the others are absent. The
property of a machine speaks of its own variables. They may come to
an end at their bounds, so deadlock is not checked. None has liveness:
fairness is assumed only in the two liveness runs above.

| Module | Instance | Property |
|---|---|---|
| `ConnectionPool` | 2 users, 1 closer, capacity 1 of at most 2, 2 opens | `RecycledWhereTaken` |
| `LRUCache` | 3 keys, sizes 0..2, capacities 0, 2, 3, 4 uses | `CacheAgrees` |
| `Sequence` | 2 proxies with 2 goroutines, increment 2, row up to 4 | `NumbersUnique` |
| `Statements` | 1 statement with 2 parameters, 2 chunks of long data | `RunAsBound` |
| `SessionSettings` | 1 session, 1 connection, 2 databases, 2 variables, 2 character sets | `MetAsAsked` |
| `ReadWriteSplit` | 2 tables, one sharded, interval 1 | `ReadYourWrites` |
| `Slices` | weights 2:1 (slaves, other data centre), 1:1:1 (statistic), 6 gets | `WeightedRotation` |
| `ControlCentre` | 2 proxies, 2 namespaces, 2 data centres, 2 operations, 1 fault | `DCsApart` |
| `SessionLoop` | 2 sessions, 2 commands, 1 reload, 1 clearing of counters | `SessionsCounted` |
| `ConfigStore` | 2 names, 2 proxies, 2 workers, 1 change, 2 starts, 1 fault | `ChangeReaches`, `StartComplete` |
| `FileLog` | 2 writers, 2 lines, 2 hours, 1 failing open | `LinesKept` |
| `Timings` | 2 sessions, 2 names, 3 times, 2 cutoffs, 3 calls | `TimingsAgree` |

* **ConnectionPool.** `Open`, `Get`, `Put`, `SetCapacity` and `Close` of
  `connectionPoolImpl`, with the mutex taken and released where the code does. The
  resource pool inside is a record of its capacity, idle connections and blank tokens.
  `Put` reads the pool again, after `Get`, and Close drops it in between:
  `RecycledWhereTaken` says a connection nevertheless goes back where it was taken.
* **LRUCache.** List, table, size and evictions of `util/cache`, with entries of size
  zero and capacities that shrink. `CacheAgrees`: the three tell the same story, the size
  stays within the capacity, and the order of the list is the order of last use.
* **Sequence.** Proxies that take ranges from a row of the database; the stored function
  is external. `NumbersUnique`: no number is handed out twice.
* **Statements.** Prepare, long data, execute, reset and close of `executor_stmt.go`,
  with the parameter types a client may leave out and packets that are cut off.
* **SessionSettings.** Database, character set and variables as the session wants them,
  as the connection remembers them, and as the server has them; USE and SET may fail. A
  connection is borrowed for a statement or for a transaction, and recycled after it.
  When the pipe is broken it reconnects and goes on with a new session of the server, to
  which the handshake tells the database and the collation, but not the variables;
  `Recycle` drops such a connection. One session stands for many: a connection sees only
  the sequence of settings asked of it, and one session can change its settings to any
  others between two statements.
* **ReadWriteSplit.** The kind and the comment of a statement, the Checker's view of its
  tables, `lastWriteTime` per table and the choice of node.
* **Slices.** `initBalancers` and `next` of the balancer with the random order as any
  order, `GetSlaveConn` with replicas that are down, and the indexes that are kept.
* **ControlCentre.** Promotion and return of data centres, forced promotion, allowed
  addresses and the rest of the operations on topology, with failures between the store
  and the proxies.
* **SessionLoop.** Accept, handshake, lookup of the namespace, counting, the command loop
  and the answers, while namespaces come and go and counters are cleared every hour. A
  panic ends the session, or the proxy if it is in another goroutine. The deferred `Close`
  of a session panics when its transaction holds a connection without a socket; such a
  session ("lost") stays in the gauge.
* **ConfigStore.** The nodes of the store, requests that fail before or after their
  effect, the workers of `loadAllNamespace`, and registration.
* **FileLog.** The current and the error file, renaming at the hour, reopening, the
  delayed close of the old handle, and cleaning, under writers of other goroutines.
* **Timings.** `Add` in its steps (look up, create under the lock, add to the histogram).

**Proved** in `MachinesProofs`, `ServerProofs` and `CountersProofs`, for every size of
the instance:

* `SequenceUnique` (increment at least 1). The invariant `Apart`: every number is
  in one place only, a proxy's range, an answer not yet read, or what was handed out
  (`OnePlace`), and all of them lie behind the row (`Behind`).
* `GaugeExact` (finitely many sessions). The invariant adds `CellCurrent`: a session that
  is about to add to the gauge still has the cell in the map, although the counters beside
  it are replaced.
* `ConnectionsRecycled` (one closer, finitely many users, capacity within the maximum).
  The invariant `Balanced` counts: idle, blank and leased tokens of a pool make up its
  capacity and what a resize still owes. So Close cannot drop a pool while a
  connection is out, and the pool a user finds in `Put` is the one of its `Get`. One
  lemma per action; `Drained` and `Resized` are the arithmetic of a resize.
* `CentresApart` (two data centres; the first document keeps its two sides apart; an
  administrator names an address of the right side). The invariant says of every document
  that is stored, in service, prepared or still to be stored that all addresses of the
  master's side are in the data centre `MasterDC` tells and all others in the other one
  (`Sided`). `DCsApart` alone does not last: with the master of the other side taken out,
  nothing in it would tie the replicas that stay there to a data centre, and a replica
  taken in becomes the master. That step also needs that `Slice.verify` refuses a slice
  with neither master nor replicas. One lemma per service function.
* `ReadsOwnWrites` (the interval is a natural number). What a statement is compared with,
  `rwWrote`, is a history of the writes, not the code's map, so the property alone is not
  inductive. `SplitInv` relates the two: a write that was noted is in `elapsedTables`, with
  a time no longer ago than the write (`NotedWrites`). `GoesTo` is the routing itself.
* `SettingsMet` (any sessions, connections, databases, variables and character sets;
  `CharsetsAgree`: the default collation of a character set belongs to it). `SettingsInv`:
  a connection has its settings down exactly as its server has them, all but the variables
  after a reconnect, and only the database after a SET was refused (`Agree`); nothing is
  left to be unset between two statements (`ConnsKept`); a connection that has reconnected
  is closed, and none in the pool is (`ClosedKept`). `ExecuteInv` follows the connection
  through USE, the character set and the one SET that writes the new variables and unsets
  the old ones.
* `ChangeReachesProxies` and `StartLoadsAll` (any proxies, names and workers; the marks
  of an idle and of an ended worker are not names). `StoreInv` has three parts. While a
  proxy loads without error, what it listed is what it serves, has still to read, or has
  a worker reading (`Listing`). A proxy that is up has its node in the store
  (`Entered`), which is why the control centre finds it. `Reaches` follows the proxies
  that were up when a change began and still are through its phases: found or still to
  be found, prepared with the stored document, serving it. `OwnStep` shows that a step
  of one proxy keeps all this for the others, `FailReaches` that a change may end with
  an error at any point.

## The algorithms

`algorithms` builds one input after the other; TLC visits each once. Each property
compares the code with a definition that does not share its way of working. The
properties are of the form `[][P]_in`: every input is left by some step, and P holds of it
then.

| Property | Inputs and reference |
|---|---|
| `PrintsAll`, `PrintedIsVisited` | every kind of node, and every type of a column or a cast, with up to two fields changed: what `Restore` prints and `Accept` visits against the fields |
| `ReadAsMeant` | strings, names, comments and arguments of a prepared statement, read by a scanner of MySQL; numbers, bits, bytes and strings in a node that has held any other literal before, against what they mean |
| `PreviewIsParsed` | `Preview` against the first token of the lexer, with comments around the statement |
| `SameFingerprint` | pairs of statements that differ in their values only |
| `DecimalsExact` | literals, roundings, sums and differences against integers of any size; two digits per word and three words, so that carries cross words and numbers overflow |
| `ReadAsWritten` | packets, results, errors, fields and handshakes against the other side; packets of at most 4 bytes and sequence numbers modulo 4, so that splitting, empty last packets and wrapping occur |
| `PreparedRowIsRow` | a text row against the binary row made of it, with NULL bits across bytes, columns of type NULL, integers of width 8 and floats of three digits |
| `RoutedWhereStored` | queries and inserts on tables of the rules hash, range, date_year and mycat_long, with a linked and a global table, against the evaluation of their conditions on rows; and the sub-table index of a key under each rule |
| `MergedAsWhole` | queries with groups, HAVING, order, limit, DISTINCT and aggregates, with and without DISTINCT, over two sub-tables against the whole table |
| `VerifiedIsLoaded` | documents that `Verify` accepts against `NewNamespace` |

`SyntaxChecks`, `NamespaceChecks` and the end of `Select` hold the inputs and references
that are too long for `MCAlgorithms`. Hash functions and the calendar are parameters
(`Crc32`, `Murmur`, `CivilDate`, `ToLower`, `TrimSpace`), given small tables: routing
needs only that they are functions. What a recursion computes for every input is beyond
the prover, so the algorithms are model-checked only.

Some differences between code and reference are known. The properties name them, and are
checked for everything else:

* `KnownDifference` (`Select`): a column listed before a `*` that is also ordered or
  grouped by is looked for in the wrong place; a LIMIT is pushed below a grouping; with
  SELECT DISTINCT, equal partial aggregates are taken for duplicates before they are
  merged; COUNT and SUM with DISTINCT count a value once per sub-table that has it; a HAVING
  on an aggregate asks each sub-table for its part, and nobody asks the whole.
* `LeavesOut`, `KnownGap` (`NamespaceChecks`): on date rules, `<` and NOT BETWEEN
  leave out the sub-table of the date itself, and NOT BETWEEN with exchanged bounds what
  lies between them. `IndexIsTable`: the least integer has no absolute value under mod
  rules (`NoAbs`), and a date may lie outside the configured ranges.
* `VerifyGap` (`NamespaceChecks`): documents Verify accepts and NewNamespace refuses or
  panics on: no default slice, a sequence on an unknown slice, no master, bad weights, two
  slices or tables of one name once trimmed or lower-cased, untrimmed slice names, a
  negative partition length.
* `NotPrinted`, `NotVisited` (`SyntaxChecks`): SQL_CALC_FOUND_ROWS, ENCLOSED BY, the
  parameter of a position, VALUES LESS THAN, and of DROP BINDING the statement and GLOBAL
  are not, or not always, printed; some printed parts are not visited.
* `NotPrintedOfType` (`SyntaxChecks`): a size or a number of decimals that is 0, the size of
  a DECIMAL column given without decimals, the character set and collation of an ENUM or
  SET, the default character set of a cast, and a cast to BINARY(n), which prints no type
  at all; FLOAT of more than 24 digits prints as DOUBLE.
  Of literals (`Meaning`, `Lexer`), bits are compared as numbers, since leading zero bytes
  are not printed, and `_utf8mb4` is the default.
* `RunAsBound` leaves out statements whose binding failed. `MetAsAsked` excuses the
  variables after a reconnect in a transaction, and variables and character set on a
  connection on which a SET was refused. `ReadYourWrites` goes as far as the Checker
  sees tables, and `WeightedRotation` holds for the slaves until a statistic read has
  moved their index.
* `PreparedRowKept` (`Rows`) asks for numbers that a float64 can hold (`Fits`), and of the
  repository's own reader for rows without TIME, JSON and negative TINYINT.
* Group keys are joined with "+"; keys that contain one are not among the inputs.

## The theorems

| Module | Theorem | Statement |
|---|---|---|
| `ResourcePoolProofs` | `PoolTypeCorrect`, `PoolNeverPanics`, `PoolOneOwner` | `TypeOK`; `NoPanic` and room for every holder; `OneOwner` |
| | `PoolConservesTokens`, `PoolCountersExact` | tokens and counters add up |
| | `PoolClosedIsEmpty`, `PoolClosedForever` | a closed pool is empty and stays closed |
| | `PoolImplementsContract` | `ImplementsContract` |
| `ServerProofs` | `ReloadTypeCorrect`, `ServedStaysOpen`, `SuccessLasts` | `TypeOK`; `CurrentOpen`; `SuccessStays` |
| | `UsersFollowNamespaces`, `ChangesOnlyNamed` | users and versions agree; a step changes one namespace |
| | `SettingsMet` | `MetAsAsked` |
| `MachinesProofs` | `WheelTypeCorrect`, `TimeoutExact`, `RunningIsArmed` | `TypeOK`; `Exact`; `Armed` |
| | `KeyInOneBucket`, `TaskOfOwner` | one bucket for a number; its task is its owner's |
| | `SequenceUnique` | `NumbersUnique` |
| | `ReadsOwnWrites` | `ReadYourWrites` |
| | `ChangeReachesProxies`, `StartLoadsAll` | `ChangeReaches`; `StartComplete` |
| `CountersProofs` | `GaugeExact` | `SessionsCounted` |
| | `ConnectionsRecycled` | `RecycledWhereTaken` |
| | `CentresApart` | `DCsApart` |
| `SessionExecutorProofs` | `SessionsInvariant`, `SessionTypes` | `IInv`; `TypeOK` |
| | `OneUserHolds`, `PoolCleanHolds`, `TokensKeptHolds` | `OneUser`; `PoolClean`; `TokensKept` |
| | `EndsInvariant`, `GoneHoldsNothingHolds` | `Ends`; `GoneHoldsNothing` |
| | `HistoryInvariant`, `CommitDurableHolds`, `RollbackCleanHolds` | `HInv`; `CommitDurable`; `RollbackClean` |

## Findings

* **session_reconnect_crash** (`ProxySurvives`). After three failed reconnects
  `dc.conn` is nil. Inside a transaction the connection stays in `txConns`, and
  the next statement calls a method on it in a goroutine of `executeInMultiSlices`,
  where nothing recovers: the process ends. `docs/connection-pool.md:78` promises an error.
* **session_timeout_race** (`OneUser`). The wheel's callback closes the session
  while a command runs; `rollback` recycles the connection that the command is using, and
  `recycleBackendConns` recycles it again. The comment on `Put` asks for one Put per Get.
* **insert_across_tables** (`InsertedInOne`). An INSERT with rows for several
  sub-tables is sent to all of them, outside a transaction, and a row whose sharding value
  is not a literal is left out without an error. `docs/compatibility.md:37` and the error
  text of `plan_insert.go:268` say such an INSERT is refused.

## Known disagreements

These were met while modelling; TLC shows them when the bound or the property named is
changed. They have no run of their own.

* Two overlapping calls of `SetCapacity` take a pool beyond its maximal capacity
  (`resource_pool.go:222`); `OneResizer` excludes them.
* Two administrators who change one namespace at the same time: a prepare between the
  other's prepare and commit replaces what is committed (`manager.go:204`), and
  `SuccessStays` fails; `docs/config-reloading.md:86` asks for a lock. A call that
  outlives its 30 second timeout has the same effect.
* `RetryIsServed` (`ControlCentre`): a PromoteDc that failed half way and is repeated
  finds the stored document already changed and reports success without reloading the
  proxies (`docs/config-reloading.md:94`).
* `AllServeStored` (`ConfigStore`): a proxy that loads before a change and registers after
  the proxies were listed keeps the old document (`admin.go:231`).
* `RecentReadsInMasterDC`, `UnsplitReadsMaster` (`ReadWriteSplit`): REPLACE and tables
  behind the first sharded one are not noted (`executor.go:591`), and reads of a user with
  `rw_split = 0` may go to replicas (`docs/configuration.md:117`).
* `MasterDCBalanced` (`Slices`): not all replicas of the master's data centre are
  chosen (`slice.go:217`), although `README.md:23` says that slaves are balanced.
* `TransactionsSeen` (`Lexer`): a BEGIN, COMMIT or ROLLBACK that `Preview` does not
  recognise, because of what stands before it, is not handled as one
  (`docs/connection-pool.md:74`). `Preview` also takes `#word` otherwise than the scanner.
* `StaysInBuffer` (`Fingerprint`): the third IN list of one digit is written past the end
  of the buffer, and the call panics (`sql_fingerprint.go:84`).
* `NotPrinted` and `NotPrintedOfType` (`SyntaxChecks`): the options named above get lost,
  although Restore "returns the sql text from ast tree" (`ast.go:29`).
* `DecimalKept` (`Rows`): a DECIMAL with more digits than a float64 holds loses some on its
  way through a prepared statement (`result.go:53`).
* An error in COM_STMT_SEND_LONG_DATA is answered (`executor.go:330`), although the client
  waits for no answer ("no response", `executor.go:327`): it takes it for that of its next
  command. `SessionLoop` has the answer (`Responses`), and no property is about it.
* `SessionsCounted` counts the sessions whose deferred `Close` panicked: the gauge never
  gets rid of them (`session.go:215`).
* After a reconnect in a transaction its statements run with the server's default variables,
  until the session changes a setting (`direct_connection.go:186`). After a SET that the
  server refused, the connection has the settings down as done, and later sessions on it
  may run with others (`MetAsAsked`).
* `Armed` excuses a session whose number's previous owner asked for its removal late: it
  has no idle timeout until its next command (`time_wheel.go:83`). `WeightedRotation`
  ends, for the slaves, with the first statistic read (`balancer.go:203`).
* With "setInTx", SET autocommit = 1 inside a transaction rolls acknowledged writes back
  (`executor_handle.go:332`). SAVEPOINT reaches only slice-0.
* Two concurrent `Close` calls of one `ConnectionPool` are not safe, and its `SetCapacity`
  holds the mutex that `Put` needs; the proxy does neither.
* HAVING on aggregates, COUNT and SUM with DISTINCT, and the other classes of
  `KnownDifference` (`Select`) are answered otherwise than by the whole table
  (`merge_result.go:115`, `plan_select.go:192`).
* Read from the code only: outer joins, whose ON condition narrows the sub-tables as
  that of an inner join does (`plan_select.go:488`), so that rows without a partner get
  lost; IN and BETWEEN on a global table that has fewer copies than its partner has
  sub-tables; a zero DATETIME with a fraction of seconds, which has no binary form
  (`encoding.go:515`); a global table qualified with its schema that has fewer copies
  than slices (`rule.go:180`), date ranges over several years of months
  (`plan/util.go:32`), colons in user names (`manager.go:625`), and a start that hangs
  once all workers of `loadAllNamespace` have failed (`manager.go:90`).

## What is only model-checked

Liveness (`CloseCompletes`, `GetNotStarved`, `CommandAnswered`): the prover does not
handle fairness. The algorithms: it cannot show what a recursive definition computes for
every input. Of the machines, `CacheAgrees`, `RunAsBound`, `WeightedRotation`, `LinesKept`
and `TimingsAgree`: the rotation, the binding of the arguments one by one, and the sums of
`CacheAgrees` and `TimingsAgree` go through data of any length, which needs induction;
`LinesKept` has no theorem.
What COMMIT and ROLLBACK promise while connections break is not claimed at all.

A definition that TLC explores only up to a bound names it: `MaxUses`, `MaxGets`,
`MaxOps`, `MaxFaults`, `MaxCommands`, `MaxReloads`, `MaxClears`, `MaxChanges`,
`MaxStarts`, `MaxLines`, `MaxHours`, `MaxFailures`, `MaxAdds`, `MaxStmts`, `MaxChunks`,
`MaxValue`, `MaxOpens`, `MaxSet`.

## Not modelled

* **Grammar.** `parser.go` is generated by goyacc: its tables are out of TLC's reach. Of its
  actions, those of types and literals are modelled (`SyntaxDefinitions`, `Lexer`); for the
  other nodes, `SyntaxChecks.Parsed` says which combinations of fields they produce.
* **Encryption of documents.** AES over padded blocks is a bijection on texts, which a
  model could only assume.
* **Helpers.** Wrappers of atomic operations, buffers, hashes and error values; the models
  that use them have atomic steps instead.
* **Of the executor:** savepoints and the SHOW statements the proxy answers itself. Of the
  session: listener, signals, the check of the client's address. Of the backend
  connection: its own prepared statements, which no code of the proxy uses.
* **Of the manager:** a lookup that overlaps a flip, and the collected fingerprints.
* **Of the time wheel:** `Stop`, and delays that differ between tasks; nothing uses either.
* **Of the parser:** token positions, SQL modes no caller sets, the text of floating-point
  literals (strconv), and the TiDB values that no literal has (times, JSON) with the
  comparisons and conversions of values, which the proxy does not call.
* **Of the protocol:** password hashes (external) and tables of error names.
* **Of the store and the control centre:** the etcd client, leases nobody calls, HTTP,
  authentication, and queries without an effect.
* **Of logging and statistics:** the console logger, formatting, rates and the export to
  Prometheus, which only read.
