# A verification project for gnbutils

TLA+ models of `gnbutils`, a Go utility library: its concurrent parts, its
containers and the algorithms that compute. With them come TLC configurations
that check them on small instances and machine-checked proofs (TLAPS) of what
holds for every instance. Paths are relative to the repository.

## The system

`gnbutils` is a library: nothing runs until a program calls it. Its own code is
`log`, `sharding`, `static`, `lz4`, `i18n`, `yaml`, `cache` and `redisgo`;
`util/` is a fork of a general-purpose library (*lancet*).

| Part | State it keeps | Operations | What makes it hard | Correct when |
|---|---|---|---|---|
| Asynchronous log writer, `log/async_writer.go` | buffered channel, pending counter, closed flag, context, once, one goroutine `run` | `Write`, `Sync`, `Close` from any goroutine | send, count and close are separate steps; full channel; Close against Write; Sync's loop with a timer | every record is handed over once and in order, a Close or Sync that says so has written what it covers, every call returns |
| Log set-up, `log/log.go` | the zap logger | `Init`: cores for console and files, each with an optional asynchronous writer | level lists, minimum level, separate and single files | each record reaches the outputs its level is configured for |
| Sharding manager and lookups, `sharding/manager.go`, `wrapper.go` | configuration, slice of connections, `initialized`, one RWMutex | `Init`, `Close`, `GetDB`, `GetDBForTable`, `GetDBByIndex`, `GetShardedDB`, `MustGetShardedDB`, ... | fields read outside the lock; Init fails half way; Close between two steps of a lookup | lookups find open connections, routed by one configuration; no connection leaks |
| Sharding algorithms, `sharding/algorithms.go`, `calculator.go` | none | value to shard index | signs, widths, hashes | index in range, deterministic |
| Sharding configuration, `config.go`, `table_config.go` | none | load from viper | input | positive counts, known algorithms |
| Sharding data pool, `static/sharding_data_pool.go` | the manager, or nil | choose a loader, `Init`, lookups that fall back | a refused Init leaves the pool without a manager and the manager with a new configuration | fallbacks never pair a sharded name with the wrong database |
| Other pools and helpers, `static/`, `redisgo/`, `cache/` | a connection pool of a library | open, get; a plain map; a score | input and output; the map has no lock | - |
| `i18n`, `yaml` | a viper instance | load, look up | input | - |
| LZ4 codec, `lz4/` | positions in two buffers | `Encode`, `Decode` | index arithmetic, overlapping copies | Decode undoes Encode |
| Channel stages, `util/concurrency/channel.go` | goroutines and unbuffered channels | `Generate`, `Repeat`, `RepeatFn`, `Take`, `FanIn`, `Tee`, `Bridge`, `Or`, `OrDone` | selects, cancellation, closing with several senders | values in order, once and completely; cancelling ends every goroutine |
| Containers, `util/datastructure/`, `util/algorithm/lrucache.go` | arrays and linked nodes | the usual | long sequences of legal calls that reach an odd state | behaves as the sequence, set or map it represents |
| Retry and combinators, `util/retry`, `util/function` | counters, timers | `Retry`, `After`, `Before`, `Debounced`, `Schedule` | timer against cancellation | number of calls |
| Algorithms, `util/algorithm`, `slice`, `maputil`, `stream`, `iterator`, `mathutil` | mostly none; `slice.IndexOf` has a global memory | pure functions | boundaries | agrees with its definition |
| Strings, conversion, dates, files, network, cryptography, system, errors | none | stateless wrappers | - | - |

Interaction: `Log.Init` wraps each core's writer in an asynchronous writer, and
zap calls `Write` from the loggers' goroutines and `Sync` from the one that logs
at a level above error. `static.ShardingDataPool` calls `Init` of the one
manager of the process and forwards lookups to it; the functions of `wrapper.go`
call the algorithms and the manager. The channel stages talk only through the
channels the caller connects.

The hazards of each part, at their lines, are listed in `PROJECT.json`, with
the properties that cover them or the reason why none does.

## Modules

| Module | Models | Checked by | Proved in |
|---|---|---|---|
| `LogSink` | abstract specification of the log writer: a bounded FIFO | through `AsyncWriter!SinkSpec` | - |
| `AsyncWriter` | `log/async_writer.go` | `async_*.cfg` (`MCAsyncWriter`) | `AsyncWriterProofs` |
| `ShardRouting` | the Long algorithm of `sharding/algorithms.go` | with `ShardingManager` | `ShardingManagerProofs` |
| `ShardingManager` | `sharding/manager.go`, `sharding/wrapper.go` | `sharding_*.cfg` (`MCShardingManager`) | `ShardingManagerProofs` |
| `ChannelStages` | `util/concurrency/channel.go` | `channels*.cfg` (`MCChannelStages`) | `ChannelStagesProofs` |
| `Queues` | composes the three queues and the two stacks; their inductive invariant | through `Containers` | `QueuesProofs` |
| `Objects`, `Container` | what the modules of the parts without goroutines share: the object, what it should come to, and whether it is trusted | with them | - |
| `Containers` | extends `Queues`, `Heaps` and `LRUCache` by the other containers: one container under every sequence of its operations | through `Utilities` | `QueuesProofs`, `ContainersProofs`, `BSTreeProofs`, `LRUCacheProofs` |
| `ArrayQueue`, `CircularQueue`, `LinkedQueue`, `Stacks` | `datastructure/queue/`, `stack/` | `Queues` | `QueuesProofs` |
| `Heaps` | `queue/priorityqueue.go`, `datastructure/heap/`; its inductive invariant | `Containers` | `QueuesProofs` |
| `SinglyLink` | `datastructure/link/singlylink.go`; its inductive invariant | `Containers` | `ContainersProofs` |
| `DoublyLink` | `datastructure/link/doublylink.go`; its inductive invariant | `Containers` | `ContainersProofs` |
| `SliceList` | `datastructure/list/`, `set/`; the list's inductive invariant | `Containers` | `ContainersProofs` |
| `HashMap` | `datastructure/hashmap/`; its inductive invariant | `Containers` | `ContainersProofs` |
| `BSTree` | `datastructure/tree/`; its inductive invariant | `Containers` | `BSTreeProofs` |
| `LRUCache` | `util/algorithm/lrucache.go`; its inductive invariant | `Containers` | `LRUCacheProofs` |
| `Basics` | composes `IndexMemo`, `Combinators` and `LogCores`; their inductive invariants | through `Utilities` | `BasicsProofs` |
| `Utilities` | extends `Containers`, `Basics` and `DataPool` by the other algorithms: one input, or one object between two calls | `utilities.cfg`, `index_of_changed.cfg` (`MCUtilities`) | - |
| `Loops` | Go's loops as operators, and the walk along linked nodes (`datastructure/node.go`) | with its users | `QueuesProofs` (`WalkVisits`, `Iterates`), `ContainersProofs` (`KeptIs`) |
| `Sorting` | `util/algorithm/sort.go`, `search.go` | `Utilities` | - |
| `SliceOps`, `Streams`, `MapOps`, `Iterators` | `util/slice`, `util/stream`, `util/maputil`, `util/iterator` | `Utilities` | - |
| `IndexMemo` | the memory of `slice.IndexOf` | `Basics` | `BasicsProofs` |
| `LogCores` | `log/log.go` | `Basics` | `BasicsProofs` |
| `Sharding`, `DataPool` | `sharding/algorithms.go` and `calculator.go`; `config.go`, `table_config.go` and `CalculateShardForTable`; `static/sharding_data_pool.go` | `Utilities` | - |
| `LZ4Block` | `lz4/` | `Utilities` | - |
| `Combinators` | `util/retry`, `util/function` | `Basics` | `BasicsProofs` |

Definitions named "mutant of X" in a comment are not part of any specification;
each is a plausible mistake in X that one of the properties detects.

### AsyncWriter

Loggers call Write and Sync, closers call Close, `run` is one more process. An
action is one channel operation, select case, atomic access or critical section
of `a.mu`.

| Code | Model |
|---|---|
| `a.closed`, `a.ctx`, `close(a.ch)` | `closed`, `cancelled`, `chClosed`, set by `CloseBegin`, `CloseCancel`, `CloseChannel` in this order |
| `a.ch`, `a.syncCh`, `a.pending` | `ch`, `syncCh`, `pending` |
| `Write` | `WriteBegin`, then a select: `Send`, `SendOnClosed`, `SendCancelled`, `WriteBlocks`; then `CountPending` or `DirectWrite` |
| `Sync` | `SyncBegin`, `SyncSignal`, the loop `SyncPoll` / `SyncTick` / `SyncTimeout` / `SyncCancelled`, `SyncFlush` |
| `Close` | `CloseCall`, `CloseBegin` or `CloseAgain`, `CloseCancel`, `CloseChannel`, `CloseJoin`, `CloseSync` |
| `run` | `Receive`, `ReceiveClosed`, `ReceiveSync`, `StartDraining`, `Drained`, `WriteOut`, `UncountPending` |

A select with several ready cases is a choice among actions; a send on a closed
channel counts as ready, as in Go, and crashes the process (`crashed`). The
underlying writer is `sink`, with `synced` the length of the prefix covered by
its last Sync. Abstractions: a record is a pair of a logger and a number; a
writer parked in the inner select and one about to enter it are one state; the
runtime's queue of parked senders is not modelled, any of them may go first
(within one goroutine this makes no difference); the underlying writer does not
fail; the five-second timer may fire at any round of Sync's loop. The branches
for a nil writer cannot be reached through `newAsyncWriter` and are left out.

Properties: `EveryWriteOnce` (each completed Write is in exactly one place,
once), `InOrderWhileOpen` (per-goroutine order), `CountCovers` (the counter falls
short of the backlog by at most the writers between send and count; it may drift
upwards, because the decrement is skipped at zero, which is why Sync can need
its timeout), `CloseKeepsEarlier`, `SinkSpec` (refinement; the record in `run`'s
hand counts as queued, so the FIFO's depth is `Capacity + 1`), and for liveness
`WriteReturns`, `SyncReturns`, `CloseReturns`, `EarlyIsWritten`.

What the comments promise and the code does not keep is checked as violated:
`NoPanic`, `SyncCoversOwnWrites`, `CloseWritesAll`. An early return of Sync
matters where zap relies on it, at levels above error, just before the process
may end. Decrementing without the guard (a counter that may be negative for a
moment) would keep the count exact.

### ShardingManager

Admins call `Init` (with any configuration) and `Close`; clients look up. One
action is the code between two accesses to shared fields that another goroutine
may come between: `InitCall` is line 92, before the lock; `InitEnter` to
`AddDatabase` run under it, with one step for each `gorm.Open` because lookups
that read fields without the lock go on meanwhile; lookups read `sm.initialized`
(`CheckInitialized`), `sm.config` (`FindTable`, `ComputeIndex`) without the lock
and `sm.databases` (`Fetch`) with the read lock, for which they wait until
`writer = None`. The operations of `wrapper.go` differ in what they do before
and after, given by the sets `Sharded`, `ByTable`, `FallsBack` and by `Fail`.

Abstractions: a connection is a record of the configuration it was opened with,
its number, and the round of Init; a configuration is the number of databases
and, for one table, whether it is listed and its number of tables (0 is the
count that validation refuses; its other two reasons, a missing key name and a
missing algorithm, are not told apart from it); the table uses the Long
algorithm; a key is an integer, and `BadKeys` are values it has no conversion
for. The template is read once for each database. Reads and writes of one word
are atomic and not reordered, as on the common platforms; the Go memory model
promises less for the fields read without the lock. `Init(nil)` and `DatabaseCount <= 0` are left out: the
loaders (`config.go:74`, `config.go:173`) never produce them. `GetAllDBs` and
`GetConfig` only copy. A panic that nobody recovers ends the process.

Properties: `PublishedOpen`, `OpenAreOwned` (nothing leaks unless an Init failed
half way), `NilOnlyAcrossClose`, `IndexFitsFirstInit` (an index out of range
needs a second Init), `RoutedByConfig`; TLC's deadlock check adds that no path
of Init keeps the lock. Worth knowing when reading them: a *rejected* Init has
already replaced `sm.config`, so lookups are sized by a configuration that was
never opened, and `MustGetShardedDB` then silently uses database 0 and the
unsharded table.

Checked as violated: `CloseClosesAll` and `MustNeverPanics`.

### ChannelStages

A table (`Networks`) of small networks, one of which is chosen initially: a
generator or a channel that never closes behind OrDone; Take of a finite source
and of Repeat, for any number up to `MaxTake`; FanIn of two; Tee; Bridge of two
streams; Or of five, which nests. Each goroutine has its position (`pc`), the
channels it waits for (`from`), the channels it offers its value on (`on`) and
its loop counter. `Transfer` is the rendezvous on an unbuffered channel,
`Exhausted` a receive from a closed one, `Heed` the case `<-ctx.Done()` of a
select, `Join` the `wg.Wait()` of FanIn, `Exit` the deferred closes. What each
kind of stage does with a value, at the end of its source and on cancellation is
in `Received`, `Sent`, `AtEnd`, `HeedsAt` and `Heeded`. RepeatFn is Repeat with
computed values. Tee's two deferred closes are one step. Left out: the aliasing
of `append(channels[3:], orDone)`, and Repeat without values, which spins.

Properties: `NeverPanics` (no double close, no send after close), `InOrder`,
`ClosedMeansComplete`, `TeeInStep`, `CancelTerminates`, `Delivers` (if consumers
go on reading), `OrCloses`. Checked as violated: `TakeOnlyTakes`.
`CancelTerminates` holds for Take and FanIn, which wait for values without
watching the context, because in these networks their sources watch it.

### Containers

Each module keeps the container's own representation in `obj` (slots, nodes with
pointers, head and tail, counters) and, beside it, `want`: the sequence, bag or
map its operations asked for. `obj.type` tells the parts apart, so that one
run covers all; each module has its own initial predicate and next-state
relation, and can be checked by itself. A node is its number in the order of allocation, so that stale
pointers stay visible. A nil dereference, a division by zero and an index out of
range set `panicked`. `trusted` becomes false at the first call after which the
code no longer does what it should; the properties say from which call that is,
and nothing is claimed from there on:

| Container | Holds, except |
|---|---|
| `ArrayQueue` | once an Enqueue has moved the values to the front, the new value is appended behind stale slots (`arrayqueue.go:73`); `Front` and `Back` are right only while nothing was dequeued |
| `CircularQueue` | `Clear` sets the capacity to 0, after which `IsFull` and `Enqueue` panic (`circularqueue.go:98`) |
| `SinglyLink`, `DoublyLink` | deleting from a list of one node, or the first of two through `DeleteAt`, may panic (`doublylink.go:105`); `DoublyLink.Reverse` follows `Pre`, which insertions and deletions in the middle leave stale |
| `BSTree` | `Delete` never removes the root's value; deleting a root with two children hangs its left subtree under two nodes, after which a further deletion may not end (`bstree.go:39`) |
| `HashMap` | a key that meets another's slot replaces or loses it; `Delete` shifts the table (`hashmap.go:86`) |
| `LRUCache` | deleting the only entry leaves the head on it, and so does evicting it, as a capacity of 0 does; the next key to go is then a wrong one; `Delete` does not lower the length (`lrucache.go:104`) |
| `LinkedQueue`, `PriorityQueue` and `MaxHeap` (`Heaps`), both stacks, `SliceList` | no exception |

`ListsAgreeWithSets` compares two implementations, the list's operations and the
set's. `SliceList` has the array behind its slice, with what lies behind the
length, because `DeleteIf`, `Merge` and `batchRemove` work within it.

### Algorithms

One state is one input of one part (`obj`, as for the containers), and the
property of that part compares what the code computes with a reference: another function of the
repository, a definition by quantifiers, or the inverse function. Parts with
calls in sequence have actions: the iterators (with the goroutine of
`ToChannel`), the combinators (with a clock `now`, every duration `Wait` ticks),
and the memory of `slice.IndexOf` (with the program's writes to its slices).

* `SortsAndSearches`: the seven sorts in place against one another and against
  sortedness, permutation and, for two of them, stability; the eighth,
  `CountSort`, against them for pairwise different keys; the searches against the
  sorted slice in every part of it.
* `SlicesAgree`: identities among the functions of `slice`, `stream` and
  `maputil`, at indexes outside the slice too. In `maputil` the iteration order
  is every order.
* `MemoryAnswers`: `IndexOf` answers with the first index if the slice is as it
  was when its memory was made; the memory is cut back only by calls that find
  their item. What its comment promises of any slice is `IndexOfFindsFirst`.
* `LevelsReachOutputs`: for every combination of minimum level, type, file mode
  and level lists, the outputs each level reaches, as the comments of `log.go`
  describe them; a list whose levels are all below the minimum is no list at all.
  And no rotation is asked for that the rotation library refuses.
* `ShardsRoute`: hash codes with 32-bit wrap-around (scaled) in range; loaded
  configurations pass the manager's validation, and each table keeps its own
  settings; the two ways to compute a place (`CalculateShardForTable`,
  `ShardCalculator`) agree; several databases have different names and the
  reported database is the opened one, but for the templates below; which pairs
  of database and table are ever used; and the data pool's lookups, in every
  state the manager can be left in, agree with one another and with the
  package's own.
* `BlocksRoundTrip`: `Decode` undoes `Encode`, size first or last, whatever slice
  it is given to decode into, and the encoding stays within `CompressBound`; a
  block cut short gives an error or, behind its part, what that slice held (zeros
  in a slice that `Decode` made). Error values are not told apart. A byte is four
  bits (`mlMask` 3), which keeps the multi-byte lengths within short inputs.
* `CallsCounted`: how often each combinator calls its function, and when.
  `Retry` waits after the last failure too. `Before(n)` calls it `n` times.
* `ItemsLeft`: iterators give what their definition says is left; `ToChannel`
  hands over what its iterator gives, in order and once, also when the context
  is cancelled in between, and closes only when that is all or the context is
  cancelled.

One claim of a comment is checked as violated: `IndexOfFindsFirst`, of
`IndexOf` after an element of its slice was assigned to. The following
documented behaviours the code does not have either, and each is left out of the
property that would claim it:

| Documented | What the code does | Left out of |
|---|---|---|
| `CountSort` sorts the collection (`sort.go:176`) | equal elements go to one place of the result: all but the last are lost, zero values stay | `SortsAndSearches`: keys that are equal |
| `LastIndexOf` returns the last index (`slice.go:1083`) | the first element is never looked at (`slice.go:1086`) | `SlicesAgree`: an item whose last place is the first |
| several databases are `nbgame_0`, `nbgame_1` (`sharding/README.md:47`) | `LoadConfigFromViper` gives all one name when its template has no placeholder (`config.go:190`); `LoadConfigFromViperWithMysql` adds one | `ShardsRoute`: different names |
| a placeholder of the name (`sharding/config_example.yaml:31`) | the place that `CalculateShardForTable` reports keeps it when there is one database, and has a name where the template is empty (`wrapper.go:179`) | `ShardsRoute`: reported and opened name |
| a table without settings takes the global ones (`sharding/README_TABLE_CONFIG.md:56`) | the loaders refuse it, so the getters' fallback is never used | `ShardsRoute` |
| after `Prev` the next `Next` gives the element again (`iterator.go:66`) | `Prev` at the last element stays there (`iterator.go:119`) | `ItemsLeft`: slice iterators after that |
| `channelIterator.HasNext` (`iterator.go:187`) | answers the opposite of its name | `ItemsLeft` |

## Runs and bounds

| Run | Instance | Why it is enough |
|---|---|---|
| `async_safety` | 2 loggers, 2 closers, capacity 1, 2 writes and 1 Sync each; symmetry | a full channel with a second writer waiting, a record in hand, a competing Close, and a second record to be out of order with; about 2 million states |
| `async_live` | 2 loggers, 1 closer, capacity 1, 1 write and 1 Sync each; no symmetry | two Syncs compete for the token, a blocked writer meets Close |
| `async_panic`, `async_sync_early`, `async_close_loses` | capacity 2, 1 write | the shortest counterexamples |
| `sharding_safety` | 2 admins, 1 client, 3 Inits, 1 Close, 1 lookup; three configurations: 2 databases and 3 tables, 1 database without the table, 2 databases and a refused table; keys -5, 4 and an unconvertible 7; symmetry of the admins | a rejected, a failing and a waiting Init together with a Close inside a lookup, and an Init after the Close. One client: clients only read the shared state, so they do not affect each other |
| `sharding_close_leaks`, `sharding_must_panic` | the same, without symmetry | - |
| `channels` | 8 networks, sources of 3 and 2 values, Take of 0 to 4 | Take of fewer and of more than there are; three values make a drop followed by a delivery; two rounds of every loop |
| `channels_take_zero` | the same | - |
| `utilities` | containers: values 1 and 2, keys 1 to 3 of which two share a slot of a small map; rings and heaps of 2 to 6 slots; up to 5 nodes allocated; lists up to 4. Algorithms: slices of up to 4 elements of 3 to 5 kinds, for the sorts also of 6 and 7; strings of 3 runes; counts 1 to 17 around the scaled 2^32; all combinations of the configuration values that a loader looks at; 117 blocks of up to 75 bytes; 4 calls, 8 ticks | a ring wraps several times; a list has a first, a middle and a last element to delete, a tree a node with two children; a map resizes; the cache evicts. Equal, ascending and descending elements, `ShellSort` with a gap of 4, indexes at and beyond both ends; hash codes overflow and turn negative (`IntMax` 7 stands for 2^31 - 1); blocks that match, overlap, skip (`incompressible` 6 for 128, so that short inputs skip) and step back. About 626,000 states |
| `index_of_changed` | the same | one call, one assignment, one call |

Bounds in guards: `MaxWrites`, `MaxSyncs`, `MaxInits`, `MaxCloses`,
`MaxLookups` limit the calls, `MaxTake` the argument of Take. Deadlock is
checked in every run; each specification has an action `Terminated` that is
enabled only where the system may really stop. The runs of
`MCUtilities` switch it off: a container at its bounds, and an input that is only
computed with, have no next step.

Bounds of these: `MaxNodes`, `CacheNodes`, `HeapSize`, `Bound`, `MaxCapacity`,
`MaxSize` (containers),
`MaxCalls`, `MaxTime`, `MaxSteps` (calls and ticks). `limit` is the 10 of
`slice.go:1044`, `MaxInputSize` the codec's. `ArrayCapacity`, `RingCapacity`
and `QueueCapacity` are the capacities of the three bounded queues, `Cap` that of
the cache; `ArraySlots` limits the slots an `ArrayQueue` grows to. The values of the queues are
not 0: an empty slot of the ring holds Go's zero value, and `Contain` cannot
tell the two apart (`circularqueue.go:102`).

## Fairness

`AsyncWriter`: weak fairness of `run` and of every call that has begun (the Go
scheduler is preemptive), none of beginning a call. Strong fairness of
`SyncTimeout`: its case is ready at every later round of the loop once the timer
has fired, though the loop leaves the select in between, and select picks at
random among ready cases. A call that waits for another goroutine (a full
channel, `closeOnce`) is not assumed to be served. `ChannelStages`: weak fairness
of each stage's own steps and of its `ctx.Done()` case; of the consumers nothing,
except in `Delivers`, where it is the hypothesis. The other specifications have
only safety properties and state no fairness.

## Proofs

All theorems hold for every value of the constants that satisfies the named
assumption of the module that declares them (`ConstantsAssumption`,
`QueuesAssumption`, `HeapsAssumption`, `CacheAssumption`, `ContainersAssumption`,
`BasicsAssumption`); TLC evaluates these on the runs.

`AsyncWriterProofs`:

* `TypeCorrect`: `TypeOK` is inductive.
* `CounterCovers`: `CountCovers` is inductive over `TypeOK`. A send moves the
  backlog and the set `Counting` together, a count trades one for the other, and
  the guarded decrement only happens with a backlog of at least one. Cardinalities
  of `Counting` need the finiteness of `Loggers`. `ZeroIsEmpty` is its corollary.
* `ClosePhases`, `CloseKeeps`: `CloseKeepsEarlier` alone is not inductive. The
  strengthening says what each phase of Close implies (`ClosePhase`) and where a
  record queued early can be (`EarlyPlaced`): until `run` stops it is in the
  channel, in the hand or written; `run` stops only when the channel is empty
  and nothing joins the early ones any more, since they are sent before
  `closed`.
* `ImplementsSink`: initial states map to initial states, and every step is a
  step of `LogSink` or stutters. The one condition that is not local is that a
  record is `Fresh`; it follows from `Issued`, which bounds the numbers of the
  records already placed by the calls their logger has completed.
* `WritesOnce`: `EveryWriteOnce` from `Issued`, its converse `HandedOver` (a
  record its Write has got rid of is somewhere) and `Unrepeated` (it is in one
  place, once). Each step moves a record from one of the three sequences to the
  next one, or puts in one that, by `Issued`, is nowhere.
* `RecordsInOrder`: until Close is called a Write can only send, so the stream
  written, in hand, queued grows at its end, by a record whose number, by
  `Issued`, is above all of its logger's.

`ShardingManagerProofs`:

* `LongIndexInRange`: for every integer key and positive count.
* `TypeCorrect`: with the lock's ownership.
* `ConnectionsPublished`, `ConnectionsOwned`: by `Building`, which describes the
  slice while it is filled.
* `NilNeedsClose`: by `CheckHolds` with `Building`: a check of `sm.initialized`
  stays good unless a Close ran.
* `RoutingFollowsConfig`: by `Computed`, which ties what a lookup has computed to
  the current configuration while no Init has run since it began.
* `FirstInitFits`: by `FirstInit`. With one Init the configuration it replaces
  the old one with is the one it opens, so the number of connections is the
  configuration's; a lookup has an index only after it saw connections, hence
  after that Init stored them.

`ChannelStagesProofs`, for any sources, any `MaxTake`, and cancelled or not unless
said otherwise (the networks are those of the table `Networks`, which the proofs
take one by one):

* `StagesTyped`, `StagesNeverPanic`: by `StagesInv`. It ties each goroutine's
  local state to the point of its code (`LocalOK`: a stage that sends has a value
  and channels left to send on, one that receives a channel to receive from, the
  rounds of Take and Tee), says that every channel is closed by one goroutine, at
  its end (`Owners`; FanIn's by the joiner, after all the workers), and that
  Bridge starts the OrDone of a stream once (`Unborn`). A send on a closed
  channel would then be one by a goroutine that is done.
* `ClosedIsComplete`, while nobody cancels: by `NothingLost`. What a consumer
  has, what each stage holds and what the generators have left add up to what was
  to be sent (`Conserved`); a stage ends only behind a closed input (`Drained`),
  Bridge only after both streams (`Listed`). When the consumer's channel is
  closed, everything before it is done and holds nothing.
* `TeeStaysInStep`: by `Copies`, the four ways a value is on its way through Tee.
* `StagesInOrder`: by `Ordered`. A generator's remaining values are the rest of
  its sequence (`Rest`), and the values of one source on their way to one
  consumer - received, in the hands of the stage next to it, in those of the one
  before - are in line with the source: the places are mapped to increasing
  positions, all of those sent if nobody cancelled (`InFlight`, with the operator
  `InLine` of `ChannelStages`). A hand-over either moves a value one place up or
  adds the source's next. Take's consumer has first real values and then the
  zeros of a closed channel (`Taken`); Bridge has nothing of the second stream
  before the end of the first (`OneByOne`); nothing comes from elsewhere
  (`Genuine`).

`QueuesProofs`, for any values but the zero value, any capacities (0 included),
and any number of calls within the bounds:

* `OrderKept`: `QueuesKeepOrder` by `QueuesInv` (`QueuesHold`), which says where
  the values that wait are: between head and tail of the array, as long as the
  object is `trusted`; at `Slot(front, j, capacity)` of the ring, with the zero
  value in all other slots, so that reading until rear and `Contain` see the same
  values after any number of wraps; in the newest nodes of the linked queue, in
  the order of allocation; in the slice of one stack; and in a chain of
  nodes of the other, in which pops leave unused nodes behind.
* `Iterates`: any number of rounds of a loop has a state after each round, which is
  what `For`, `Each` and `While` of `Loops` choose.
* `WalkVisits`: walking linked nodes visits a given chain. `Walk` is a recursive
  function; its value is got by unrolling, and the induction over the length of
  the chain is the least-number principle (`Least`, proved from the theorems on
  well-founded relations).

and of the priority queue and the heap, for any set of integers as priorities, any
capacity of the queue and any bound on the heap:

* `LargestKept`: `LargestLeads` by `HeapsInv`. No value is larger than its parent
  (`Ordered`), so by the least place that breaks it the first one is a largest
  (`FirstIsLargest`); and each value is there as often as it was put in
  (`Holding`), which an exchange of two slots does not change
  (`HoldingExchanged`). While a value climbs the order may fail between it and
  its parent only, while one descends between it and its children only; and in
  both cases these children are in order with that parent (`Rising`, `Falling`),
  which is what one exchange needs (`SwapRises`, `SwapFalls`).
* `LoopExists`, `LoopKeeps`: a loop written as a recursive function is one, and
  keeps its invariant to its end, when a rank falls in every round: the index in
  `swim` and `heapifyUp`, the size less the index in `sink` and `heapifyDown`. The
  induction is over the rank, by the least-number principle (`Smallest`).
  `BuiltHeap` is the same for the pushes of `BuildMaxHeap`.

`ContainersProofs`, for any keys, any values but the zero value, any hash, any
capacities of the map and any lists to start from (`ContainersAssumption`). Each
container has an inductive invariant `Inv` in its module, and a theorem that all
its runs keep it (`MapHeld`, `SinglyHeld`, `ListHeld`,
`DoublyHeld`):

* `LastFound`: `MapFindsLast`. While the map is trusted each key's slot holds the
  key with its last value; the table is as long as the capacity until a deletion
  cuts it, so that an index is in range (`Hashed`). `putValue` calls itself after a
  `resize`; that this comes to an end within the bound on the capacity is
  `Widenings` (each doubling adds at least one), and that a resize takes no slot
  more than there are entries, so that the size never counts too few, is `Resized`.
* `EditedInPlace`: `ListEditsInPlace`. The first `len` slots of the array are the
  list (`Holds`). Each operation is a write behind some of the first values
  (`Appends`, `Writes`, `Cuts`), in the array or in a new one; for the loops the
  invariants say how much of the list is done: `DeleteIf` has the values kept of
  those before the index and all behind it (`Shifts`, `ListDeletesIf`),
  `batchRemove` overwrites no value before it is read (`ListRetains`), `Reverse`
  has exchanged the first and the last i values (`ListTurns`), `Unique` has each
  value once, where it comes first (`Ranks`, `DistinctIs`).
* `ListsAndSets`: `ListsAgreeWithSets`, by what elements each of the operations on
  two lists leaves (`ListsLeave`) and each of those on two sets (`SetsAre`), in
  whatever order `Iterate` hands them out (`SetListed`).
* `SinglyIsList`: the part of `LinksAreLists` about the singly linked list.
  `DeleteAt` at an end goes on with the conditions after it: what it may leave is
  `Outcome`, the list asked for or the panic of the last node (`SinglyDeletes`).
* `LinksHeld`: `LinksAreLists`. The chain of the doubly linked list is a sequence of
  different nodes (`Chained`), among those that were never unlinked and others
  that were. An insertion allocates a node and puts it into the sequence
  (`NodeAdded`), a deletion takes one out (`NodeDropped`); both only have to be
  right about `Next`, since no operation but `Reverse` follows `Pre`. `Reverse` is
  right where every `Pre` is (`DoublyTurns`), which is what `trusted` remembers,
  and in any case follows pointers to allocated nodes only (`LinkAllocated`).
  The middle is found by the invariant that fast is twice as far as slow
  (`DoublyMiddle`).
* `KeptIs`: the loop that keeps some of the items.

`BSTreeProofs`, for any set of integers as values and any number of nodes:

* `TreeSearched`: `TreeIsSearchTree` by `BT!Inv` (`TreeHeld`). As long as the tree is
  `trusted` a rank falls from every allocated node to its children (`Grows`), so
  that no path leads back, not even through nodes taken out; what is left of a
  node is less and what is right of it is not (`Orders`), of which disjointness
  is a part: no node hangs under two others; and `want` is the bag of what the
  root reaches (`HeldBy`).
* The rank is what every recursion of the code ends by (`TreeExists`,
  `TreeInduction`): the traversals list each node of a subtree once
  (`PreOrderLists`, `InOrderLists`, `PostOrderLists`), the first of them defines
  what is below a node (`Below`, `UnderIs`), the traversal by level keeps a queue of disjoint
  subtrees (`Forest`, `LevelOrderLists`), the depth is the level (`DepthIsLevel`) and
  every subtree is found (`SubTreeFound`).
* Two edits change a tree: a subtree is hung where none was (`Grafted`, for `Insert`
  and for the left subtree of the node taken out) and a child is replaced by one
  of its own (`Spliced`). `deleteTreeNode` re-links every node on its way down, which
  changes nothing but at the parent of the node taken out (`DeletionDrops`); with two
  children it is a splice and then a graft at the leftmost node of the right
  subtree, which both are about (`TwoChildren`).

`BasicsProofs`, by `BasicsInv`, for any slices, limit, numbers of calls and
duration (but 0) and any configurations (`BasicsAssumption`):

* `MemoryRight`: `MemoryAnswers` by `MemoInv`. What is remembered of a slice are
  the first indexes of the items of what it held then, so the answer is right
  when it holds that; a slice that is forgotten and asked about again is remembered anew. A
  miss may add a slice beyond `limit` and a hit takes one away when there are too
  many, which bounds the memory by `limit` and the misses.
* `CallsRight`: `CallsCounted` by one invariant for each combinator: `Retry` has
  failed once more than its loop counts while it waits (`RetryInv`), the counter
  has gone down once for every call (`CountersInv`), the timer of a burst runs
  from its last call (`DebouncedInv`), and a duration has passed for every
  invocation but the last (`ScheduleInv`).
* `RecordsReach`: `LevelsReachOutputs`. The cores are built by a loop over the
  lists of levels; that a record reaches the outputs of the lists that name its
  level is proved for lists of any length (`RecordReaches`).

`LRUCacheProofs`, for any keys and values, any capacity (a natural number, as
`make` requires) and any number of nodes:

* `MostRecentKept`: `CacheHoldsRecent` by `CacheInv`. Every pointer is nil or a
  node, and each cached key has a node of its own, at any time (`Allocated`,
  `Owned`). While the cache is `trusted` the nodes of `want`'s keys, in its order,
  are linked in both directions from head to tail (`Linked`). This has to be said
  of the backward pointers too, although the property does not: `deleteNode`
  follows `pre` at the tail and in the middle. Nothing may be said of `pre` at
  the head and of `next` at the tail, which are left stale there (when the head
  goes, or the tail does), and nothing has to: at the head of two or more nodes
  `deleteNode` does not read `pre`, and `addNode` overwrites `next` of the tail.
  The lemmas follow the code: the list after `addNode` (`AddLast`), after
  `deleteNode` of two or more nodes (`DeleteOne`) and `moveToHead` (`MoveLast`),
  then the cache (`Added`, `Removed`, `Moved`).

The action cases are one step each; frames (`UNCHANGED`) are dealt with first.

Model-checked only: all liveness (the four properties of `AsyncWriter`,
`CancelTerminates`, `Delivers` and `OrCloses` of `ChannelStages`), because
fairness and `ENABLED` are beyond the prover. Of the algorithms
`SortsAndSearches`, `SlicesAgree`, `ShardsRoute`, `BlocksRoundTrip` and `ItemsLeft`:
they rest on recursive operators
(`RECURSIVE`), about which nothing can be proved, or compare what two recursions
over data compute, which would need an induction over data.

## Plan

Done: the parts where goroutines share state (log writer, sharding manager,
channel stages), the containers, and the algorithms; the proofs of the safety
properties of the first three, of the queues and stacks, of the heaps, of the LRU
cache, of the hash map, the list, both linked lists and the tree, of the memory of
`IndexOf`, of the combinators and of the log's cores. What is left: range lemmas of the string algorithms beside `LongIndexInRange`.

## Not modelled

* `mathutil`: floating-point arithmetic and textbook loops.
* Wrappers of a map, the standard library or third-party code (`cache`,
  `redisgo`, `i18n`, `yaml`, the MySQL and Redis pools, dates, files, network,
  cryptography, system, errors): what they do is done elsewhere. `cache` keeps a
  map without a lock; its callers must not share it.
* Strings, conversion, formatting and validation: their subject is the text
  itself, and reflection.
* Of the modelled parts: printing, `ForEach` and copies; functions of `slice`
  that convert types by reflection; `Curry`, `Delay` and the predicates of
  `util/function`; reading of YAML files; zap's encoder and the global logger;
  failures of the log's underlying writer; the aliasing of a caller's slice in
  `Or`, and `Repeat` without values.
* Examples and generated documentation.
