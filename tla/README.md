# A TLA+ model of shrt

shrt is a URL shortener in Rust. This directory holds TLA+ modules for the parts
of it that keep state, TLC configurations that check them on small instances, and
TLAPS proofs of the results that matter most. `PROJECT.json` lists components,
runs, the source lines behind every definition, findings, hazards and theorems.

## The system

| Part | Source | State | Operations |
|---|---|---|---|
| Local store | `store.rs`, `aof.rs` | sharded index, `dirty` hits per shard, stray deltas, log queue, log file, snapshot, timer threads | `shorten`, `shorten_many`, `update`, `remove`, `resolve`, `flush`, `compact`, `close`, replay at start |
| Log codec | `codec.rs`, `apply` in `store.rs` | none | row, hit and delete lines; parsing; applying a line |
| Tailing | `Tail`, `poll_locked`, `tail_missed`, `TailReader` | one reader (offset) per sibling log, time of the last poll | poll, read on a miss, rescan, boot over sibling files |
| Instance claim | `claim_instance`, `try_lock` in `aof.rs` | lock files | claim, steal, release |
| Rate limiter | `ratelimit.rs` | buckets per address, per shard | `allow` |
| External KV store | `store_kv.rs`, `kv.rs` | rows and counters at a RESP server; cache and `dirty` hits per process | the store's operations, hit flush, janitor, `close` |
| RocksDB store | `store_rocks.rs` | rows and counters in RocksDB, cache, hit batch | the store's operations |
| Store enum | `store.rs` | a shared handle | dispatch; `Drop` closes the engine |
| Mini server, routing | `server_mini.rs`, `app.rs` | per connection: read buffer, reply buffer, whether to close | read, parse, ask the limiter, call the store, write |
| Hyper server | `server_hyper.rs` | connections, a clone of the handle for each | the same handler behind hyper |
| Process | `bin/shrt.rs` | children, signal handler | start, supervise, close on a signal |
| Metrics, base62 | `metrics.rs`, `base62.rs` | counters, a table | |

Requests reach an engine through clones of one `Store` handle. In the local store
they change the index under a shard lock and queue a log line afterwards, under
the log's lock; a flush timer (5 ms) writes the queue and the hit deltas, an fsync
timer (500 ms) syncs, compaction replaces the log by a snapshot, and a restart
replays snapshot and log. With several instances on one directory each appends to
a log of its own and follows its siblings' logs: on a miss, on a timer, at boot.
Which log is whose is decided by lock files. The KV store has no log; its nodes
share a server and differ from it by what they cache and what they have not yet
sent. The RocksDB store keeps the same kind of cache and hit batch over a database
of its own. In front of the engine a thread per connection parses requests,
has the limiter charge creations, calls the store and writes the replies.

What is hard here: index and log are changed under different locks; hits are
counted in one place, collected in a second and logged in a third; a crash may
fall between any two writes to files, and the last line may be torn; readers
follow files that others truncate; lock files are read, judged and removed in
separate steps; a command to the server may have been executed although its reply
never came; an engine reads a row, looks at the clock and writes without a second
look; requests arrive in any pieces, many at once, and connections end anywhere.

What makes each part correct:

* local store: files and queue determine the index; a restart finds what README
  promises ("a process crash loses <= 5 ms of writes, a machine crash <= ~500 ms"); hits
  are neither lost nor doubled on their way; the timers get everything to disk; a
  signal ends the process;
* tailing: a follower's view of a sibling is a prefix of what the sibling wrote;
  a miss looks where the link is; instances converge;
* claim: no two processes have one id; claims end;
* rate limiter: no window grants more than burst, refill and what forgotten buckets
  lacked; clients do not slow each other down;
* KV store: staleness is bounded; a live row goes only by a client's doing; a row
  has one creator; hits are at most once; queue and map of the cache agree;
* RocksDB store: the database has what clients were told, and a process reads its
  own writes; creators, hits and cache as above; expired rows are reclaimed;
* server: replies in order, none held back, none lost without cause; no address
  creates more than its bucket allows; no link outlives `LINK_TTL_MS`.

## Modules

| Module | What it is |
|---|---|
| `LogOps` | log lines as records, what `apply` does with a line, what `parse_op` makes of two lines run together, hit-line orders. No variables. |
| `LocalStore` | the local engine, a step per critical section, with kills, power loss, torn writes, a full disk, failing snapshots, dropped handles |
| `DurableMap` | abstract: a map that comes back after a crash with a value at or after the last flush or fsync |
| `Tailing` | several instances over one directory, a step per line applied |
| `InstanceClaim` | `claim_instance`, a step per system call |
| `RateLimiter` | one shard of the limiter; a call of `allow` is one step |
| `Lru` | a shard of the cache that both other engines use: map, queue, `get`, `put`, `remove` as operators. No variables. |
| `KvStore` | nodes with caches in front of one RESP server, a step per command or per local critical section, both layouts |
| `RocksStore` | threads, timers and cache over one database, a step per database call |
| `Server` | connections of the mini server, the request handler, the limiter and the local store reduced to expiries |
| `LogOpsProofs`, `LocalStoreProofs`, `TailingProofs`, `InstanceClaimProofs`, `RocksStoreProofs`, `KvStoreProofs` | lemmas and theorems about the modules they are named after |
| `ServerProofs` | the same for `RateLimiter` and for `Server`, which extends it |
| `LruProofs` | lemmas for the proofs about both engines with a cache: the cache, and sums over finite sets |
| `MC*` | constants, budgets and symmetry for TLC |

`LocalStore` and `Tailing` extend `LogOps`; `LocalStore` instantiates `DurableMap`
with the values of its index as the map. `KvStore` and `RocksStore` extend `Lru`. `Server`
extends `RateLimiter`, whose actions are conjuncts of its own, so the limiter's
properties are checked as the handler uses it.

### How state and actions correspond to the code

*LocalStore.* `index` is the sharded map (the shards do not matter, since a step
touches one code), `dirty` the shards' hit maps, `buf` the queue of `Aof`, `file`,
`torn` and `synced` the log on disk, `snap` the snapshot. A mutation is two steps:
`Shorten`, `Bulk`, `Update` and `Remove` change the index under the shard lock,
`Push` and `Queue` queue the line under the log's lock (`Push` flushes when the
queue exceeds `FLUSH_BYTES`). `Resolve` counts a hit in the entry, `Bump` adds it to
`dirty`. `Drain` and `FlushWrite` are the halves of `flush_locked`, for each of its four
callers. Compaction is `CompactStart`, `CompactSnap` (or its failure),
`CompactRename`, `CompactTrunc`, with the gate held. `Signal` or `DropHandle` start
`close`; `CloseSync` ends it once the timers have gone. `Boot`, `LoadLine` and `Loaded`
replay. `Kill` keeps the page cache, `PowerLoss` what an fsync covered and any part
of the rest, possibly with a torn line.

*Tailing.* `log` is a function on the instances that have a log; `offset[i]` has a reader
for each sibling that `i` has discovered. `Ask` is a missed `resolve` that takes the
tail lock, `ReadNew` reads what was appended, `ApplyLine` applies a line, `Answer`
looks again. A mutation is one step here; its two halves are `LocalStore`'s concern.
An offset counts lines where the code counts bytes. As long as a log only grows the two say the same.
Once it was truncated behind a reader (`lapsed`) they do not: the code starts over if the file is now
shorter in bytes than its offset, and else reads from the offset, wherever in the new log that is. So
`Resume` then is any place in the log, and what lies before it is skipped (and noted in
`unread`). A boot takes the siblings in any order, as their file names are sorted (`data-10` before `data-2`).

*InstanceClaim.* `pc` is the place in `claim_instance`; creating a lock file, writing
the pid, reading it, asking whether that process lives and removing the file are
steps of their own, and a process may die between any two.

*KvStore.* `row` and `count` are the server; a row has the expiry that the node stored
in it and the time at which the server drops it (`PX`; none in the hash layout).
A command has three outcomes: done, not done, done and the reply lost; the last two
look alike to the caller. A pipe that fails has executed any part of its commands
(its commands concern different codes, so one step for a pipe loses nothing). The
cache is one shard of `Lru`. `Fill` caches what `KvGet` read earlier, with commands
and invalidations of others in between.

*RocksStore.* `row` and `count` are the two column families. A row has the format
that its version tag tells: what this version writes (`v1`), or what an older one left.
`row()` is three steps, the read (`RowGet`), the look at the clock (`RowCheck`, or `Fill`
for a resolve) and, if expired, the delete by name (`Reap`). `Put` and `Del` are the
writes of `update` and `remove`, `Forget` the cache's part of them. `NxGet` and `NxPut` are
`put_nx` under `alias_lock`; `Bulk` takes no lock, and falls back to `put_nx` code by code
when its batch fails (with the expiry of the call, or a new one for a code that is then
drawn anew). Timer, listing and close each may have a batch of hits in hand.
`Compact` is a full compaction with `expired_filter`.

*Server.* What a client sends is the sequence of requests and junk that the parser finds in it, which
need not be the requests it meant: `handle_conn` leaves a body that it does not expect, on a `GET` or `DELETE`,
in the buffer, where it is a request of its own, the beginning of the next one's method (an
operation `other`), or junk. Each is two tokens for a head and one per unit
of body (`BodyLen`), and `Read` takes any part of what is left of it; once it is all read, a read
returns nothing, which is the client's close. `at` is the place in the loop of
`handle_conn`. At `"parse"` the buffer is empty or partial (`Partial`), begins with
something that is no request (`Drop`), with one too large (`TooLarge`), or with a complete
one: a creation goes through `Admit` (the limiter), everything else and what was
admitted through `Run`, which answers from the request alone (`Unrouted`) or from the
store (`Stored`). A time to live is counted in half milliseconds, so that what is lost
when the float becomes an integer is seen. Only request targets that begin with `/`
are modelled.

### History variables and exceptions

No guard reads a history variable. Some name what the code does not protect, and
a property excepts exactly what they name:

* `excused` (LocalStore): codes on which two threads were between index and log at
  the same time, codes whose lines a torn write, a full disk or a failed
  snapshot took, and codes whose row lost its instance in a torn line. `RecoveryExact`
  is `RecoverySound` without this exception.
* `unread` (Tailing): codes whose lines were compacted away before a reader got to them, or written
  to a truncated log before the place where the reader resumed. (`lapsed`, the logs truncated behind a reader,
  is no history variable: `Resume` depends on it.)
* `granted` (Tailing): who has ever created a code. `PrefixView`, `MissFindsFlushed`,
  `HitsTailed` and `Converges` are about the codes that one instance alone created (`Sole`): generated
  codes and aliases that were asked of no other. A client may ask any instance for another's
  generated code as an alias, and `tail_view` has clients that do.
* `due` (Tailing) excepts nothing: it records in which logs a missed code stood when
  the request came in.
* `robbed` (InstanceClaim): processes whose lock file was removed by one that
  had read another, dead, process's id in it.
* `blind` (KvStore): codes that `shorten_many` returned after its pipe had failed.
* `renewed` (KvStore): codes written since a janitor found them expired that is still to
  delete them.
* `raced` (RocksStore): codes that one thread wrote while another had read them and
  was not finished; `blind`: codes that a bulk call drew although they were taken.
* `forever` (Server): codes whose `ttl_ms` was below one when it was last set.
* `cut` (Server): connections on which a read or a write failed.

## Runs

| Run | Instance | Checks |
|---|---|---|
| `store_safe` | 2 codes, 2 urls, 2 threads, instance 1; 2 mutations, 2 crashes, 1 compaction; every fault | `LogMatchesIndex`: snapshot, log and queue determine the index. `RecoverySound`: a restart finds a value since the last flush or fsync |
| `store_hits` | 2 codes, 2 threads; 2 mutations, 2 resolves, 1 kill; links that expire | `TypeOK`; `HitsAccounted`: a hit is in exactly one place on its way |
| `store_live` | 1 code, 2 urls, 1 thread; 2 mutations, 1 resolve, 2 crashes, 1 compaction; fair | `EventuallySynced`; `HitsReachLog`: the hits a link has come to be in log or snapshot, unless the link or the process goes; `SignalEnds`; `ImplementsMap`: refinement of `DurableMap` |
| `tail_view` | 2 instances, a generated code, asked for as an alias too, and an alias; 2 mutations, 1 resolve, 1 crash, 1 compaction | `TypeOK`; `PrefixView`: a follower has of a sibling's codes what its snapshot and the part of its log read so far say; `MissFindsFlushed` |
| `tail_live` | 2 instances, a generated code each; 2 mutations, 2 resolves, 1 crash; tail timer; fair | `HitsTailed`: a hit is counted once by every instance that has applied its line; `Converges` |
| `claim` | 4 processes, 2 slots, 1 admitted id; fair | `TypeOK`, `SharedOnlyByTheft`, `ClaimEnds` |
| `kv` | 2 nodes, 2 codes, 2 urls, a cache of 1; 3 steps out of 2 resolves and 2 mutations, failures, kills or closes; 2 ticks; links with and without expiry; both layouts; one row from the start | `TypeOK`; `StaleBound`; `HitsNeverDoubled`; `CreatedOnce`; `LiveRowKept`: a live row changes only by an update or removal |
| `rocks_rows` | 2 threads, 2 codes, 2 urls, a cache of 1; 3 steps out of 2 mutations, 2 resolves and 1 failure, kill or close; 2 ticks; an old row of either format | `TypeOK`; `CacheConsistent`; `AckedRowKept`: the database has the row clients were last told of; `ReadsOwnWrites`; `HitsNeverDoubled`; `CreatedOnce` |
| `server` | 2 connections with up to 3 pipelined requests each, in 8 combinations; 2 addresses, a limiter map for 1, burst 3, idle after 2; 2 ticks | the limiter's `TypeOK`, `WindowBound`, `Isolation`; `ServerTypeOK`; `InOrder`; `NoneWaits`; `CleanEnd`; `LifetimeCapped`; `CreationBound` |
| `store_torn_loss` | 1 thread, power loss with a torn line, then a second crash | violates `RecoveryExact` |
| `store_drop` | a write after a clone was dropped; fair | violates `EventuallySynced` |
| `rocks_sweep` | one request, compactions without end; fair | violates `ExpiredReclaimed` |

The three violations are findings: `aof.rs` appends behind a torn line and loses
its own next line, fsynced or not; dropping any clone of the handle (the hyper
server clones it per connection and request) stops the timers of all; the
compaction filter of the RocksDB store parses what stands before the first `|`, where
rows have had their version tag since it was introduced, and so drops none of them.

### Bounds

Every bound is a constant: `Budget` (how often each kind of step may happen), `MaxNow`, and
the sets of codes, urls, threads and nodes. They are small, and chosen so that the
cases in question happen: two mutations are what it takes for two threads to meet on
one code, or for a compaction to fall between one and the next; two crashes, for a
recovery to build upon a recovered state; a cache of one entry and two codes, for
eviction; two ticks with a cache time of one, for an entry to outlive its time (an
answer of the server is used within the tick in which it was given: `Latency` is 0); an old row that has
just expired, for a reap or a sweep to meet an update. The limiter's map for one
address makes every second address evict, and two ticks make a bucket idle that they do
not refill (burst 3 at a rate of 1), so that forgetting it gives something away. Codes do not affect each other except in the cache, the queue
and the log's order, where two suffice to tell them apart. `CHECK_DEADLOCK FALSE`
stands where processes or connections may all have ended (claims, server) or where the budgets of the
environment may all be spent (`store_drop`, KV, RocksDB). The combinations of
requests in `MCServer` are chosen so that every route is taken and every pair that
meets in the store or the limiter is there; how they are cut into reads and
interleaved is left open.

Urls, threads and (with their threads) nodes are symmetric where no liveness is
checked.

### Fairness

`LocalStore`: timers fire again and again (their threads loop until `stop`), who
holds or waits for a lock goes on, a process that replays comes up, one that closes
goes down. `Tailing`: the same for the tail timer (`TAIL_MS` > 0), the flush timer
and a started boot. `RocksStore` (for the violation only): timers and compactions come again and again,
begun requests go on, time passes. `InstanceClaim`: a claim that was begun goes on unless its process
dies. All of it is weak fairness. Nobody has to call the store, compact, or crash.

## Proofs

All for arbitrary constants, from the assumptions named in the modules. The
inductive invariants are definitions at the end of the modules they are about, or,
for the local store, tailing and the flood bound, of the proof modules (`StoreInv`,
`RecoveryInv`, `CalmInv`, `HitInv`; `ViewsInv`, `AskInv`, `HitInv`; and their parts;
`Covered`). TLC found no violation of them on small instances before they were proved,
except for `Covered`, which speaks of all ways to keep an account and is out of its reach.

*Local store* (`LocalStoreProofs`, `LogOpsProofs`)

* `TypeCorrect`: `Spec => []TypeOK`. The invariant is `TypeInv`, `TypeOK` with
  `ThreadInv`: a thread between operations holds no lines, and a bulk request only rows.
* `LogAlwaysMatches`: `Spec => []LogMatchesIndex`. The property is not inductive: it
  says nothing of a process that is down or loading, or of what compaction has in
  its hands. `StoreInv` adds: no thread or flusher holds lines while compaction has
  the gate (`GateInv`, `AloneInv`); what is left of a process that is down (`DownInv`);
  that the temporary snapshot is the index of the codes it covers (`SnapInv`); that
  while loading the index is what snapshot and replayed lines determine (`LoadInv`).
  `LogOpsProofs` has the lemmas on `Determines`: what a log determines after a line is
  appended, after one more is applied, when two lines run together.
* `RecoveryIsSound`: `Spec => RecoverySound`. At the end of a replay the index is what snapshot
  and log determine (`LoadInv`), so the question is what values those can determine
  after any sequence of flushes, fsyncs, crashes and compactions. `RecoveryInv` adds to
  `StoreInv`: every value in the index, in a thread's hands or in the queue is one that
  the code has had since the last flush and fsync (`HeldInv`); every prefix of the log no shorter than
  what was fsynced determines, over the snapshot, a value since the last fsync, and
  the whole log one since the last flush, or, after a crash, one that is owed (`FilesInv`); entries of a running process are
  its own unless excused (`OwnInv`). `LogOpsProofs` has that the value a log determines is
  the one of its last line that sets the code (`LastSetter`), so that a prefix or a
  longer log has an answer too.
* `UndisturbedImplements`: `Spec /\ [](excused = {}) => ImplementsMap`, a behaviour in which no
  two writers met and no fault struck implements `DurableMap`. `CalmImplements` says
  when that is so: with `Calm` (no torn lines, no failing writes or snapshots; one thread, or
  any number that only create; kills, power losses, compactions and closes as many as you
  like) `excused` stays empty (`CalmInv`), so `Spec => ImplementsMap`.
* `HitsAddUp`: `ASSUME Additive PROVE Spec => []HitsAccounted`. `Additive`: nobody updates, removes or compacts,
  no write is cut short, and the map of stray hits has room for every code; any number
  of threads, kills, power losses and closes. (Without these, hits go with their
  link, are lost, or are counted twice: see the weak points.) `HitInv` adds to `CalmInv`: files and queue have rows without hits, and hits of
  this instance (`PlainInv`); a code has one row, in one place (`OnceInv`), which is why replay
  never finds an entry that a row would overwrite; who holds a hit, and that a process
  that is down holds none (`BusyInv`); and the sum, also while loading, where the index shows what the
  replayed lines record (`SumInv`). The hits of a log are the set of pairs of a line and a number
  (`HitsIn`), so what a log records is a cardinality and needs no recursive sum;
  `LogOpsProofs` has that it adds up over two logs in a row (`HitsConcat`), that the
  deltas of a flush are each there once (`OrdersAll`), and what a line adds to the hits an
  index shows (`ApplyTally`). The sum over the threads needs finitely many of them
  (`StoreAssumption`).

*Tailing* (`TailingProofs`), for any number of instances, codes and urls and any assignment
of prefixes:

* `TailTypes`: `Spec => []TypeOK`, with the types of what `TypeOK` leaves out (`TypeInv`).
* `TailView`: `Spec => []PrefixView`. Not inductive for three reasons, and `ViewsInv` adds what is
  missing. An instance may crash and come back, and then follows from where its
  own boot has brought it: `StageInv` says what it holds at each stage, and `ViewInv` extends
  the property to booting instances and to logs without a reader or truncated behind one, of which
  nothing but the snapshot has been seen; when such a log is read again, from wherever, the codes of the skipped
lines are in `unread`, and for the others the rest of the log says what all of it does. The sibling may compact: what its new snapshot says
  is what its index says, so `SelfInv` has that an instance's own index is what its
  snapshot, log and queue determine, and `TruncInv` that between rename and truncation
  the snapshot says what the log does, the whole of it and the part each follower
  has seen. And lines of others might set the code: `LinesInv` and `HadInv` have that
  lines, snapshots and entries for a code are of instances that created it.
  `LengthInv` keeps readers within logs that were not truncated behind them.
* `TailMiss`: `Spec => MissFindsFlushed`. A log that was due is still to be read, with lines of the code past
  what has been seen, or has been read and gave the code a value (`AskInv`), whatever
  its writer does meanwhile.
* `TailHits`: `ASSUME Additive PROVE Spec => []HitsTailed`. `Additive` here: nobody updates, removes or
  compacts, and the map of stray hits has room for every code. `HitInv` adds to `ViewsInv`: what is in hand
  is the next part of the log it came from (`InboxInv`); a log has one row of a code (`OnceInv`), and who has the
  entry is who has applied that row, or its creator (`RowInv`), so that no row is applied
  over counted hits; and the sum (`SumInv`), for instances that replay too.

*Rate limiter* (`ServerProofs`): `RateTypes`, `WindowBoundHolds`, `ClientsAreIsolated`. The
limiter's settings are any positive numbers: the code takes `RATE_LIMIT` and `RATE_LIMIT_BURST` as
they come. If an idle time refills a bucket (`RATE_LIMIT_BURST <= 60 * RATE_LIMIT`), forgetting it gives nothing away
(`Excess` is 0) and the bound is burst plus refill. If not, each forgetting gives at most `Excess`, and one
address is forgotten at most once in an idle time, since its bucket was used in between. The inductive
form (`WindowInv`) bounds the tokens granted and those available together, and counts idle times only
up to the last use of the bucket (`Past`).

*Instance claim* (`InstanceClaimProofs`): `ClaimTypes`, and `IdsAreExclusive`:
`Spec => []SharedOnlyByTheft`, with `HasItsLock` (who was not robbed still has the file it
created), `TextIsOld` and `SeenIsDead` (who is about to remove a file has read a dead
process's id).

*Cache* (`LruProofs`): `get`, `put` and `remove` keep map and queue in agreement, the queue
without repetition and no longer than it may be. `Retained` (`VecDeque::retain`) is
recursive; what it computes is proved by a smallest counterexample.

*RocksDB store* (`RocksStoreProofs`): `RocksTypes`, `RocksCacheConsistent`, `RocksHitsNeverDoubled`
(with what each flusher has in its batch), `RocksAckedRowKept`, `RocksReadsOwnWrites`,
`RocksCreatedOnce`. The last three rest on what a thread in the middle of a call knows: that
what it has read is still the row unless the code was raced, that who is in `put_nx`
holds `alias_lock`, and that an entry of the cache which differs from the row is about to be
forgotten.

*KV store* (`KvStoreProofs`): `KvTypes`, `KvCreatedOnce`, `KvHitsNeverDoubled`, `KvStaleBound`,
`KvLiveRowKept`. `KvStaleBound` supposes `CacheTtl > 0`, since with 0 entries never go stale, and
needs that what a thread has read and not yet cached is young enough (an answer is
used within `Latency`). `KvLiveRowKept` is an action property; it needs that the server
drops no row before it has expired (`PxHolds`) and that what a janitor is about to
delete has expired unless it was renewed (`DeadHolds`). The sums of hits over the nodes need
finitely many of them.

*Server* (`ServerProofs`), for any number of connections, any streams of requests
cut into reads at any place, any limits of bodies and any limiter:

* `ServerRunsLimiter`: `ServerSpec => Spec`, the server implements the limiter's
  specification, so its theorems hold inside the server. The limiter is asked for
  addresses and costs that it is specified for (`PriceAssumption`).
* `ServerTypes`, `ServerInOrder`, `ServerNoneWaits`, `ServerCleanEnd` rest on `ConnHolds`: buffer and wire hold
  the rest of the stream (`InStream`); that rest begins with the next request to be
  looked at, or with the one that was too large (`InPlace`); a request that was
  admitted stays complete until it has run (`Admitted`); a thread writes when nothing
  in the buffer can be acted on (`Settled`); and how a connection comes to its end
  (`Ending`). The lemmas before them say where in the stream each request is
  (`StreamLayout`), by induction over the stream.
* `ServerLifetimeCapped` is inductive with the types.
* `ServerCreationBound`: between limiter and store a thread holds a grant that is neither
  spent nor available. The invariant (`Covered`) puts what all threads hold for an
  address on an account, additive over sets of connections, and bounds links made,
  grants held and tokens available together.

The requests of `Server` have what the router needs: a `PATCH`, a `DELETE`, a look at a link or its
statistics whose path is valid names a code.

What a recursive definition computes is proved here by way of a smallest
counterexample: `WFMin` over the numbers or the finite subsets is a fact about sets,
and needs no rule with an operator as parameter.

Only model-checked: everything that needs fairness (`EventuallySynced`, `HitsReachLog`, `SignalEnds`,
`Converges`, `ClaimEnds`), since the prover used does not do liveness or `ENABLED`. Every
invariant and every action property that a passing run checks is proved.

## Known weak points

Behaviours met while modelling that the properties except or that no property
claims. Each can be seen by checking the unweakened form.

* Two writers of one code may queue their lines in the other order than they
  changed the index (`store.rs:596`); check `RecoveryExact` with two threads and `update`.
* A row whose line was torn behind its url belongs to instance 0 when it is replayed. Any other
  instance then leaves it out of its snapshot (`store.rs:695`) and truncates the log: the
  row is lost with the next restart. The proof of `RecoverySound` did not go through until
  this was excepted.
* A failed snapshot does not keep `compact` from truncating the log (`store.rs:711`).
* A hit counted in its entry before a compaction and in `dirty` after it is counted
  twice by the next process; `update` logs its row with zero hits, so a restart
  forgets the earlier ones; a full map of stray hits drops an entry for each new hit (`store.rs:171`).
  `HitsAccounted` and `HitsTailed` are checked and proved without these.
* Lines compacted before a sibling has read them reach it only when it restarts, and a log that
  was truncated and has regrown past the reader's offset, in bytes, is taken for one that has only grown and read from the
  middle (`aof.rs:115`), although the comment of `read_new` has a file that shrank rescanned from the start.
* An instance that boots between the rename and the truncation of a sibling's
  compaction, or whose siblings start at the same time, may come up without their latest rows.
* A miss on an alias whose first character is a prefix reads that instance's log only
  (`store.rs:376`), although the comment of `tail_missed` has aliases looked for in
  all; `MissFindsFlushed` leaves these aliases out.
* Two instances may grant one alias. Each then applies the other's row on top of its own, and a removal
  by one takes the other's link from its view; what an instance has of the code depends on the order in which it reads the
  logs. The proof of `MissFindsFlushed` did not go through for aliases until it was stated for codes that one
  instance alone created.
* A process may remove the lock file that another has just put in place of a dead
  one's; one that dies between creating and writing its file blocks the slot.
* When no bucket is idle the limiter's map exceeds `MAX_KEYS`. With `RATE_LIMIT_BURST > 60 * RATE_LIMIT` a bucket
  that is forgotten after a minute comes back fuller than it was.
* KV: the janitor deletes by name what it found expired earlier; a field renewed
  meanwhile, by `update` or by a new `shorten` after another node's sweep, goes with
  it. `update` brings back a link removed between its read and its write, and
  without `PX` when the link expires in that very moment. Counters of expired links
  stay and are inherited by the next owner of the alias. A lost reply to `update` or
  `remove` is reported as a missing link. `shorten` loops while the server is down.
  `shorten_many` returns its codes even if its pipe failed.
* RocksDB: a read that finds a row expired deletes by name what an update has renewed
  meanwhile; `update` brings back a link removed between its read and its write; a bulk
  call overwrites a row whose code it draws, and keeps a code that its fallback finds
  taken; `update` with a ttl of 0 expires the link at once, which in the other engines
  means never; an expired alias stays taken until somebody reads it.
* Server: `ttl_ms` below one, as in 0.5, passes the check, becomes 0 and makes a link that
  never expires, and so does a `PATCH` with `ttl_ms` of 0 or less, against "default AND max
  link lifetime" (`app.rs:15`). Replies to the requests that precede malformed bytes in
  one batch are dropped although the requests were carried out. The body of a `GET` or
  `DELETE` is not skipped and is parsed as the next request.

## Not modelled

* Metrics: independent relaxed counters that nothing reads back; in `tick` a thread
  that is late may move `CUR` back and make the next one clear the current second.
* The supervisor: it starts its children once, forwards SIGTERM and waits; none is
  restarted. The benchmark, which is a client.
* The bytes of HTTP and JSON, what makes a url or a code valid (one flag of a
  request), listings and pages; hyper's own framing.
* Durability of `rename` and `truncate` themselves under power loss, and errors of
  `sync_all`, which the code ignores.
* Shards of a map one by one: steps on different codes commute, so a drain or a
  snapshot takes all at once. The check of `stop` and the flush that follows are one step.
* The bytes of a line: two lines run together may parse as any combination of
  their fields (an over-approximation); escaping is not modelled.
* Tailing: bytes within a line (`leftover`), expiry.
* Reuse of process ids; an explicit `INSTANCE`, which takes no lock.
* Floating-point tokens, a clock that steps back, `RATE_LIMIT=0`.
* KV: the wire format, the connection pool, the server's own loss of data, buckets,
  a cache time of 0 (entries that never go stale).
* RocksDB: what its own log loses with the machine; compactions that it starts by
  itself (a full one covers them); iterators of a listing.
* Server: an engine other than the local one behind it; the memory that a slow client's
  buffer takes.

## Plan

1. `TailReader`: a byte-level reader (`leftover`, truncation within a line) that
   refines the line-level one of `Tailing`.
2. Codec: row, hit and delete lines as field sequences, escaping and the round trip
   over bounded inputs.
