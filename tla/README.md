# Verification of the hybrid disaggregated-memory index

The repository is an ordered key-value index for disaggregated memory: an
adaptive radix tree (a fork of SMART) whose nodes and leaves live on memory
nodes and are read and changed by compute nodes with one-sided RDMA verbs.
This directory holds TLA+ models of its concurrent parts, the TLC
configurations that check them on small instances, and TLAPS proofs about the
local locks, the page cache, the barriers and the memory allocation.

Paths below are relative to the repository root; `Tree.cpp` is `src/Tree.cpp`.

## 1. The system and its parts

| Part | Where | State | Operations |
|---|---|---|---|
| Adaptive radix tree | `Tree.cpp`, `include/Node.h`, `include/Key.h` | pages (reverse pointer, header with depth, type, compressed path, 256 slots), leaves (reverse pointer, key, value, checksum, lock bit), the root entry | `insert`, `search`, `range_query` |
| Local lock table | `include/LocalLockTable.h` | per lock node: tickets, currents, windows, handover flags, keys, a result and a combining buffer | acquire and release of the read and the write lock, `get_combining_value`; the lock and CAS handover of the comparison builds |
| Index cache | `src/RadixCache.cpp`, `src/NormalCache.cpp` | snapshots of pages by path prefix, an eviction list, a byte budget, retired entries | add, search, invalidate, evict |
| Local value cache | `include/LocalCache.h`, `test/ycsb_test.cpp` | buckets of values, most recent first | `query`, `insert` around tree operations, migration |
| Memory allocation | `include/DSM.h`, `include/LocalAllocator.h`, `include/GlobalAllocator.h`, `src/Directory.cpp` | bitmap and tail of each directory, chunk and free list of each thread | `alloc`, `alloc_nodes`, `free`, MALLOC messages |
| Message rings | `src/AbstractMessageConnection.cpp`, `src/RawMessageConnection.cpp` | posted receives in four batches, send buffers used in turn | `getMessage`, `getSendPool`, `sendRawMessage` |
| Verbs and completions | `src/DSM.cpp`, `src/rdma/Operation.cpp` | send queues, a completion queue per thread | read, write, CAS, masked CAS, FAA, batches and pairs of these |
| Coroutine runner | `Tree.cpp` 1571-1640 | busy and waiting queues | `coro_worker`, `coro_master` |
| Start-up, barriers | `src/Keeper.cpp`, `src/DSMKeeper.cpp` | keys of a memcached server, queue pairs | `serverEnter`, `serverConnect`, `barrier`, `sum` |

How they meet: at the start the servers find each other through memcached and
connect their queue pairs. A coroutine of a compute node takes a request, asks
the local value cache and calls `Tree::insert` or `Tree::search`. The call
first goes through the local lock node its key hashes to; one caller (a
*winner*) goes to the remote tree for those that are handed its result
(*losers*). The winner looks for a starting point in the index cache of its
compute node, walks the tree with RDMA reads and changes it with CASes,
allocating pages and leaves from its thread's allocator, which asks a directory
thread on a memory node for chunks by message. At every verb the coroutine
yields to the master of its thread, which resumes it when the completion
arrives.

What makes it hard: no latch protects an internal node, every change is one
CAS on one 8-byte word, and most operations need several (link a page, fix the
reverse pointer of the child, shorten the header of the child; link a leaf
behind the node type, raise the type in the entry, raise it in the header).
Readers use cached pages that may be arbitrarily old, and the index cache
reuses its objects under readers after a fixed number of later ones. The local
lock node is a pair of ticket queues with shared windows, 8-bit counters and
several fields that are written outside any lock. Nothing tells a coroutine
that it was resumed too early, nor a sender that a datagram was dropped.

## 2. Modules

| Module | Models | Checked by |
|---|---|---|
| `Tree` | `insert` and `search` of the radix tree, with index caches | `MCTree`, `MCTreeScenes` |
| `RangeQuery` | `range_query` on top of `Tree` | `MCRange`, `MCTreeScenes` |
| `LocalLock` | one `LocalLockNode` and the clients of a compute node | `MCLocalLock`, `MCProgress` |
| `LocalLockProofs`, `LocalLockWindows` | theorems about `LocalLock`: types, tickets and keys, and on top of these the windows | tlapm |
| `HandoverLock` | local locks that hand on a remote lock or the result of a CAS | `MCComputeNode` |
| `HandoverLockProofs` | theorems about `HandoverLock` | tlapm |
| `RadixCache` | the inner radix tree of the index cache, eviction and reuse | `MCRadixCache`, `MCComputeNode` |
| `SnapshotMap` | what the index cache promises; `RadixCache` implements it | `MCComputeNode` |
| `LocalCache` | the local value cache and the benchmark's calls around the tree | `MCLocalCache`, `MCComputeNode` |
| `LocalCacheProofs` | theorems about `LocalCache` | tlapm |
| `DSMVerbs` | the calls of `DSM`, their work requests and completions, the coroutine master | `MCProgress` |
| `MemorySizes`, `Allocator` | the two levels of memory allocation | `MCProgress` |
| `Rpc` | `Allocator` with the message rings below it | `MCProgress` |
| `AllocatorProofs` | theorems about `Allocator` | tlapm |
| `RpcLines`, `RpcProofs` | lemmas about the connections of `Rpc`, and the theorems about it | tlapm |
| `DSMKeeper` | entry, connection, barriers and sums over memcached | `MCProgress` |
| `DSMKeeperProofs` | theorems about `DSMKeeper` | tlapm |

A component that others use appears in them by what it promises: in `Tree` the
index cache is a set of snapshots that may be stale, missing or replaced (what
`SnapshotMap` says); a verb is one atomic step (what `DSMVerbs` shows of a
single request); a new page is fresh (what `Allocator` shows). `RangeQuery`
composes with `Tree` and `Rpc` with `Allocator` by extending it: their steps
interleave on one state.

### LocalLock

State. The paired fields `read_xxx` and `write_xxx` of `LocalLockNode` are one
function `xxx` with domain `{"read", "write"}`: `ticket`, `current`,
`handover`, `window`, `mutex` (`r_lock`, `w_lock`), `unique`
(`unique_read_key`, `unique_write_key`). `window_start`, `ret_value` and
`wc_buffer` keep their names. Counters wrap at `TicketMod` (256 in the code).
The tree below the lock is `mem`, one cell per key. The rest are the locals of
the clients and the history that properties refer to (`winner_key`,
`audience`, `picked`).

Actions. One action per access to a field other clients may touch at that
moment: `Begin` offers the key, `Overwrite` fills the buffer, `TakeTicket`,
`Wait`, `CheckKey` and `CheckWindow` are the rest of the acquire;
`GetCombiningKey` and `GetCombiningValue` are the two halves of
`get_combining_value`; `Remote` is the access to the tree; `Release` to `Pass`
are the release: result, opening and sizing of the windows (the other queue's
under its mutex), handover flag, key reset, window count-down, next ticket.
A head whose queue has changed key runs the count-down without the mutex, as
the code does.

### HandoverLock

The same lock node keyed by an address, in the build with
`TREE_TEST_HOCL_HANDOVER`. `acquire_local_lock` takes a ticket, `Turn` is the
end of the wait and the decision to take over, `acquire_lock` the CAS on the
remote lock of whoever was not handed it, `Write` the update,
`ReleaseLock` and `unlock` the release. When the next in the queue is for
another address it first unlocks the address it was handed
(`ToUnlock`). The `cas` form hands on the result of an operation instead of a
lock (`Serve`, `ReleaseCas`). All addresses collide in one entry of the table,
and a client of another compute node competes for the remote lock.

### Tree

State. `nodes[1].rec[0]` is the root entry; a pointer to an entry is a pair
of page and slot. A page has its reverse pointer, header (`depth`, `type`,
`partial`) and slots, a leaf its reverse pointer, key, checksum, value and
lock. The checksum is the value it was computed from, so a half-written leaf
has a checksum that differs from its value. `NodeNum` lists the slots of the
node types. `cache` holds each compute node's snapshots of pages: a lookup may
hit any matching snapshot or miss (entries expire and are evicted), adding
replaces the snapshot of the same prefix. `order` and `acked` are history: the
values each key took and how much of that a finished operation has seen.

Actions. One action per RDMA verb on memory that another client can reach.
Pages and leaves that nothing points to yet are written in the step that links
them. The whole-leaf write of an in-place update is two steps (`WriteLeafHead`,
`WriteLeafRest`), so readers meet torn leaves. `CasNull`, `CasEmpty`,
`InsertBehind` link a leaf; `SplitLeaf` and `SplitHeader` link a chain of
pages (a header holds `hPartialLenMax` bytes), followed by `FixChildRev` and
`CasHeader`; `ReadLeaf`, `ReadNode`, `ReadNodeRest` read, `FixLeafRev` and
`FixNodeRev` correct reverse pointers; `SwitchEntry`, `SwitchHeader` and
`SwitchFindTarget` are `cas_node_type`; when entry and header are swapped by
one `two_cas_mask_sync`, the verdict on the header compares the whole word, so
that a header that was split meanwhile costs one more try. Every `insert` starts after the load
phase of the benchmark, which inserts with `is_load`.

Each client is on a compute node of its own. Clients of one compute node meet
in `LocalLock`, and share an index cache, whose staleness the nondeterministic
lookups cover. Clients follow the coroutine build, where verbs called
*async* are waited for too. Every insert brings a new value, so the early
return for an unchanged value is not taken.

### RangeQuery

`range_query` of one client, the `Scanner`, next to the inserts and searches of
the others; its locals are the record `scan`. `RangeQuery` looks every key of
the range up in the index cache; if nothing is cached, `search_entries` goes
down to the depth where the bounds part (`RereadEntry` when a page turns out
invalid). Then the query works level by level: `ReadRegion` is one region of
the batched read, into the buffer an earlier level left its data in,
`ProcessRegion` works one region off: an invalid one has its entry re-read, a
page contributes its entries in range (`range_query_on_page`) and is put into
the index cache, a leaf its value. An address is read once (`tokens`), which
bounds the query. `search_entries` looks the lower bound up in the cache again;
as `range_query` has just missed it, the model starts at the root.

### RadixCache and SnapshotMap

A prefix is a sequence of bytes, a page snapshot a pair of its prefix and a
number. A node of the cache's own radix tree has a header (`depth`, `partial`)
and records, each with an entry and a child. `add_to_cache` takes an object from the
pool; `Visit` reads a header and one record; `SplitNext` and `SplitHeader` are
the two CASes of a split, `CasEntry` and `CasNext` the others; `Bookkeep`
charges the budget, retires the replaced entry and appends to the eviction
list; `CheckBudget`, `_evict` and `Rebuild` follow. `search_from_cache`,
`_search` and `Examine` walk down, remember the entries on the way and try
them deepest first; `Use` is the tree's verdict on a hit. Past the end of the
prefix the code compares whatever byte lies there: `junk`. An object is
released when `safely_free_epoch` later ones have been retired. The branch of
`_insert` for a deleted node is dead code: a child pointer never becomes null
again, so the model has no action for it.

`SnapshotMap` is the abstract cache: a partial function from prefixes to
snapshots taken for them, changed one prefix at a time or dropped as a whole.
`RadixIsAMap` is the refinement: `Contents` looks every prefix up in the tree
of nodes, and every step of `RadixCache` is a step of `SnapshotMap` or leaves
the map alone. In particular linking and shortening in two CASes hides nothing.

### LocalCache

Buckets are lists of nodes, the most recently used first, behind a mutex;
`query` tries the candidate buckets of a key in turn, insert reads their loads
(`ReadLoad`), locks the least loaded one (`LockChosen`), and adds, evicts and
possibly migrates (`Emplace`, `Migrated`). `work_func` and `Resume` are the
benchmark's calls around `TreeOp`. A thread runs one coroutine at a time. The
migration of a bucket's last node reads remote memory and so yields with the
mutex held; another coroutine of the thread that wants this mutex stops the
whole thread. The model has this as the step `Hung`, so that it is not
reported as a deadlock; `LocksAreHeldBriefly` says that this is the only way to
get there.

### DSMVerbs

One thread. Every `_sync` call of `DSM` is an operator that returns the lists
of work requests it posts and the CAS outcomes it reports. `Begin` posts, with
only the last request of a list signaled; `Execute` is the card, which runs the
requests of a queue pair in order and of different pairs in any order;
`PostNext` is the next list of a call that posts several; `Return` computes the
outcomes from the buffers. `StartWorker`, `poll_rdma_cq_once` and `PopBusy` are
`coro_master`; `BusyWait` is a worker that queues a predicate. Without a
coroutine context the caller polls itself (`pollWithCQ`). A word has two bits,
so that a mask and a field boundary can cut it. What follows from the code and
not from its comments: `rdmaReadCas` exchanges its two destinations (nothing
calls `read_cas_sync`), `two_cas_mask_sync` compares whole words after masked swaps
(`DSM.cpp` 583) and can report a swap that took place as a failure, which
`VerdictsAreTrue` admits for this call alone; and a pair of requests to two
memory nodes, as in `cas_write_sync`, is neither ordered nor atomic.

### Allocator and Rpc

State. `bitmap` and `bitmap_tail` of each directory, `head`, `cur` and
`free_list` of each thread's allocator for each directory, the round-robin
target of each thread, messages under way, and `live`, the blocks the callers
hold. Actions: `Alloc` up to its return or to the MALLOC message,
`process_message` in the directory, `RpcWait` from the reply to the return,
`Free` of the pages of a split that lost its CAS (into the list of directory 0
of the node, with the aligned size, as in the code). A thread does not yield
inside `alloc`, so its coroutines do not interleave there.

When a directory runs out of chunks it clears its bitmap and starts over with
chunks that are in use; the address of the first carries node 2. `DSM::alloc`
once compared the mark and the comparison is commented out. The model does the
same and records it in `exhausted`; the safety properties speak of the time
before. `Free` of a block marked with node 2 would index an array out of range
and is left out.

`Rpc` puts the message rings below: each connection has `nr` receive buffers,
posted in order and posted again a batch at a time when the reader crosses a
batch boundary (`getMessage`), and `nr` send buffers used in turn
(`getSendPool`), of which the card reads the content when it sends
(`TransmitRequest`, `TransmitReply`). `Delivered` drops a datagram that finds no
posted buffer. `sendRawMessage` waits for a completion only at every
(`SIGNAL_BATCH`+1)-th send. The buffers decide: a directory answers whatever
thread the next receive buffer names (`Process`), and a thread installs whatever
address its buffer holds (`rpc_wait`), asked for or not. The sets `requests` and
`replies` of `Allocator` do not guard these steps; they record what should be
under way. `RingsHoldTheMessages` compares them with what the buffers hold
(checked in two scenes as `MessagesAreKept`), and `RingsCarryMessages` is the
refinement: each step behind the rings is a step of `Allocator`, where a
directory answers only who asked, once, and a thread gets its own answer.

### DSMKeeper

`serverEnter` to `connectMySelf` are the constructor: a server counts itself in,
exchanges the numbers of its queue pairs with each server it has seen
(`ConnectSet`, `ConnectGet`) and connects them; `peer` is the pair each queue
pair was connected to. Then come barriers (`BarrierSet`, `BarrierAdd`,
`BarrierGet`) and a sum. memcached is external: empty at the start
(`script/restartMemc.sh`), every call succeeds in the end. Server ids are
`0 .. maxServer-1` from the address table (`STATIC_ID_FROM_IP`), independent of
the order of the starts. A barrier key that is reused, or a memcached that is
not restarted, would find old counters; no caller in the repository does this.

## 3. Runs

Passing:

| Run | Instance | What it shows |
|---|---|---|
| `tree` | scenes *split*: 2 clients, 4-byte keys, headers of 2 bytes, 3 inserts, a search; *cached*: 2 inserts or updates and 2 searches below a cached page; *switch*: 3 clients fill a page of 3 slots past its type; *cut*: 2 clients switch while its header is split; *scan*: a range query next to two inserts; *narrow*: a range query below the first page of a tree that two clients fill from empty | no key is lost or found missing through splits; found values are fresh and leaf locks exclude with stale caches; bytes stay unique and keep their slot, types catch up; a cold scan misses nothing; snapshots are filed under the path of their keys |
| `tree_live` | scenes *ops*: a switch, a header split, a search with caches; *scan*, *narrow*: a range query next to an insert | every insert, search and range query returns |
| `local_lock` | 3 clients, 2 keys in one slot, tickets modulo 4; up to 5 searches, or 4 inserts, or 2 of each | each queue is a lock; a loser gets only what was done for its own key; with operations of one kind the windows count queued clients, close, and cover nobody who came later |
| `compute_node` | scenes *handover*: 3 clients of a node and 1 of another, 2 addresses in one slot, both forms; *radix*: one thread, 6 prefixes, a tight budget; *pair*: two threads on one path with hardly any budget; *split*: two threads that split one node; *values*: 3 coroutines of 2 threads, 3 keys, buckets of 2 | a handed-over remote lock is really held, by one, and given back; the index cache is a map of snapshots, hits are for the key, objects are in one place, entries stay evictable, the budget does not drift; hits of the value cache outlive few accesses, its capacity is nearly kept, mutexes are held across a yield only by a migration |
| `progress` | scenes *lock*: 3 clients, a search and 2 inserts; *verbs*: 2 coroutines, 2 memory nodes, all 19 calls; *plain*: the same without coroutines; *alloc*: 2 threads, 2 directories of 3 chunks, rings of 2; *ring*: 3 threads, one directory, rings of 4; *keeper*: 3 servers, 2 barriers, a sum | every suspended coroutine is resumed once and not early; CAS outcomes are true; until exhaustion no byte has two owners; no message is lost or overwritten, and the rings implement sets of messages; nobody leaves a barrier early or with an unconnected queue pair; operations, calls, allocations and start-up complete |

Violated, see section 4: `local_lost_write`, `local_foreign`,
`tree_stale_reader`, `tree_switch_miss`, `range_torn`, `radix_foreign`,
`cache_stale`.

Scenes. A run with several instances picks one of them in the initial state
(`scene`) and keeps it. `MCComputeNode` extends `LocalCache` and `MCProgress`
extends `Rpc`, whose properties are checked as they stand: outside their scene
they stay in an initial state. The other components are instances; their
variables are 0 outside their scene, and the MC module states each of their
properties for its scene. The scenes share a run because their questions are of
one kind.

Bounds. Three clients are the least that put a winner, a loser and a late
arrival into one queue; tickets modulo 4 wrap within five operations and are
still more than the clients. Pages of 3 and then 5 slots let a page be filled,
switched and used behind its type with keys of a few bytes; the code's smallest
page has 4. `NodeNum[1] > 2` is needed because a split fills two slots.
Headers of 1 or 2 bytes reach both one and several pages per split, at the
length where a page more is needed. Six prefixes of up to three bytes give the
index cache every kind of split, at the first, a middle and the last byte of a
header; a budget of two or three entries makes it evict and rebuild; an epoch
of one makes it reuse objects while they are held. In *alloc* a chunk holds one
page and a remainder that only a leaf fits into, and five allocations reach the
restart of directory 0; rings of two buffers wrap within two messages. In
*ring* the three requests outstanding are exactly as many as the receives a
ring of four always has posted, `nr - nr/kBatchCount + 1`. Every bound is a
constant ending in `Max`, or `Workloads`, or `barriers`.

That last bound is one the real sizes can exceed: a directory has 128 buffers
in four batches and so always at least 97 posted, and two machines of 65
threads can have 130 requests outstanding. Each thread has at most one, and
asks only once per chunk, so this takes a burst.

Deadlock is checked in every run; a state where all operations have returned
and the bounds are used up has the explicit stuttering step `Finished`.

Where a property has conditions:

- The window properties of `LocalLock` hold for operations of one kind only. In
  mixed runs a head whose queue changed key counts the window down without the
  mutex the sizing of that window holds, so that a window may wrap, outlive its
  clients or cover later arrivals.
- `ScanIsComplete` is for a scan that finds nothing cached and whose bounds part
  at the first byte. With cached entries the query trusts snapshots that lack
  newer keys, and with a longer common prefix `search_entries` stops at a
  header that differs from the lower bound behind the common prefix. No line of
  the repository promises more.
- `HitsAreForTheKey` excludes hits that are read after `safely_free_epoch` later
  retirements (1040 in the code): the reuse of entries relies on readers being
  faster than that. It and `RadixIsAMap` are not claimed where two threads split
  one node (finding 6).
- `CapacityIsNearlyKept`: the capacity check and the insertion are not atomic
  across buckets, so each thread may exceed it by one node.

Fairness is weak fairness of the steps of each client, thread, card, directory
or server: threads are not stopped, verbs complete, the coroutine master polls
every waiting coroutine, a `std::mutex` is eventually acquired by whoever waits
for it, memcached answers. It is enough because what is enabled stays enabled:
a head of a queue, once served, stays served. Nothing is assumed about new
operations. In `tree_live` a CAS that fails has failed because another client's
succeeded, and the number of inserts is bounded, so retries end; with
unboundedly many inserts the tree is lock-free and no single insert is
guaranteed to finish. In `DSMVerbs` and `RangeQuery` fairness is written out
(infinitely often not enabled, or infinitely often a step), with the states
where the thread cannot move named in `Stuck`.

To repeat a run: `tlc -config TreeSafety.cfg MCTreeScenes` (the module of each
run and its configuration are listed in `PROJECT.json`); to repeat a proof:
`tlapm LocalLockProofs.tla`. Each passing run takes from one to three minutes
on two cores.

## 4. Findings

1. **A combined insert can be lost** (`local_lost_write`). An insert writes
   `wc_buffer` before it takes its ticket. If it does so after the winner
   fetched the buffer and takes the ticket before the winner's release loads
   `write_ticket`, the window counts it: it becomes a loser, `Tree::insert`
   returns, and its value is never written (`include/LocalLockTable.h` 228-235).
2. **A value can be stored under another key** (`local_foreign`).
   `get_combining_value` compares the key and then reads the buffer, and an
   insert fills the buffer some time after its key check; between the two the
   lock slot may pass to another key (`include/LocalLockTable.h` 261-270).
3. **A reverse pointer can be moved back** (`tree_stale_reader`). A slow reader
   "corrects" the reverse pointer of a leaf that was split meanwhile
   (`Tree.cpp` 561-563). A cached entry that is outdated then passes the check
   that was to invalidate it and a search misses an inserted key. An in-place
   update has the same effect: it writes the whole leaf as it was read.
4. **A search can miss a key behind the node type** (`tree_switch_miss`). An
   insert that finds its byte in a slot behind the type goes on below it and
   returns before the insert that filled the slot has raised the type
   (`Tree.cpp` 517); a search that starts then does not look at the slot. The
   key is found once the type is raised (`InsertedKeysStay`, `TypesCoverSlots`).
5. **A range query returns half-written values** (`range_torn`). It notices that
   a leaf is inconsistent and queues it again, but stores the value all the
   same, and the second read never happens because the address counts as read
   (`Tree.cpp` 1466-1471).
6. **The index cache can hand out a page of another prefix** (`radix_foreign`).
   A thread that reads a header between the two CASes of another thread's split
   builds its own node over the wrong bytes (`RadixCache.cpp` 98-111).
7. **An updated value can stay hidden behind its old copy** (`cache_stale`).
   `LocalCache::insert` looks for the key in the least loaded bucket only; a key
   cached in another one exists twice (`include/LocalCache.h` 66).

Met while modelling, not contradicted by any line of the repository and so not
findings: the window behaviour in mixed runs above. With more clients than
ticket values (a compute node may run 65 threads of 8 coroutines, and tickets
are `uint8_t`) two clients could be served at once; the theorems below state
the condition. A migration yields with a bucket mutex held (`Hung`). The
benchmark caches an uninitialized value when a search fails
(`test/ycsb_test.cpp` 193). In the handover builds a client keeps a remote lock
while it waits for its turn at another address, and the on-chip locks of
different pages may hash to one bit; both can delay other compute nodes.

## 5. Proofs

Every theorem holds for all values of the constants that satisfy the listed
assumptions. The runs of section 3 check the same definitions on small
instances, those of `HandoverLock` and `DSMKeeper` in their scenes. Each was proved through an inductive invariant that TLC had checked
first.

| Theorem | Module | States |
|---|---|---|
| `TypeCorrect` | `LocalLockProofs` | `Spec => []TypeOK` |
| `TicketLockIsExclusive` | `LocalLockProofs` | `Spec => []MutualExclusion` |
| `HandoverStaysInKey` | `LocalLockProofs` | `Spec => []HandoverSameKey` |
| `LosersWereWaiting` | `LocalLockWindows` | `Spec => []HandoverToWaiters` |
| `WindowsClose` | `LocalLockWindows` | `Spec => []WindowCloses` |
| `WindowsFitTheQueue` | `LocalLockWindows` | `Spec => []WindowWithinQueue` |
| `WritersHoldTheLock` | `HandoverLockProofs` | `Spec => []HandoverKeepsTheLock` |
| `NoLockIsLeftBehind` | `HandoverLockProofs` | `Spec => []LocksAreReleased` |
| `BarriersAreSafe` | `DSMKeeperProofs` | `Spec => []BarriersHold` |
| `NoByteHasTwoOwners` | `AllocatorProofs` | `Spec => []BlocksAreDisjoint` |
| `BlocksLieInADirectory` | `AllocatorProofs` | `Spec => []BlocksAreInMemory` |
| `RingsImplementMessages` | `RpcProofs` | `RpcSpec => RingsCarryMessages` |
| `NoMessageIsLost` | `RpcProofs` | `RpcSpec => []RingsHoldTheMessages` |
| `NoByteHasTwoOwnersBehindRings` | `RpcProofs` | `RpcSpec => []BlocksAreDisjoint` |
| `HitsSurvive` | `LocalCacheProofs` | `Spec => []HitsOutliveFewAccesses` |
| `CapacityHolds` | `LocalCacheProofs` | `Spec => []CapacityIsNearlyKept` |
| `LocksAreBrief` | `LocalCacheProofs` | `Spec => []LocksAreHeldBriefly` |

### LocalLock

Assumptions: `TicketMod` is at least 2, `NoClient` is no client, `NoKey` no
key; for all but the first theorem the clients are finite and fewer than the
ticket values.

Mutual exclusion says only that two clients past their wait are
the same, which no step preserves by itself. `PhaseInv` adds where a client
holds a ticket and that a client past its wait holds the one being served.
`OrderInv` adds that the tickets of a queue are distinct, lie in the arc of
the ring from `current` to `ticket`, and are exactly as many as that arc is
long. Taking a ticket keeps them distinct because the arc never becomes the
whole ring: its length is the number of queued clients, and the client taking
the ticket is not one of them, so it is smaller than `TicketMod`. Passing on
removes the first. The uint8_t wrap is dealt with once, in `Distances`.
Handover needs `KeyInv`: while `handover` is set, the queue's key is that of
its last winner, and from `CheckKey` to `SetHandover` it is that of its head;
`Alone` (from mutual exclusion) keeps others out of that section.

The windows need two more facts. `UnusedOK`: a queue that no client has come to
has an empty window, although the winners of the other queue size it. `QueueOK`,
for the queue in use: the window counts no more clients than are queued, and
the first clients of the queue, as many as the window counts, are in the
audience of the last winner. The head of the queue disturbs both between
decrementing the window and incrementing `current`, and between loading `ticket`
and sizing the window; `HeadOK` says what holds instead at each of its
labels. That `window_start` is not left set needs to know who will clear
it: the window is not empty, or the head is about to size it or to close it
(`Opens`). All of it is for operations of one kind, as the properties are
(section 3).

### HandoverLock

Assumptions (`Sensible`): as for `LocalLock`, per compute node.

The tickets are treated as above, one ring per compute node. On top of that
`LockInv` says whose remote locks are taken: a compute node holds the lock of
an address exactly if one of its clients still has to release it (it writes,
releases, or has the address on its list to unlock) or the lock node hands it
on to the next in the queue. The equivalence is what makes both theorems
inductive: without the direction from left to right a lock could be lost,
without the other a client could write on a lock that was released. `TurnInv`
says what the lock node stands for while a client is served, and that whoever
sets `handover` has somebody queued behind it.

### DSMKeeper

Assumptions (`Sizes`): at least one server, a number of barriers.

For the barriers the invariant counts: the counter of barrier `k` in memcached
is absent before server 0 sets it, and from then on the number of servers that
have added themselves. A server that reads `maxServer` therefore knows that all
have arrived. For the connections it follows the keys of the exchange: a
server counts as connected to those it has gone through in its loop, a key that
is set holds the numbers of the right pairs of queue pairs, and the loop ends
only when the number of servers seen is `maxServer`.

### Allocator

Assumptions: those of `MemorySizes` (sizes are positive, a leaf is no larger
than a page and a page no larger than a chunk, the alignment divides the chunk
size, and there are at most two memory nodes, so that node 2 is free to be the
mark), and `Origins`: each thread starts its round of the directories at some
natural number.

Two blocks that both threads hold were cut from chunks, and chunks come from
messages, so disjointness of blocks alone is not preserved. The invariant
divides memory into *parts*: the free tail of each directory, each chunk in a
reply under way, the uncut rest of each thread's chunk, each entry of a free
list, each block held. `PartsAreApart` says that any two parts are disjoint and
`PartsAreInMemory` that each lies in a directory. Every action takes one part
and puts parts in its place that lie within it and are apart from each other
(`malloc` cuts the rest of a chunk, `process_message` the tail, `RpcWait` turns
a reply into the rest of a chunk, `Free` and reuse move a block), so one lemma
about replacing a part covers all of them. `CallInv` says that a thread has one
request or reply under way exactly while it waits. The bitmap matters only in
that its clear bits begin at the tail; a minimal counterexample in the natural
numbers takes the place of an induction. All of it is under `~exhausted`,
because a directory that ran out of chunks hands out chunks that are in use.

### Rpc

Assumptions, besides those of `Allocator`: `RingAssumption` (the rings
have buffers and are divided into equal batches, as the constructor asserts) and `EnoughReceives` (finitely many threads, at most
`nr - nr/kBatchCount + 1` of them for a directory's `nr` receives).

That a step behind the rings is a step of `Allocator` is a matter of what the
buffers hold: `Process` has to be shown to find a thread that asked and is not
answered. The invariant is a *line* at each directory: the destinations of the
sends it has posted, oldest first, then the thread whose message it is
processing, then the threads named in the receive buffers it has not polled
(`At`). `LineOK` says that everyone in the line waits for this directory, stands
in it once, and is answered by what the send buffer holds if it is at the front
of the line and has its request recorded if not. Each operation of a connection
(`PolledLine`, `AnsweredLine`, `PostedLine`, `JoinedLine`, `LeftLine`) moves the
border between these parts or adds or takes one thread at an end, although the
message moves between buffers and wraps round the rings. A thread outside every
line that waits has its request in a send buffer or its reply in a receive
buffer of its own (`ThreadOK`, `Placed`).

A thread stands in a line once, so a line is no longer than there are threads
(a pigeonhole argument, `LineIsShort`). With `EnoughReceives` this leaves a
posted receive for each request (`ReceiveIsPosted`): the batch being read is not
posted, the rest of the ring is. The send buffer to be filled is free because
the line is shorter than the ring (`SendBufferIsFree`). Without the bound
both fail, and so does the refinement.

### LocalCache

Assumptions (`Sensible`): finitely many coroutines, at least one candidate
bucket per key, a limit of at least one node per bucket, and a start
within the limits (the constructor starts empty).

`HitInv`: while a coroutine uses the pointer of a hit, its node is in the
bucket at a place no further back than the number of accesses since, or these
are already as many as the bucket may hold. An access moves one node to the
front, so every other node moves back by at most one place; only the node
behind the limit is evicted. `PlaceInv` keeps the lists within the limit and
the locals of the search for a bucket in range. `SizeInv`: `cur_size` is the
number of places of all buckets, and together with the coroutines between the
capacity check and the insertion it stays below `capacity` plus the number of
threads. `ThreadInv`, that a coroutine between two yields has its thread, makes
those coroutines at most one per thread. `LockInv` says who holds a mutex, and where.

### Only model-checked

- The liveness properties: temporal reasoning under fairness, and `ENABLED`,
  are beyond the prover.
- The refinement of `SnapshotMap`: its mapping follows a path of any length and
  is a recursive operator, which the prover cannot unfold. So are the other
  invariants of `RadixCache`, whose module declares that operator.
- `OneWakeupEach` and `VerdictsAreTrue` of `DSMVerbs`, whose operators fold
  over lists of work requests.
- Everything about `Tree` and `RangeQuery`.

Planned, in this order: `UpdatesExclude` and `SlotsStayASet` of `Tree`;
`OneWakeupEach` of `DSMVerbs`.

## 6. Not modelled

- Comparison builds: ROWEX inserts and out-of-place updates of `Tree.cpp`, the
  write and read testing locks (`include/LocalLockTable.h` 463-559), the hash map
  index cache (`NormalCache`). The default build does not compile them; the
  testing locks repeat the ticket lock that is proved, without a window.
- The release that writes an embedded lock together with the data
  (`include/LocalLockTable.h` 366-401). It differs from the modelled one only in
  the verb it issues.
- The race of compute nodes for the root: one CAS, after which the losers read
  the winner's root back.
- The walk of `migrate_local_cache_to_radix_cache` (`Tree.cpp` 1672-1748): a
  search that adds pages to the index cache. When it runs, and that it yields,
  is in `LocalCache`. The CXL tree and its allocator have no caller.
- NEW_ROOT messages and `free_chunk`, which have no caller; `registerThread` and
  `resetThread`, which fill tables of one thread once; the start of directory
  threads on compute-only nodes, commented out in the constructor of `DSM`
  (`DSM.cpp` 57-63).
- Building work requests, queue pair set-up and memory registration (calls into
  ibverbs), timers, printing, hashing, workload generation and the measuring
  part of the benchmarks, `WRLock` (used once, at start-up), and the RDMA
  write-cache experiment that nothing calls.
