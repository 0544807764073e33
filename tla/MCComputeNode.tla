--------------------------- MODULE MCComputeNode ---------------------------
(* What the threads of a compute node share besides LocalLock, each in a     *)
(* scene of its own: the handover locks, the index cache and the value       *)
(* cache.  The value cache is the one extended; in the other scenes nobody   *)
(* uses it, and what they do not need of the rest is not there.              *)
EXTENDS LocalCache, TLC

CONSTANTS c1, c2, c3, d1, n1, n2, A, B,   \* clients of two nodes, two addresses
          a1, a2, b1, t1, t2, k1, k2, k3  \* coroutines, threads and keys

VARIABLES
    scene,
    form, hnode, remote, cl, hops,
    nodes, cache_root, entries, freelist, entry_gc, eviction_list, free_size,
    node_mem_size, th, inserts, searches, retired, strays

\* Three clients of a node and two addresses, and a client of another node.
Handover == INSTANCE HandoverLock WITH
    Clients <- {c1, c2, c3, d1},
    home <- [c \in {c1, c2, c3, d1} |-> IF c = d1 THEN n2 ELSE n1],
    targets <- [c \in {c1, c2, c3, d1} |-> IF c = d1 THEN {A} ELSE {A, B}],
    Width <- 4, MAX_HOCL_HANDOVER <- 1, OpMax <- 6, node <- hnode, ops <- hops

Prefixes == {<<0>>, <<0, 0>>, <<0, 1>>, <<0, 0, 0>>, <<0, 1, 0>>, <<0, 1, 1>>}

\* One thread and many shapes of the tree of nodes, within a tight budget.
Radix == INSTANCE RadixCache WITH
    Threads <- {t1}, Bytes <- {0, 1},
    CachedPrefixes <- Prefixes, SearchKeys <- {<<0, 0, 0, 0>>, <<0, 1, 0, 0>>},
    Capacity <- 8, EntrySize <- 2, RecordSize <- 1, safely_free_epoch <- 1,
    InsertMax <- 4, SearchMax <- 1

\* Two threads on one path, within a budget that hardly holds an entry.
RadixPair == INSTANCE RadixCache WITH
    Threads <- {t1, t2}, Bytes <- {0, 1},
    CachedPrefixes <- {<<0>>, <<0, 0>>}, SearchKeys <- {<<0, 0, 0>>},
    Capacity <- 4, EntrySize <- 2, RecordSize <- 1, safely_free_epoch <- 1,
    InsertMax <- 3, SearchMax <- 1

\* Two threads that split one node.
RadixSplit == INSTANCE RadixCache WITH
    Threads <- {t1, t2}, Bytes <- {0, 1},
    CachedPrefixes <- {<<0, 0, 0>>, <<0, 1, 0>>, <<0, 1, 1>>}, SearchKeys <- {},
    Capacity <- 20, EntrySize <- 2, RecordSize <- 1, safely_free_epoch <- 1,
    InsertMax <- 3, SearchMax <- 0

\* Two coroutines of one thread and one of another.  k1 has one bucket, k2 and
\* k3 share it with one of their own.
TwoThreads == [c \in {a1, a2, b1} |-> IF c = b1 THEN t2 ELSE t1]
Mixed == [c \in {a1, a2, b1} |-> {"update", IF c = b1 THEN "insert" ELSE "search"}]
Shared == (k1 :> <<1, 1>>) @@ (k2 :> <<1, 2>>) @@ (k3 :> <<1, 3>>)
FirstFull == << <<k2, k3>>, <<>>, <<>> >>

Interchangeable == Permutations({c1, c2, c3}) \union Permutations({a1, a2})

handover_vars == <<form, hnode, remote, cl, hops>>
radix_vars == <<nodes, cache_root, entries, freelist, entry_gc, eviction_list, free_size,
                node_mem_size, th, inserts, searches, retired, strays>>
node_vars == <<scene, handover_vars, radix_vars, vars>>

NoHandover == form = 0 /\ hnode = 0 /\ remote = 0 /\ cl = 0 /\ hops = 0
NoRadix ==
    /\ nodes = 0 /\ cache_root = 0 /\ entries = 0 /\ freelist = 0 /\ entry_gc = 0
    /\ eviction_list = 0 /\ free_size = 0 /\ node_mem_size = 0 /\ th = 0
    /\ inserts = 0 /\ searches = 0 /\ retired = 0 /\ strays = 0

NodeInit ==
    /\ Init
    /\ \/ scene = "handover" /\ Handover!Init /\ NoRadix
       \/ scene = "radix" /\ NoHandover /\ Radix!Init
       \/ scene = "pair" /\ NoHandover /\ RadixPair!Init
       \/ scene = "split" /\ NoHandover /\ RadixSplit!Init
       \/ scene = "values" /\ NoHandover /\ NoRadix

NodeNext ==
    /\ UNCHANGED scene
    /\ \/ /\ scene = "handover" /\ Handover!Next
          /\ UNCHANGED <<radix_vars, vars>>
       \/ /\ \/ scene = "radix" /\ Radix!Next
             \/ scene = "pair" /\ RadixPair!Next
             \/ scene = "split" /\ RadixSplit!Next
          /\ UNCHANGED <<handover_vars, vars>>
       \/ /\ scene = "values" /\ Next
          /\ UNCHANGED <<handover_vars, radix_vars>>

NodeSpec == NodeInit /\ [][NodeNext]_node_vars

-----------------------------------------------------------------------------
(* The properties of the other modules, where they are stated                *)

\* Of HandoverLock: whoever writes an address does so under its remote lock,
\* and alone, even if the lock was handed over.
HandoverKeepsTheLock == scene = "handover" => Handover!HandoverKeepsTheLock

\* Of HandoverLock: no remote lock is left behind.
LocksAreReleased == scene = "handover" => Handover!LocksAreReleased

\* Of RadixCache: the tree of nodes is a map from prefixes to snapshots, and
\* every step changes it as SnapshotMap allows.  It is not claimed where two
\* threads split one node at the same time: see HitsAreForTheKey.
Map == INSTANCE SnapshotMap WITH
    CachedPrefixes <- Prefixes, Versions <- 1 .. 4,
    map <- IF scene \in {"radix", "pair"} THEN Radix!Contents ELSE [p \in Prefixes |-> None]
RadixIsAMap == Map!Spec

\* Of RadixCache: a hit is a snapshot taken for a prefix of the searched key.
\* Where two threads split one node this fails (RadixForeign.cfg).
HitsAreForTheKey ==
    /\ scene = "radix" => Radix!HitsAreForTheKey
    /\ scene = "pair" => RadixPair!HitsAreForTheKey

\* Of RadixCache: every object of the pool is in exactly one place.
PoolIsPartitioned ==
    /\ scene = "radix" => Radix!PoolIsPartitioned
    /\ scene \in {"pair", "split"} => RadixPair!PoolIsPartitioned

\* Of RadixCache: every entry in a slot can still be evicted.
LiveEntriesAreEvictable ==
    /\ scene = "radix" => Radix!LiveEntriesAreEvictable
    /\ scene \in {"pair", "split"} => RadixPair!LiveEntriesAreEvictable

\* Of RadixCache: a thread working alone leaves the cache within its budget,
\* and the running count of free bytes does not drift.
CacheStaysInBudget == scene = "radix" => Radix!CacheStaysInBudget
=============================================================================
