---------------------------- MODULE MCTreeScenes ----------------------------
(* The situations the tree is checked in, one of them per behaviour.  The    *)
(* module extends the tree with the constants of the first one, split; the   *)
(* others are instances of it with constants of their own.                   *)
EXTENDS MCRange

CONSTANTS c1, c2, c3

VARIABLE scene

svars == <<rvars, scene>>

\* c2 and c3 differ in nothing where both take part (the switches).
Symmetric == Permutations({c2, c3})

\* Snapshots of a cached page go stale.
Cached == INSTANCE RangeQuery WITH
    Keys <- CacheKeys, keyLen <- 3, hPartialLenMax <- 6, UseCache <- TRUE, Preload <- CachePreload,
    InsertKeys <- CacheMixed, SearchKeys <- CacheMixed, InsertMax <- 2, SearchMax <- 2

\* Full nodes are switched to a larger type by three clients.
Switch == INSTANCE RangeQuery WITH
    Clients <- {c1, c2, c3}, Keys <- SwitchKeys, keyLen <- 2, hPartialLenMax <- 1,
    Preload <- SwitchPreload, InsertKeys <- {<<0, 3>>, <<0, 4>>}, SearchKeys <- {},
    InsertMax <- 3, SearchMax <- 0

\* The same by two clients, while the header of the full node is split.
Cut == INSTANCE RangeQuery WITH
    Keys <- SwitchKeys, keyLen <- 2, hPartialLenMax <- 1,
    Preload <- SwitchPreload, InsertKeys <- SwitchNew, SearchKeys <- {},
    InsertMax <- 3, SearchMax <- 0

\* A range query next to two inserts.
Scan == INSTANCE RangeQuery WITH
    Keys <- CacheKeys, keyLen <- 3, hPartialLenMax <- 6, UseCache <- TRUE, Preload <- CachePreload,
    InsertKeys <- CacheNew \union {<<0, 0, 0>>}, SearchKeys <- {}, InsertMax <- 2, SearchMax <- 0,
    Ranges <- ScanRanges, RangeMax <- 1

\* Two clients fill an empty tree, and a range query runs below its first page.
Narrow == INSTANCE RangeQuery WITH
    Keys <- NarrowKeys, keyLen <- 3, hPartialLenMax <- 6, UseCache <- TRUE, Preload <- <<>>,
    InsertKeys <- NarrowKeys, SearchKeys <- {}, InsertMax <- 3, SearchMax <- 0,
    Ranges <- NarrowRange, RangeMax <- 1

\* Small enough for liveness: a full node, and a range query next to one insert.
LiveOps == INSTANCE RangeQuery WITH
    Keys <- SwitchKeys, keyLen <- 2, hPartialLenMax <- 1, UseCache <- TRUE, Preload <- SwitchPreload,
    InsertKeys <- SwitchNew, SearchKeys <- SwitchNew, InsertMax <- 2, SearchMax <- 1

LiveScan == INSTANCE RangeQuery WITH
    Keys <- CacheKeys, keyLen <- 3, hPartialLenMax <- 6, UseCache <- TRUE, Preload <- CachePreload,
    InsertKeys <- CacheKeys, SearchKeys <- {}, InsertMax <- 1, SearchMax <- 0,
    Ranges <- ScanRanges, RangeMax <- 1

LiveNarrow == INSTANCE RangeQuery WITH
    Keys <- NarrowKeys, keyLen <- 3, hPartialLenMax <- 6, UseCache <- TRUE,
    Preload <- << <<0, 0, 0>>, <<0, 0, 1>> >>, InsertKeys <- NarrowKeys, SearchKeys <- {},
    InsertMax <- 1, SearchMax <- 0, Ranges <- NarrowRange, RangeMax <- 1

SafetyInit ==
    \/ scene = "split" /\ RInit
    \/ scene = "cached" /\ Cached!RInit
    \/ scene = "switch" /\ Switch!RInit
    \/ scene = "cut" /\ Cut!RInit
    \/ scene = "scan" /\ Scan!RInit
    \/ scene = "narrow" /\ Narrow!RInit

SafetyNext ==
    /\ UNCHANGED scene
    /\ \/ scene = "split" /\ RNext
       \/ scene = "cached" /\ Cached!RNext
       \/ scene = "switch" /\ Switch!RNext
       \/ scene = "cut" /\ Cut!RNext
       \/ scene = "scan" /\ Scan!RNext
       \/ scene = "narrow" /\ Narrow!RNext

SafetySpec == SafetyInit /\ [][SafetyNext]_svars

LiveInit ==
    \/ scene = "ops" /\ LiveOps!RInit
    \/ scene = "scan" /\ LiveScan!RInit
    \/ scene = "narrow" /\ LiveNarrow!RInit

LiveNext ==
    /\ UNCHANGED scene
    /\ \/ scene = "ops" /\ LiveOps!RNext
       \/ scene = "scan" /\ LiveScan!RNext
       \/ scene = "narrow" /\ LiveNarrow!RNext

\* The fairness of Tree and RangeQuery, in each situation.
OpsStep(c) ==
    /\ \/ scene = "ops" /\ (LiveOps!Load(c) \/ LiveOps!Step(c))
       \/ scene = "scan" /\ (LiveScan!Load(c) \/ LiveScan!Step(c))
       \/ scene = "narrow" /\ (LiveNarrow!Load(c) \/ LiveNarrow!Step(c))
    /\ UNCHANGED <<scan, scene>>

LiveSceneSpec ==
    /\ LiveInit /\ [][LiveNext]_svars
    /\ \A c \in {c1, c2} : WF_svars(OpsStep(c))
    /\ LiveScan!ScanFairness

-----------------------------------------------------------------------------
(* The properties, where they are stated                                     *)

\* TypeOK of Tree, while leaves and headers are split.
SplitTypesOK == scene = "split" => TypeOK

\* SlotsAreASet of Tree, while nodes are split and switched: pages fill from
\* slot 0 up and no byte has two entries.
SlotsStayASet == scene \in {"split", "switch", "cut"} => SlotsAreASet

\* FoundValueIsFresh of Tree, with an index cache: no search returns a value
\* older than one an operation that ended before it has seen.
CachedValueIsFresh == scene = "cached" => FoundValueIsFresh

\* LeafLockExcludes of Tree, where clients update the same leaf.
UpdatesExclude == scene = "cached" => LeafLockExcludes

\* InsertedKeysReachable of Tree, wherever no node is switched: a key whose
\* insert has returned is reachable through splits in progress.
KeysStayReachable ==
    /\ scene = "split" => InsertedKeysReachable
    /\ scene = "cached" => Cached!InsertedKeysReachable
    /\ scene = "scan" => Scan!InsertedKeysReachable
    /\ scene = "narrow" => Narrow!InsertedKeysReachable

\* InsertedKeysAreFound of Tree, without an index cache: a search started
\* after an insert of its key returned finds the key, through splits.
SearchesFindInserted == scene = "split" => InsertedKeysAreFound

\* InsertedKeysStay of Tree: splits and switches of three clients never take
\* a key away.
SwitchedKeysStay ==
    /\ scene = "switch" => Switch!InsertedKeysStay
    /\ scene = "cut" => Cut!InsertedKeysStay

\* TypesCoverSlots of Tree: the type in a page's entry and in its header agree
\* once cas_node_type has returned.
SwitchedTypesCoverSlots ==
    /\ scene = "switch" => Switch!TypesCoverSlots
    /\ scene = "cut" => Cut!TypesCoverSlots

\* ColdRangeIsComplete of RangeQuery: with a cold cache and bounds that part
\* at the first byte, range_query misses no key inserted before it started.
ScanIsComplete == scene = "scan" => Scan!ColdRangeIsComplete

\* SnapshotsMatchTheirKeys of RangeQuery: whoever filed a page in the index
\* cache filed it under the path of its keys.
CacheMatchesKeys == scene \in {"cached", "scan", "narrow"} => SnapshotsMatchTheirKeys

\* SlotsKeepTheirByte of Tree: a slot once taken keeps its byte, so a pointer
\* <<page, slot>> a client holds stays on its path while nodes are switched.
SwitchKeepsBytes ==
    [][\A n \in DOMAIN nodes : \A i \in 0 .. MaxNodeNum - 1 :
         scene \in {"switch", "cut"} /\ nodes[n].rec[i] # Null =>
            nodes'[n].rec[i] # Null /\ nodes'[n].rec[i].partial = nodes[n].rec[i].partial]_nodes

\* OperationsReturn of Tree: every insert and every search returns.
AllOperationsReturn == \A c \in {c1, c2} : []<>(cl[c].pc = "idle")
=============================================================================
