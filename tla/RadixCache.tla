----------------------------- MODULE RadixCache -----------------------------
(***************************************************************************)
(* The index cache of a compute node (src/RadixCache.cpp): a path          *)
(* compressed radix tree from key prefixes to snapshots of internal pages, *)
(* shared by the threads of the node and changed with compare-and-swap,    *)
(* with a FIFO eviction list, a byte budget and a delayed reuse of the     *)
(* snapshot objects.                                                       *)
(*                                                                         *)
(* A thread's step is one access to shared memory that another thread can  *)
(* observe: a visit of a node (its header and one record), a CAS, the      *)
(* bookkeeping after a CAS, one round of the eviction loop.  Byte          *)
(* positions count from 0, as in the code.                                 *)
(***************************************************************************)
EXTENDS Naturals, Integers, Sequences, FiniteSets, FiniteSetsExt, SequencesExt

CONSTANTS Threads,            \* threads of the compute node
          Bytes,              \* values of a key byte
          CachedPrefixes,     \* prefixes the tree caches pages for
          SearchKeys,         \* keys looked up; all have the same length
          Capacity,           \* the budget of FreeMemManager
          EntrySize,          \* CacheEntry::content_size
          RecordSize,         \* size of one record of a CacheNode
          safely_free_epoch,  \* retired snapshots kept before one is reused
          InsertMax,          \* bound: calls of add_to_cache
          SearchMax,          \* bound: calls of search_from_cache
          None                \* contents of a destroyed CacheEntry

VARIABLES nodes,          \* every CacheNode ever linked, by number
          cache_root,     \* number of the root node
          entries,        \* the CacheEntry objects handed out by the pool
          freelist,       \* released objects
          entry_gc,       \* retired objects, oldest first
          eviction_list,  \* <<slot, object>> pairs, oldest first
          free_size,      \* FreeMemManager::free_size
          node_mem_size,  \* FreeMemManager::node_mem_size
          th,             \* what each thread is doing
          inserts,        \* calls of add_to_cache so far
          searches,       \* calls of search_from_cache so far
          retired,        \* objects passed to _safely_delete so far
          strays          \* bytes freed for entries of a discarded tree

vars == <<nodes, cache_root, entries, freelist, entry_gc, eviction_list, free_size,
          node_mem_size, th, inserts, searches, retired, strays>>

pool == <<entries, freelist>>
books == <<eviction_list, free_size, node_mem_size>>
counts == <<inserts, searches>>

-----------------------------------------------------------------------------
(* Nodes.  Zero is the null pointer, for nodes and for entries. *)

CacheHeader(b, depth, len) == [depth |-> depth, partial |-> SubSeq(b, depth + 1, depth + len)]

split_header(h, i) == [depth   |-> h.depth + i + 1,
                       partial |-> SubSeq(h.partial, i + 2, Len(h.partial))]

CacheNodeValue(e, next) == [cache_entry |-> e, next |-> next]

EmptyNode == [hdr |-> CacheHeader(<<>>, 0, 0), records |-> [x \in {} |-> 0]]

LeafNode(b, start, e) ==
  [hdr     |-> CacheHeader(b, start, Len(b) - start - 1),
   records |-> [x \in {Last(b)} |-> CacheNodeValue(e, 0)]]

(* Mutant: the new entry gets the byte of the old header. *)
SplitNodesSwapped(b, idx, h, i, n, cur, e, m) ==
  LET len    == h.depth + i - idx
      old    == h.partial[i + 1]
      nested == cur # old /\ idx + len < Len(b) - 1
      value(x) == CASE cur = old           -> CacheNodeValue(e, n)
                    [] x = old /\ ~nested  -> CacheNodeValue(e, n)
                    [] x = old /\ nested   -> CacheNodeValue(0, n)
                    [] x = cur /\ ~nested  -> CacheNodeValue(0, 0)
                    [] x = cur /\ nested   -> CacheNodeValue(0, m + 1)
  IN <<[hdr |-> CacheHeader(b, idx, len), records |-> [x \in {old, cur} |-> value(x)]]>>
     \o IF nested THEN <<LeafNode(b, idx + len + 1, e)>> ELSE <<>>

(* The node that takes over the place of node n when its header differs    *)
(* from b at position i, and the nodes created along with it.  m is the    *)
(* number the new node gets, a nested leaf node gets the next one.         *)
SplitNodes(b, idx, h, i, n, cur, e, m) ==
  LET len    == h.depth + i - idx
      old    == h.partial[i + 1]
      nested == cur # old /\ idx + len < Len(b) - 1
      value(x) == CASE cur = old           -> CacheNodeValue(e, n)
                    [] x = old             -> CacheNodeValue(0, n)
                    [] x = cur /\ ~nested  -> CacheNodeValue(e, 0)
                    [] x = cur /\ nested   -> CacheNodeValue(0, m + 1)
  IN <<[hdr |-> CacheHeader(b, idx, len), records |-> [x \in {old, cur} |-> value(x)]]>>
     \o IF nested THEN <<LeafNode(b, idx + len + 1, e)>> ELSE <<>>

(* cache_map[x], which creates the record when there is none *)
WithRecord(n, x) ==
  IF x \in DOMAIN nodes[n].records THEN nodes
  ELSE [nodes EXCEPT ![n].records =
          [y \in DOMAIN @ \cup {x} |-> IF y = x THEN CacheNodeValue(0, 0) ELSE @[y]]]

Slots == UNION {{<<n, x>> : x \in DOMAIN nodes[n].records} : n \in DOMAIN nodes}

EntryIn(slot) == nodes[slot[1]].records[slot[2]].cache_entry

node_content_size(n) ==
  1 + Len(nodes[n].hdr.partial) + RecordSize * Cardinality(DOMAIN nodes[n].records)

-----------------------------------------------------------------------------
(* The object pool, the garbage queue and the memory accounting. *)

(* NumaObjectPool::allocate: a released object first, then a new one *)
allocate(snapshot, o) ==
  IF freelist # <<>>
  THEN /\ o = Head(freelist)
       /\ freelist' = Tail(freelist)
       /\ entries' = [entries EXCEPT ![o] = snapshot]
  ELSE /\ o = Len(entries) + 1
       /\ entries' = Append(entries, snapshot)
       /\ UNCHANGED freelist

(* NumaObjectPool::release destroys the object *)
release(o) == /\ entries' = [entries EXCEPT ![o] = None]
              /\ freelist' = Append(freelist, o)

(* Mutant: a retired object is destroyed at once. *)
DeleteNow(o) ==
  /\ retired' = retired + 1
  /\ release(o)
  /\ UNCHANGED entry_gc

(* At most one object can be over the epoch: the loop releases at most one. *)
_safely_delete(o) ==
  LET gc == Append(entry_gc, o) IN
  /\ retired' = retired + 1
  /\ IF Len(gc) > safely_free_epoch
     THEN entry_gc' = Tail(gc) /\ release(Head(gc))
     ELSE entry_gc' = gc /\ UNCHANGED pool

Discarded(slot) == slot[1] < cache_root

(* Mutant: the entry is freed whatever its slot holds. *)
InvalidateBlind(slot, o) ==
  /\ nodes' = [nodes EXCEPT ![slot[1]].records[slot[2]].cache_entry = 0]
  /\ free_size' = free_size + EntrySize
  /\ strays' = IF Discarded(slot) THEN strays + EntrySize ELSE strays
  /\ _safely_delete(o)

(* invalidate frees the entry only if the CAS on its slot succeeds *)
invalidate(slot, o) ==
  IF EntryIn(slot) = o
  THEN /\ nodes' = [nodes EXCEPT ![slot[1]].records[slot[2]].cache_entry = 0]
       /\ free_size' = free_size + EntrySize
       /\ strays' = IF Discarded(slot) THEN strays + EntrySize ELSE strays
       /\ _safely_delete(o)
  ELSE UNCHANGED <<nodes, free_size, strays, retired, entry_gc, pool>>

(* Mutant: the size recorded for a node is not given back. *)
ConsumeAgain(ns, bytes) ==
  /\ node_mem_size' = [n \in DOMAIN node_mem_size \cup ns |->
                         IF n \in ns THEN node_content_size(n) ELSE node_mem_size[n]]
  /\ free_size' = free_size - bytes - MapThenSumSet(node_content_size, ns)

(* consume_by_node on each node of ns: the size recorded for it is replaced *)
Consume(ns, bytes) ==
  LET old(n) == IF n \in DOMAIN node_mem_size THEN node_mem_size[n] ELSE 0 IN
  /\ node_mem_size' = [n \in DOMAIN node_mem_size \cup ns |->
                         IF n \in ns THEN node_content_size(n) ELSE node_mem_size[n]]
  /\ free_size' = free_size - bytes - MapThenSumSet(LAMBDA n : node_content_size(n) - old(n), ns)

-----------------------------------------------------------------------------
(* A thread: pc names the access it makes next. *)

Idle == [pc |-> "idle"]

Go(t, l) == th' = [th EXCEPT ![t] = l]

Init == /\ nodes = <<EmptyNode>>
        /\ cache_root = 1
        /\ entries = <<>> /\ freelist = <<>> /\ entry_gc = <<>> /\ eviction_list = <<>>
        /\ free_size = Capacity
        /\ node_mem_size = [n \in {} |-> 0]
        /\ th = [t \in Threads |-> Idle]
        /\ inserts = 0 /\ searches = 0 /\ retired = 0 /\ strays = 0

(* The first position of the header where b ends or differs.  A header is  *)
(* read at the depth it carries; past the end of b the code reads an       *)
(* arbitrary byte, junk.                                                   *)
ByteAt(b, i, junk) == IF i < Len(b) THEN b[i + 1] ELSE junk

Mismatches(b, h, junk) ==
  {i \in 0..(Len(h.partial) - 1) :
     h.depth + i = Len(b) - 1 \/ ByteAt(b, h.depth + i, junk) # h.partial[i + 1]}

(* add_to_cache: the entry is built before the tree is touched *)
add_to_cache(t, b) ==
  /\ th[t].pc = "idle" /\ inserts < InsertMax
  /\ inserts' = inserts + 1
  /\ \E o \in 1..(Len(entries) + 1) :
       /\ allocate([prefix |-> b, ver |-> inserts + 1], o)
       /\ Go(t, [pc |-> "visit", bytes |-> b, entry |-> o, node |-> cache_root,
                 parent |-> 0, idx |-> 0])
  /\ UNCHANGED <<nodes, cache_root, entry_gc, books, searches, retired, strays>>

(* _insert, from "next:": read the header of a node and one record of it *)
Visit(t, junk) ==
  LET l  == th[t]
      b  == l.bytes
      h  == nodes[l.node].hdr
      ms == Mismatches(b, h, junk)
      at == h.depth + Len(h.partial)
      x  == ByteAt(b, at, junk)
      r  == IF x \in DOMAIN nodes[l.node].records THEN nodes[l.node].records[x]
            ELSE CacheNodeValue(0, 0)
      to(pc) == [pc |-> pc, bytes |-> b, entry |-> l.entry, node |-> l.node,
                 parent |-> l.parent, idx |-> l.idx]
  IN
  /\ l.pc = "visit"
  /\ \/ /\ ms # {}
        /\ Go(t, to("split") @@ [hdr |-> h, i |-> Min(ms),
                                 cur |-> ByteAt(b, h.depth + Min(ms), junk)])
        /\ UNCHANGED nodes
     \/ /\ ms = {} /\ at = Len(b) - 1
        /\ nodes' = WithRecord(l.node, x)
        /\ Go(t, to("entry") @@ [slot |-> <<l.node, x>>, old |-> r.cache_entry])
     \/ /\ ms = {} /\ at # Len(b) - 1 /\ r.next = 0
        /\ nodes' = WithRecord(l.node, x)
        /\ Go(t, [to("next") EXCEPT !.idx = at] @@ [slot |-> <<l.node, x>>])
     \/ /\ ms = {} /\ at # Len(b) - 1 /\ r.next # 0
        /\ Go(t, [to("visit") EXCEPT !.parent = l.node, !.node = r.next, !.idx = at + 1])
        /\ UNCHANGED nodes
  /\ UNCHANGED <<cache_root, pool, entry_gc, books, counts, retired, strays>>

Book(l, slot, old, ns) ==
  [pc |-> "book", entry |-> l.entry, slot |-> slot, old |-> old, touched |-> ns]

(* The first CAS of a split: the new node takes the place of the old one *)
SplitNext(t) ==
  LET l    == th[t]
      b    == l.bytes
      x    == b[l.idx]                \* byte_array[idx - 1]
      m    == Len(nodes) + 1
      made == SplitNodes(b, l.idx, l.hdr, l.i, l.node, l.cur, l.entry, m)
      cur  == nodes[l.parent].records[x].next
  IN
  /\ l.pc = "split"
  /\ \/ /\ cur = l.node
        /\ nodes' = [nodes EXCEPT ![l.parent].records[x].next = m] \o made
        /\ Go(t, [l EXCEPT !.pc = "header"] @@
                 [slot |-> IF Len(made) = 2 THEN <<m + 1, Last(b)>> ELSE <<m, l.cur>>,
                  touched |-> {m + k - 1 : k \in DOMAIN made} \cup {l.node}])
     \/ /\ cur # l.node
        /\ Go(t, [pc |-> "visit", bytes |-> b, entry |-> l.entry, node |-> cur,
                  parent |-> l.parent, idx |-> l.idx])
        /\ UNCHANGED nodes
  /\ UNCHANGED <<cache_root, pool, entry_gc, books, counts, retired, strays>>

(* The second CAS of a split: the old node's header is shortened, unless   *)
(* another thread has changed it meanwhile.                                *)
SplitHeader(t) ==
  LET l == th[t] IN
  /\ l.pc = "header"
  /\ nodes' = IF nodes[l.node].hdr = l.hdr
              THEN [nodes EXCEPT ![l.node].hdr = split_header(l.hdr, l.i)] ELSE nodes
  /\ Go(t, Book(l, l.slot, 0, l.touched))
  /\ UNCHANGED <<cache_root, pool, entry_gc, books, counts, retired, strays>>

(* Last level: the entry of the slot is replaced; a lost race drops the    *)
(* new entry.                                                              *)
CasEntry(t) ==
  LET l == th[t] IN
  /\ l.pc = "entry"
  /\ \/ /\ EntryIn(l.slot) = l.old
        /\ nodes' = [nodes EXCEPT ![l.slot[1]].records[l.slot[2]].cache_entry = l.entry]
        /\ Go(t, Book(l, l.slot, l.old, {l.slot[1]}))
        /\ UNCHANGED pool
     \/ /\ EntryIn(l.slot) # l.old
        /\ release(l.entry)
        /\ Go(t, [pc |-> "check"])
        /\ UNCHANGED nodes
  /\ UNCHANGED <<cache_root, entry_gc, books, counts, retired, strays>>

(* Internal level without a child: a leaf node is linked *)
CasNext(t) ==
  LET l   == th[t]
      m   == Len(nodes) + 1
      cur == nodes[l.slot[1]].records[l.slot[2]].next
  IN
  /\ l.pc = "next"
  /\ \/ /\ cur = 0
        /\ nodes' = [nodes EXCEPT ![l.slot[1]].records[l.slot[2]].next = m]
                    \o <<LeafNode(l.bytes, l.idx + 1, l.entry)>>
        /\ Go(t, Book(l, <<m, Last(l.bytes)>>, 0, {l.slot[1], m}))
     \/ /\ cur # 0
        /\ Go(t, [pc |-> "visit", bytes |-> l.bytes, entry |-> l.entry, node |-> cur,
                  parent |-> l.slot[1], idx |-> l.idx + 1])
        /\ UNCHANGED nodes
  /\ UNCHANGED <<cache_root, pool, entry_gc, books, counts, retired, strays>>

(* Mutant: an entry that replaces another is not recorded. *)
BookkeepNew(t) ==
  LET l == th[t] IN
  /\ l.pc = "book"
  /\ eviction_list' = IF l.old = 0 THEN Append(eviction_list, <<l.slot, l.entry>>)
                      ELSE eviction_list
  /\ Consume(l.touched, IF l.old = 0 THEN EntrySize ELSE 0)
  /\ IF l.old # 0 THEN _safely_delete(l.old) ELSE UNCHANGED <<entry_gc, retired, pool>>
  /\ Go(t, [pc |-> "check"])
  /\ UNCHANGED <<nodes, cache_root, counts, strays>>

(* After a successful CAS: account for the nodes and the entry, retire the *)
(* entry that was replaced, and record the new one for eviction.           *)
Bookkeep(t) ==
  LET l == th[t] IN
  /\ l.pc = "book"
  /\ eviction_list' = Append(eviction_list, <<l.slot, l.entry>>)
  /\ Consume(l.touched, IF l.old = 0 THEN EntrySize ELSE 0)
  /\ IF l.old # 0 THEN _safely_delete(l.old) ELSE UNCHANGED <<entry_gc, retired, pool>>
  /\ Go(t, [pc |-> "check"])
  /\ UNCHANGED <<nodes, cache_root, counts, strays>>

(* The end of add_to_cache: evict when the budget is overdrawn *)
CheckBudget(t) ==
  /\ th[t].pc = "check"
  /\ Go(t, IF free_size < 0 THEN [pc |-> "evict"] ELSE Idle)
  /\ UNCHANGED <<nodes, cache_root, pool, entry_gc, books, counts, retired, strays>>

(* One round of the loop of _evict *)
_evict(t) ==
  /\ th[t].pc = "evict"
  /\ UNCHANGED <<cache_root, node_mem_size, counts>>
  /\ \/ /\ eviction_list # <<>>
        /\ invalidate(Head(eviction_list)[1], Head(eviction_list)[2])
        /\ eviction_list' = Tail(eviction_list)
     \/ /\ eviction_list = <<>>
        /\ UNCHANGED <<eviction_list, nodes, free_size, strays, retired, entry_gc, pool>>
  /\ Go(t, CASE eviction_list' = <<>> -> [pc |-> "rebuild"]
             [] eviction_list' # <<>> /\ free_size' < 0 -> [pc |-> "evict"]
             [] OTHER -> Idle)

(* The list ran empty: start over with a new tree and a new budget, in one  *)
(* step.  The queue in which headers that a split replaced wait to be freed *)
(* is left out: Visit reads a header in one step.                           *)
Rebuild(t) ==
  /\ th[t].pc = "rebuild"
  /\ nodes' = Append(nodes, EmptyNode)
  /\ cache_root' = Len(nodes) + 1
  /\ free_size' = Capacity
  /\ node_mem_size' = [n \in {} |-> 0]
  /\ strays' = 0
  /\ Go(t, Idle)
  /\ UNCHANGED <<pool, entry_gc, eviction_list, counts, retired>>

-----------------------------------------------------------------------------
(* search_from_cache: the whole path is walked first, then the entries met *)
(* on it are examined, the deepest first.                                  *)

search_from_cache(t, k) ==
  /\ th[t].pc = "idle" /\ searches < SearchMax
  /\ searches' = searches + 1
  /\ Go(t, [pc |-> "walk", key |-> k, node |-> cache_root, idx |-> 0, stk |-> <<>>])
  /\ UNCHANGED <<nodes, cache_root, pool, entry_gc, books, inserts, retired, strays>>

_search(t, junk) ==
  LET l  == th[t]
      b  == Front(l.key)
      h  == nodes[l.node].hdr
      at == h.depth + Len(h.partial)
      x  == ByteAt(b, at, junk)
      r  == nodes[l.node].records[x]
      item == [slot |-> <<l.node, x>>, entry |-> r.cache_entry, next_idx |-> at + 1,
               seen |-> retired]
      done(s) == [pc |-> "examine", key |-> l.key, stk |-> s]
  IN
  /\ l.pc = "walk"
  /\ Go(t, CASE l.idx >= Len(b) \/ Mismatches(b, h, junk) # {} \/ x \notin DOMAIN nodes[l.node].records
                  -> done(l.stk)
             [] OTHER -> IF r.next = 0 THEN done(Append(l.stk, item))
                         ELSE [l EXCEPT !.stk = Append(@, item), !.node = r.next, !.idx = at + 1])
  /\ UNCHANGED <<nodes, cache_root, pool, entry_gc, books, counts, retired, strays>>

(* One entry of the stack: it may be null, expired, without a record for   *)
(* the next byte of the key, or a hit.  found is what the caller reads.    *)
Examine(t) ==
  LET l    == th[t]
      item == Last(l.stk)
      rest == [l EXCEPT !.stk = Front(@)]
  IN
  /\ l.pc = "examine"
  /\ UNCHANGED <<cache_root, eviction_list, node_mem_size, counts>>
  /\ \/ /\ l.stk = <<>>
        /\ Go(t, Idle)
        /\ UNCHANGED <<nodes, free_size, strays, retired, entry_gc, pool>>
     \/ /\ l.stk # <<>>                             \* nothing for the key here
        /\ Go(t, rest)
        /\ UNCHANGED <<nodes, free_size, strays, retired, entry_gc, pool>>
     \/ /\ l.stk # <<>> /\ item.entry # 0           \* expired
        /\ invalidate(item.slot, item.entry)
        /\ Go(t, rest)
     \/ /\ l.stk # <<>> /\ item.entry # 0           \* hit
        /\ Go(t, [pc |-> "hold", key |-> l.key, slot |-> item.slot, entry |-> item.entry,
                  next_idx |-> item.next_idx, found |-> entries[item.entry],
                  late |-> retired - item.seen > safely_free_epoch])
        /\ UNCHANGED <<nodes, free_size, strays, retired, entry_gc, pool>>

(* The tree is done with the hit: it keeps it, or it found it stale *)
Use(t) ==
  LET l == th[t] IN
  /\ l.pc = "hold"
  /\ Go(t, Idle)
  /\ UNCHANGED <<cache_root, eviction_list, node_mem_size, counts>>
  /\ \/ invalidate(l.slot, l.entry)
     \/ UNCHANGED <<nodes, free_size, strays, retired, entry_gc, pool>>

Finished == /\ \A t \in Threads : th[t].pc = "idle"
            /\ inserts = InsertMax /\ searches = SearchMax
            /\ UNCHANGED vars

Step(t) ==
  \/ \E b \in CachedPrefixes : add_to_cache(t, b)
  \/ \E k \in SearchKeys : search_from_cache(t, k)
  \/ \E junk \in Bytes : Visit(t, junk) \/ _search(t, junk)
  \/ SplitNext(t) \/ SplitHeader(t) \/ CasEntry(t) \/ CasNext(t) \/ Bookkeep(t)
  \/ CheckBudget(t) \/ _evict(t) \/ Rebuild(t) \/ Examine(t) \/ Use(t)

Next == (\E t \in Threads : Step(t)) \/ Finished

Spec == Init /\ [][Next]_vars

-----------------------------------------------------------------------------
(* Properties. *)

(* The object a lookup of exactly prefix b meets at its last byte, starting *)
(* from node n: what the tree of nodes means as a map.                     *)
RECURSIVE EntryFor(_, _)
EntryFor(n, b) ==
  LET h  == nodes[n].hdr
      at == h.depth + Len(h.partial)
  IN IF \/ at >= Len(b)
        \/ \E i \in 1..Len(h.partial) : b[h.depth + i] # h.partial[i]
        \/ b[at + 1] \notin DOMAIN nodes[n].records
     THEN 0
     ELSE LET r == nodes[n].records[b[at + 1]]
          IN IF at = Len(b) - 1 THEN r.cache_entry
             ELSE IF r.next = 0 THEN 0 ELSE EntryFor(r.next, b)

Contents == [b \in CachedPrefixes |->
               LET o == EntryFor(cache_root, b) IN IF o = 0 THEN None ELSE entries[o]]

(* The tree of nodes implements a map from prefixes to snapshots: through   *)
(* every split, replacement, invalidation, eviction and rebuild, one step   *)
(* of _insert, invalidate or _evict changes what is cached for one prefix   *)
(* (or drops everything), and what it stores for a prefix is a snapshot     *)
(* that add_to_cache took for that prefix.                                  *)
Map == INSTANCE SnapshotMap WITH map <- Contents, Versions <- 1..InsertMax

RadixIsAMap == Map!Spec

(* search_from_cache returns a snapshot taken for a prefix of the searched  *)
(* key, of the length it reports, provided that no more than                *)
(* safely_free_epoch entries were retired since the search loaded the       *)
(* pointer (the delay _safely_delete is there for).                         *)
HitsAreForTheKey ==
  \A t \in Threads : th[t].pc = "hold" /\ ~th[t].late =>
    /\ th[t].found # None
    /\ th[t].found.prefix = SubSeq(th[t].key, 1, th[t].next_idx)

(* Every object of the pool is in one place: released, waiting in the       *)
(* garbage queue, in one slot of a node, or held by the thread that is      *)
(* inserting or retiring it.  An object in two places would be reused       *)
(* under a slot that still points to it; one in no place is lost.           *)
HeldBy(t) == (IF th[t].pc \in {"visit", "split", "entry", "next"} THEN <<th[t].entry>> ELSE <<>>)
             \o (IF th[t].pc = "book" /\ th[t].old # 0 THEN <<th[t].old>> ELSE <<>>)

PlacesOf(o) ==
  LET in(s) == Cardinality({i \in DOMAIN s : s[i] = o})
  IN in(freelist) + in(entry_gc) + Cardinality({s \in Slots : EntryIn(s) = o})
     + MapThenSumSet(LAMBDA t : in(HeldBy(t)), Threads)

PoolIsPartitioned == \A o \in DOMAIN entries : PlacesOf(o) = 1

(* Every entry in a slot can still be evicted: its slot and object are in   *)
(* the eviction list, or about to be put there.  This includes the slots of *)
(* discarded trees, so rebuilding does not leak entries of the pool.        *)
LiveEntriesAreEvictable ==
  \A s \in Slots : EntryIn(s) # 0 =>
    \/ \E i \in DOMAIN eviction_list : eviction_list[i] = <<s, EntryIn(s)>>
    \/ \E t \in Threads : th[t].pc \in {"header", "book"} /\ th[t].slot = s
                          /\ th[t].entry = EntryIn(s)

(* When a thread working alone has returned from add_to_cache, the bytes    *)
(* the cache really uses fit the budget, up to what was freed for entries   *)
(* of a tree that had already been discarded: the running count of          *)
(* FreeMemManager does not drift from the tree.                             *)
Current == {n \in DOMAIN nodes : n >= cache_root}

Used == MapThenSumSet(node_content_size, Current \ {n \in Current : DOMAIN nodes[n].records = {}})
        + EntrySize * Cardinality({s \in Slots : s[1] \in Current /\ EntryIn(s) # 0})

CacheStaysInBudget ==
  Cardinality(Threads) = 1 /\ (\A t \in Threads : th[t].pc = "idle") =>
    /\ free_size = Capacity - Used + strays
    /\ Used <= Capacity + strays
=============================================================================
