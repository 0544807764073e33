-------------------------------- MODULE Tree --------------------------------
(***************************************************************************)
(* The adaptive radix tree in disaggregated memory: Tree::insert and       *)
(* Tree::search (src/Tree.cpp) over the nodes and leaves of include/Node.h.*)
(* Each client works on a compute node of its own, so its local lock is    *)
(* free and get_combining_value returns its own value; LocalLock models    *)
(* what clients of one compute node do to each other.                      *)
(*                                                                         *)
(* One step is one RDMA verb on memory another client can reach.  A leaf   *)
(* or node that no entry points to yet is written in the step that links   *)
(* it.  The whole leaf written by an in-place update is two steps, so that *)
(* a reader meets half-written leaves.  Slots of a node are read at once:  *)
(* a slot goes from Null to an entry and then keeps its partial key, and   *)
(* a reader that saw it too early is caught by its CAS.                    *)
(*                                                                         *)
(* Clients follow the coroutine build (cxt # nullptr), where every verb is *)
(* waited for, the ones called async included.                             *)
(***************************************************************************)
EXTENDS Integers, Sequences, FiniteSets, SequencesExt, FiniteSetsExt

CONSTANTS
    Clients,
    Keys,           \* byte sequences, all of length keyLen
    keyLen,         \* bytes of a key (8)
    hPartialLenMax, \* bytes of a compressed path in one header (6)
    NodeNum,        \* slots of node type 1, 2, ... (4, 8, 16, ..., 256)
    UseCache,       \* TREE_ENABLE_CACHE
    Preload,        \* the keys of the load phase, in order
    LoadClient,     \* the client that loads them
    InsertKeys,     \* the keys inserted or updated after the load phase
    SearchKeys,     \* the keys searched
    InsertMax,      \* bound: inserts after the load phase
    SearchMax       \* bound: searches

ASSUME NodeNumAssumption ==
    /\ NodeNum[1] > 2
    /\ \A t \in 2 .. Len(NodeNum) : NodeNum[t - 1] < NodeNum[t]

VARIABLES
    nodes,    \* the internal pages; nodes[1] holds the root entry in slot 0
    leaves,
    cache,    \* each client's index cache: a set of snapshots of pages
    cl,       \* the locals of each client
    loaded,   \* keys of Preload inserted so far
    started,  \* operations started: the values inserted are their numbers
    order,    \* history: the values each key took, in order
    acked     \* history: position in order[k] some finished operation has seen

vars == <<nodes, leaves, cache, cl, loaded, started, order, acked>>

-----------------------------------------------------------------------------
(* Key.h and Node.h *)

get_partial(k, depth) == IF depth = 0 THEN 0 ELSE k[depth]

\* Bytes k1 and k2 share from depth on.
longest_common_prefix(k1, k2, depth) ==
    Min({i \in 0 .. keyLen - depth :
           get_partial(k1, depth + i) # get_partial(k2, depth + i)}
        \union {keyLen - depth + 1})

MaxNodeNum == NodeNum[Len(NodeNum)]
node_type_to_num(t) == IF t = 0 THEN 0 ELSE NodeNum[t]
num_to_node_type(n) == Min({t \in 1 .. Len(NodeNum) : n < NodeNum[t]})

Null == [partial |-> 0, leaf |-> FALSE, type |-> 0, addr |-> 0]
LeafEntry(b, a) == [partial |-> b, leaf |-> TRUE, type |-> 0, addr |-> a]
NodeEntry(b, t, a) == [partial |-> b, leaf |-> FALSE, type |-> t, addr |-> a]

Leaf(k, v, ptr) == [rev |-> ptr, key |-> k, sum |-> v, val |-> v, lock |-> FALSE]
\* Mutant: the checksum is not compared.
AlwaysConsistent(lf) == TRUE
is_consistent(lf) == lf.sum = lf.val

Header(k, len, depth, t) ==
    [depth |-> depth, type |-> t,
     partial |-> [i \in 1 .. len |-> get_partial(k, depth + i - 1)]]
\* Mutant: the byte that now selects the slot above is not counted.
SplitHeaderOffByOne(hdr, i) ==
    [hdr EXCEPT !.depth = @ + i, !.partial = SubSeq(@, i + 2, Len(@))]
split_header(hdr, i) ==
    [hdr EXCEPT !.depth = @ + i + 1,
                !.partial = SubSeq(@, i + 2, Len(@))]
\* Positions (from 0) where the header differs from k.
HeaderDiff(hdr, k) ==
    {i \in 0 .. Len(hdr.partial) - 1 : get_partial(k, hdr.depth + i) # hdr.partial[i + 1]}

InternalPage(hdr, ptr) ==
    [rev |-> ptr, hdr |-> hdr, rec |-> [i \in 0 .. MaxNodeNum - 1 |-> Null]]

\* An entry lives in a slot of a page; the root entry in page 1.
RootPtr == <<1, 0>>
EntryAt(ptr) == nodes[ptr[1]].rec[ptr[2]]

-----------------------------------------------------------------------------
(* The index cache, as Tree uses it.  A snapshot is found by the bytes on   *)
(* the path to its slots; search_from_cache may miss at any time, since     *)
(* entries expire and are evicted.                                          *)

Snapshot(k, addr, hdr, rec) ==
    [prefix |-> SubSeq(k, 1, hdr.depth - 1) \o hdr.partial,
     depth |-> hdr.depth + Len(hdr.partial), addr |-> addr,
     rec |-> [i \in 0 .. node_type_to_num(hdr.type) - 1 |-> rec[i]]]

\* Pages whose header starts at depth 1 are not cached.
add_to_cache(cch, k, addr, hdr, rec) ==
    LET s == Snapshot(k, addr, hdr, rec) IN
    IF ~UseCache \/ hdr.depth = 1 THEN cch
    ELSE {t \in cch : t.prefix # s.prefix} \union {s}

Hits(c, k) ==
    {<<s, i>> \in cache[c] \X (0 .. MaxNodeNum - 1) :
        /\ IsPrefix(s.prefix, k)
        /\ i \in DOMAIN s.rec /\ s.rec[i] # Null
        /\ s.rec[i].partial = get_partial(k, s.depth)}

-----------------------------------------------------------------------------
(* The locals of a client                                                   *)
(*   pc, op, key, val        the operation and where it stands               *)
(*   ptr, p, depth, cached   p_ptr, p, depth, from_cache of the traversal    *)
(*   hit                     the snapshot p was taken from                   *)
(*   buf                     the page or leaf last read                      *)
(*   correct                 type_correct                                    *)
(*   slot                    a slot to try, or the last page written         *)
(*   node, sw1, sw2          node_addr, res.first, res.second                *)
(*   found, pos, floor       the result, its place in order[key], and what   *)
(*                           acked[key] was when the operation started       *)

NoPage == [rev |-> RootPtr]
NoHit == [prefix |-> <<>>]
Idle == [pc |-> "idle", op |-> "search", key |-> <<>>, val |-> 0,
         ptr |-> RootPtr, p |-> Null, depth |-> 0, cached |-> FALSE,
         hit |-> NoHit, buf |-> NoPage, correct |-> TRUE, slot |-> 0,
         node |-> 0, sw1 |-> FALSE, sw2 |-> FALSE, found |-> FALSE, pos |-> 0, floor |-> 0]

Init ==
    /\ nodes = <<InternalPage(Header(<<>>, 0, 0, 1), RootPtr)>>
    /\ leaves = <<>>
    /\ cache = [c \in Clients |-> {}]
    /\ cl = [c \in Clients |-> Idle]
    /\ loaded = 0
    /\ started = [insert |-> 0, search |-> 0]
    /\ order = [k \in Keys |-> <<>>]
    /\ acked = [k \in Keys |-> 0]

\* Where a traversal goes on with entry e found at ptr ("next:").
Visit(l, ptr, e, depth, cached) ==
    [l EXCEPT !.ptr = ptr, !.p = e, !.depth = depth, !.cached = cached,
              !.buf = NoPage,
              !.pc = CASE e = Null -> "null" [] e.leaf -> "leaf" [] OTHER -> "node"]

Set(c, l) == cl' = [cl EXCEPT ![c] = l]
Goto(c, label) == Set(c, [cl[c] EXCEPT !.pc = label])
Inserting(l) == l.op # "search"

\* The operation ends; pos is the place in order[key] of what it did or saw.
Finish(l, found, pos) ==
    [l EXCEPT !.pc = "return", !.found = found, !.pos = pos, !.buf = NoPage,
              !.hit = NoHit]

\* A value for the key of l takes effect.
Effect(l) == order' = [order EXCEPT ![l.key] = Append(@, l.val)]
Position(k, v) == SelectInSeq(order[k], LAMBDA x : x = v)

\* invalidate: the snapshot the traversal came from is dropped.
Invalidated(c, l) == IF l.cached THEN cache[c] \ {l.hit} ELSE cache[c]

-----------------------------------------------------------------------------
(* The start of insert and search *)

\* The root entry is read, or a cached page gives an entry further down.
Start(c, op, k, v) ==
    LET l == [Idle EXCEPT !.op = op, !.key = k, !.val = v, !.floor = acked[k]] IN
    \/ /\ Set(c, Visit(l, RootPtr, EntryAt(RootPtr), 1, FALSE))
    \/ \E h \in Hits(c, k) :
         Set(c, Visit([l EXCEPT !.hit = h[1]], <<h[1].addr, h[2]>>,
                      h[1].rec[h[2]], h[1].depth + 1, TRUE))

\* The load phase: one client inserts the keys of Preload with is_load.
Load(c) ==
    /\ c = LoadClient /\ cl[c].pc = "idle" /\ loaded < Len(Preload)
    /\ loaded' = loaded + 1
    /\ Start(c, "load", Preload[loaded + 1], -loaded')
    /\ UNCHANGED <<nodes, leaves, cache, started, order, acked>>

LoadDone == loaded = Len(Preload) /\ cl[LoadClient].op # "load"

Insert(c, k) ==
    /\ cl[c].pc = "idle" /\ LoadDone /\ started.insert < InsertMax
    /\ started' = [started EXCEPT !.insert = @ + 1]
    /\ Start(c, "insert", k, started'.insert)
    /\ UNCHANGED <<nodes, leaves, cache, loaded, order, acked>>

\* search asserts that the tree has a root.
Search(c, k) ==
    /\ cl[c].pc = "idle" /\ LoadDone /\ started.search < SearchMax
    /\ EntryAt(RootPtr) # Null
    /\ started' = [started EXCEPT !.search = @ + 1]
    /\ Start(c, "search", k, 0)
    /\ UNCHANGED <<nodes, leaves, cache, loaded, order, acked>>

\* The caller gets its answer.
Return(c) ==
    LET l == cl[c] IN
    /\ l.pc = "return"
    /\ acked' = [acked EXCEPT ![l.key] = Max({@, l.pos})]
    /\ Set(c, Idle)
    /\ UNCHANGED <<nodes, leaves, cache, loaded, started, order>>

-----------------------------------------------------------------------------
(* out_of_place_write_leaf: a leaf for l.key is linked at ptr if ptr is     *)
(* still Null; otherwise the CAS returns what is there.                     *)

\* Mutant: the entry is written, not compared and swapped.
LinkLeafBlind(c, l, ptr, partial, after) ==
    /\ leaves' = Append(leaves, Leaf(l.key, l.val, ptr))
    /\ nodes' = [nodes EXCEPT ![ptr[1]].rec[ptr[2]] = LeafEntry(partial, Len(leaves'))]
    /\ Effect(l)
    /\ Set(c, [after EXCEPT !.pos = Len(order'[l.key])])

LinkLeaf(c, l, ptr, partial, after) ==
    /\ EntryAt(ptr) = Null
    /\ leaves' = Append(leaves, Leaf(l.key, l.val, ptr))
    /\ nodes' = [nodes EXCEPT ![ptr[1]].rec[ptr[2]] = LeafEntry(partial, Len(leaves'))]
    /\ Effect(l)
    /\ Set(c, [after EXCEPT !.pos = Len(order'[l.key])])

\* 1. At a Null entry, inject a leaf.
CasNull(c) ==
    LET l == cl[c] IN
    /\ l.pc = "null"
    /\ \/ LinkLeaf(c, l, l.ptr, get_partial(l.key, l.depth - 1), Finish(l, TRUE, 0))
       \/ /\ EntryAt(l.ptr) # Null
          /\ Set(c, Visit(l, l.ptr, EntryAt(l.ptr), l.depth, l.cached))
          /\ UNCHANGED <<nodes, leaves, order>>
    /\ UNCHANGED <<cache, loaded, started, acked>>

-----------------------------------------------------------------------------
(* read_leaf and what insert and search do with the leaf *)

LeafValid(l) == ~l.cached \/ l.buf.rev = l.ptr

\* The key is there: an insert updates it in place (values are unique, so
\* none is found unchanged), a load leaves it.  Another key: split the leaf.
InsertAtLeaf(l) ==
    CASE l.buf.key # l.key -> [l EXCEPT !.pc = "split_leaf"]
      [] l.buf.key = l.key /\ l.op = "load" -> Finish(l, TRUE, 0)
      [] OTHER -> [l EXCEPT !.pc = "lock"]

SearchAtLeaf(l) ==
    IF l.buf.key = l.key THEN Finish(l, TRUE, Position(l.key, l.buf.val))
    ELSE Finish(l, FALSE, 0)

\* What is done with the leaf in l.buf.  Invalid: re-read the entry.
\* Inconsistent: re-read the leaf.
LeafRead(c, l) ==
    /\ Set(c, CASE ~LeafValid(l) -> [l EXCEPT !.pc = "reread", !.hit = NoHit]
                [] LeafValid(l) /\ ~is_consistent(l.buf) -> [l EXCEPT !.pc = "leaf"]
                [] OTHER -> IF Inserting(l) THEN InsertAtLeaf(l) ELSE SearchAtLeaf(l))
    /\ cache' = [cache EXCEPT ![c] = IF LeafValid(l) THEN @ ELSE Invalidated(c, l)]

\* Read the leaf; its reverse pointer is corrected if p did not come from
\* the cache.
ReadLeaf(c) ==
    LET l == cl[c]
        lf == leaves[l.p.addr]
        m == [l EXCEPT !.buf = lf]
    IN
    /\ l.pc = "leaf"
    /\ \/ /\ ~l.cached /\ lf.rev # l.ptr
          /\ Set(c, [m EXCEPT !.pc = "leaf_rev"])
          /\ UNCHANGED cache
       \/ /\ l.cached \/ lf.rev = l.ptr
          /\ LeafRead(c, m)
    /\ UNCHANGED <<nodes, leaves, loaded, started, order, acked>>

FixLeafRev(c) ==
    LET l == cl[c] IN
    /\ l.pc = "leaf_rev"
    /\ leaves' = [leaves EXCEPT ![l.p.addr].rev = IF @ = l.buf.rev THEN l.ptr ELSE @]
    /\ LeafRead(c, l)
    /\ UNCHANGED <<nodes, loaded, started, order, acked>>

\* Re-read the entry at ptr, from the memory node.
Reread(c) ==
    LET l == cl[c] IN
    /\ l.pc = "reread"
    /\ Set(c, Visit(l, l.ptr, EntryAt(l.ptr), l.depth, FALSE))
    /\ UNCHANGED <<nodes, leaves, cache, loaded, started, order, acked>>

\* Mutant: the result of the masked CAS is ignored.
LockLeafIgnored(c) ==
    LET l == cl[c] IN
    /\ l.pc = "lock"
    /\ leaves' = [leaves EXCEPT ![l.p.addr].lock = TRUE]
    /\ Goto(c, "write")
    /\ UNCHANGED <<nodes, cache, loaded, started, order, acked>>

\* in_place_update_leaf: lock the leaf with a masked CAS (retried until it
\* succeeds) ...
LockLeaf(c) ==
    LET l == cl[c] IN
    /\ l.pc = "lock"
    /\ ~leaves[l.p.addr].lock
    /\ leaves' = [leaves EXCEPT ![l.p.addr].lock = TRUE]
    /\ Goto(c, "write")
    /\ UNCHANGED <<nodes, cache, loaded, started, order, acked>>

\* ... then write back the whole leaf as it was read, with the new value, its
\* checksum and the lock released.  Half written, its value is a mix of two,
\* here 0.
WriteLeafHead(c) ==
    LET l == cl[c] IN
    /\ l.pc = "write"
    /\ leaves' = [leaves EXCEPT ![l.p.addr].rev = l.buf.rev,
                                  ![l.p.addr].sum = l.val, ![l.p.addr].val = 0]
    /\ Goto(c, "write_rest")
    /\ UNCHANGED <<nodes, cache, loaded, started, order, acked>>

WriteLeafRest(c) ==
    LET l == cl[c] IN
    /\ l.pc = "write_rest"
    /\ leaves' = [leaves EXCEPT ![l.p.addr].val = l.val, ![l.p.addr].lock = FALSE]
    /\ Effect(l)
    /\ Set(c, Finish(l, TRUE, Len(order'[l.key])))
    /\ UNCHANGED <<nodes, cache, loaded, started, acked>>

-----------------------------------------------------------------------------
(* out_of_place_write_node: new pages for the len bytes the keys share from *)
(* depth on, a new leaf in slot 1 of the last one and the old entry, under  *)
(* the byte diff, in slot 0; then CAS the entry at ptr to the first page.   *)

\* The path bytes a full page and the slot below it stand for; pages needed.
Span(limit) == limit + 1
\* Mutant: the length limit of a header is not respected.
PagesForAnyLength(len) == 1
PagesFor(len) == len \div Span(hPartialLenMax) + 1

NewPages(l, len, diff) ==
    LET m == PagesFor(len)
        base == Len(nodes)
        Depth(i) == l.depth + (i - 1) * Span(hPartialLenMax)
        Rev(i) == IF i = 1 THEN l.ptr ELSE <<base + i - 1, 0>>
    IN [i \in 1 .. m |->
          IF i < m
          THEN [InternalPage(Header(l.key, hPartialLenMax, Depth(i), 1), Rev(i))
                  EXCEPT !.rec[0] = NodeEntry(get_partial(l.key, Depth(i) + hPartialLenMax),
                                              1, base + i + 1)]
          ELSE LET rest == len - (m - 1) * Span(hPartialLenMax) IN
               [InternalPage(Header(l.key, rest, Depth(m), 1), Rev(m))
                  EXCEPT !.rec[0] = [l.p EXCEPT !.partial = diff],
                         !.rec[1] = LeafEntry(get_partial(l.key, Depth(m) + rest),
                                              Len(leaves) + 1)]]

\* The new pages go into the cache, in order.
CachePages(c, l, pages) ==
    FoldLeftDomain(LAMBDA cch, i : add_to_cache(cch, l.key, Len(nodes) + i,
                                                pages[i].hdr, pages[i].rec),
                   cache[c], pages)

\* Mutant: the entry is written, not compared and swapped.
WriteNodeBlind(c, len, diff, after) ==
    LET l == cl[c]
        pages == NewPages(l, len, diff)
        last == Len(nodes) + Len(pages)
    IN
    /\ nodes' = [nodes EXCEPT ![l.ptr[1]].rec[l.ptr[2]] =
                   NodeEntry(l.p.partial, 1, Len(nodes) + 1)] \o pages
    /\ leaves' = Append(leaves, Leaf(l.key, l.val, <<last, 1>>))
    /\ cache' = [cache EXCEPT ![c] = CachePages(c, l, pages)]
    /\ Effect(l)
    /\ Set(c, [l EXCEPT !.pc = after, !.slot = last, !.pos = Len(order'[l.key])])

WriteNode(c, len, diff, after) ==
    LET l == cl[c]
        pages == NewPages(l, len, diff)
        last == Len(nodes) + Len(pages)
    IN
    \/ /\ EntryAt(l.ptr) = l.p
       /\ nodes' = [nodes EXCEPT ![l.ptr[1]].rec[l.ptr[2]] =
                      NodeEntry(l.p.partial, 1, Len(nodes) + 1)] \o pages
       /\ leaves' = Append(leaves, Leaf(l.key, l.val, <<last, 1>>))
       /\ cache' = [cache EXCEPT ![c] = CachePages(c, l, pages)]
       /\ Effect(l)
       /\ Set(c, [l EXCEPT !.pc = after, !.slot = last, !.pos = Len(order'[l.key])])
    \/ /\ EntryAt(l.ptr) # l.p
       /\ Set(c, Visit(l, l.ptr, EntryAt(l.ptr), l.depth, l.cached))
       /\ UNCHANGED <<nodes, leaves, cache, order>>

\* Mutant: the old leaf goes under a byte of the new key.
SplitLeafOwnByte(c) ==
    LET l == cl[c]
        len == longest_common_prefix(l.buf.key, l.key, l.depth)
    IN
    /\ l.pc = "split_leaf"
    /\ WriteNode(c, len, get_partial(l.key, l.depth + len), "child_rev")
    /\ UNCHANGED <<loaded, started, acked>>

\* 2.3 Merge the leaf and the new one into a node.
SplitLeaf(c) ==
    LET l == cl[c]
        len == longest_common_prefix(l.buf.key, l.key, l.depth)
    IN
    /\ l.pc = "split_leaf"
    /\ WriteNode(c, len, get_partial(l.buf.key, l.depth + len), "child_rev")
    /\ UNCHANGED <<loaded, started, acked>>

\* 3.2 The header differs from the key: put a node above this one.  (The
\* header may be older than the path that led here.)
SplitHeader(c) ==
    LET l == cl[c]
        hdr == l.buf.hdr
        i == Min(HeaderDiff(hdr, l.key))
    IN
    /\ l.pc = "split_header"
    /\ WriteNode(c, hdr.depth + i - l.depth, hdr.partial[i + 1], "child_rev")
    /\ UNCHANGED <<loaded, started, acked>>

\* The child that moved down gets its new reverse pointer.
FixChildRev(c) ==
    LET l == cl[c]
        Fixed(rev) == IF rev = l.ptr THEN <<l.slot, 0>> ELSE rev
    IN
    /\ l.pc = "child_rev"
    /\ \/ /\ l.p.leaf
          /\ leaves' = [leaves EXCEPT ![l.p.addr].rev = Fixed(@)]
          /\ Set(c, Finish(l, TRUE, l.pos))
          /\ UNCHANGED <<nodes, cache>>
       \/ /\ ~l.p.leaf
          /\ nodes' = [nodes EXCEPT ![l.p.addr].rev = Fixed(@)]
          /\ cache' = [cache EXCEPT ![c] = Invalidated(c, l)]
          /\ Goto(c, "header")
          /\ UNCHANGED leaves
    /\ UNCHANGED <<loaded, started, order, acked>>

\* The header of the page that moved down loses the bytes above it, unless
\* someone changed it (the node type is masked out of the CAS).
CasHeader(c) ==
    LET l == cl[c]
        old == l.buf.hdr
        new == split_header(old, Min(HeaderDiff(old, l.key)))
        Same(hdr) == hdr.depth = old.depth /\ hdr.partial = old.partial
    IN
    /\ l.pc = "header"
    /\ nodes' = [nodes EXCEPT ![l.p.addr].hdr =
                   IF Same(@) THEN [new EXCEPT !.type = nodes[l.p.addr].hdr.type] ELSE @]
    /\ Set(c, Finish(l, TRUE, l.pos))
    /\ UNCHANGED <<leaves, cache, loaded, started, order, acked>>

-----------------------------------------------------------------------------
(* read_node and what insert and search do with the node *)

\* Slots first .. last - 1 of page a, over the ones already in rec.
Slots(a, rec, first, last) ==
    [i \in 0 .. MaxNodeNum - 1 |->
       IF i >= first /\ i < last THEN nodes[a].rec[i] ELSE rec[i]]

\* Slots of the page that hold the next byte of the key.
Matching(l) ==
    {i \in 0 .. node_type_to_num(l.p.type) - 1 :
        l.buf.rec[i] # Null /\ l.buf.rec[i].partial = get_partial(l.key, l.depth)}
VisitSlot(l, i) == Visit(l, <<l.p.addr, i>>, l.buf.rec[i], l.depth + 1, FALSE)

\* The next slot that was seen empty, or those behind the page's type.
NextEmpty(l, first) ==
    LET E == {i \in first .. node_type_to_num(l.p.type) - 1 : l.buf.rec[i] = Null} IN
    IF E # {} THEN [l EXCEPT !.pc = "empty", !.slot = Min(E)]
    ELSE [l EXCEPT !.pc = "behind", !.slot = node_type_to_num(l.p.type)]

\* 3.2 Compare the header; 3.3 the entry for the next byte, if there is one.
BelowHeader(l) == [l EXCEPT !.depth = l.buf.hdr.depth + Len(l.buf.hdr.partial)]

InsertBelow(l) ==
    LET m == BelowHeader(l) IN
    CASE HeaderDiff(l.buf.hdr, l.key) # {} -> [l EXCEPT !.pc = "split_header"]
      [] HeaderDiff(l.buf.hdr, l.key) = {} /\ Matching(m) # {} -> VisitSlot(m, Min(Matching(m)))
      [] OTHER -> NextEmpty(m, 0)

SearchBelow(l) ==
    LET m == BelowHeader(l) IN
    IF HeaderDiff(l.buf.hdr, l.key) = {} /\ Matching(m) # {}
    THEN VisitSlot(m, Min(Matching(m))) ELSE Finish(l, FALSE, 0)

NodeValid(l) == l.buf.hdr.depth <= l.depth /\ (~l.cached \/ l.buf.rev = l.ptr)

\* What is done with the page in l.buf.  Invalid: re-read the entry.  Valid:
\* cache the page and go on below it.
NodeRead(c, l) ==
    LET hdr == l.buf.hdr
        old == IF l.correct THEN cache[c] ELSE Invalidated(c, l)
    IN
    \/ /\ ~NodeValid(l)
       /\ Set(c, [l EXCEPT !.pc = "reread", !.hit = NoHit])
       /\ cache' = [cache EXCEPT ![c] = Invalidated(c, l)]
    \/ /\ NodeValid(l)
       /\ cache' = [cache EXCEPT ![c] =
            IF l.depth = hdr.depth THEN add_to_cache(old, l.key, l.p.addr, hdr, l.buf.rec)
            ELSE old]
       /\ Set(c, IF Inserting(l) THEN InsertBelow(l) ELSE SearchBelow(l))

\* With all slots read, the reverse pointer is corrected if p did not come
\* from the cache.
SlotsRead(c, l) ==
    \/ /\ ~l.cached /\ l.buf.rev # l.ptr
       /\ Set(c, [l EXCEPT !.pc = "node_rev"])
       /\ UNCHANGED cache
    \/ /\ l.cached \/ l.buf.rev = l.ptr
       /\ NodeRead(c, l)

\* Read as many slots as the type in the entry promises.
ReadNode(c) ==
    LET l == cl[c]
        page == nodes[l.p.addr]
        none == [i \in 0 .. MaxNodeNum - 1 |-> Null]
        m == [l EXCEPT !.buf = [page EXCEPT !.rec =
                          Slots(l.p.addr, none, 0, node_type_to_num(l.p.type))],
                       !.correct = page.hdr.type = l.p.type,
                       !.p.type = page.hdr.type,
                       !.slot = node_type_to_num(l.p.type)]
    IN
    /\ l.pc = "node"
    /\ \/ /\ page.hdr.type > l.p.type
          /\ Set(c, [m EXCEPT !.pc = "node_rest"])
          /\ UNCHANGED cache
       \/ /\ page.hdr.type <= l.p.type
          /\ SlotsRead(c, m)
    /\ UNCHANGED <<nodes, leaves, loaded, started, order, acked>>

\* The header has a larger type: read the remaining slots.
ReadNodeRest(c) ==
    LET l == cl[c] IN
    /\ l.pc = "node_rest"
    /\ SlotsRead(c, [l EXCEPT !.buf.rec = Slots(l.p.addr, @, l.slot, node_type_to_num(l.p.type))])
    /\ UNCHANGED <<nodes, leaves, loaded, started, order, acked>>

FixNodeRev(c) ==
    LET l == cl[c] IN
    /\ l.pc = "node_rev"
    /\ nodes' = [nodes EXCEPT ![l.p.addr].rev = IF @ = l.buf.rev THEN l.ptr ELSE @]
    /\ NodeRead(c, l)
    /\ UNCHANGED <<leaves, loaded, started, order, acked>>

\* Mutant: whoever took the slot is assumed to have another byte.
SlotTakenByOther(c, l, otherwise) ==
    /\ EntryAt(<<l.p.addr, l.slot>>) # Null
    /\ Set(c, otherwise)
    /\ UNCHANGED <<nodes, leaves, order>>

\* What a failed CAS on a slot shows: the same byte (go down) or another one.
SlotTaken(c, l, otherwise) ==
    LET ptr == <<l.p.addr, l.slot>>
        e == EntryAt(ptr)
    IN
    /\ e # Null
    /\ Set(c, IF e.partial = get_partial(l.key, l.depth)
              THEN Visit(l, ptr, e, l.depth + 1, FALSE) ELSE otherwise)
    /\ UNCHANGED <<nodes, leaves, order>>

CasEmpty(c) ==
    LET l == cl[c] IN
    /\ l.pc = "empty"
    /\ \/ LinkLeaf(c, l, <<l.p.addr, l.slot>>, get_partial(l.key, l.depth), Finish(l, TRUE, 0))
       \/ SlotTaken(c, l, NextEmpty(l, l.slot + 1))
    /\ UNCHANGED <<cache, loaded, started, acked>>

\* 3.4 insert_behind: the node is full, use a slot its type does not cover.
InsertBehind(c) ==
    LET l == cl[c] IN
    /\ l.pc = "behind"
    /\ \/ LinkLeaf(c, l, <<l.p.addr, l.slot>>, get_partial(l.key, l.depth),
                   [l EXCEPT !.pc = "switch_entry", !.node = l.p.addr])
       \/ SlotTaken(c, l, [l EXCEPT !.slot = @ + 1])
    /\ UNCHANGED <<cache, loaded, started, acked>>

-----------------------------------------------------------------------------
(* cas_node_type: the entry at ptr and the header of page l.node get the    *)
(* type that covers slot l.slot; both are tried, and what failed is tried   *)
(* again with the values the CAS returned.                                  *)

NextType(l) == num_to_node_type(l.slot)

\* Mutant: an entry that moved below a split is not looked for.
SwitchCheckHere(c, l) ==
    LET inner == l.p # Null /\ ~l.p.leaf
        sw1 == l.sw1 \/ ~inner \/ l.p.addr # l.node \/ l.p.type >= NextType(l)
        pc == CASE ~sw1 -> "switch_entry"
                [] sw1 /\ ~l.sw2 -> "switch_header"
                [] OTHER -> "return"
    IN
    /\ Set(c, IF pc = "return" THEN Finish(l, TRUE, l.pos)
              ELSE [l EXCEPT !.pc = pc, !.sw1 = sw1])
    /\ cache' = [cache EXCEPT ![c] = IF pc = "return" THEN Invalidated(c, l) ELSE @]

\* What is left to do; an insert that came from the cache drops its snapshot.
SwitchCheck(c, l) ==
    LET inner == l.p # Null /\ ~l.p.leaf
        away == ~l.sw1 /\ inner /\ l.p.addr # l.node
        sw1 == ~away /\ (l.sw1 \/ ~inner \/ l.p.type >= NextType(l))
        pc == CASE away -> "switch_down"
                [] ~away /\ ~sw1 -> "switch_entry"
                [] ~away /\ sw1 /\ ~l.sw2 -> "switch_header"
                [] OTHER -> "return"
    IN
    /\ Set(c, IF pc = "return" THEN Finish(l, TRUE, l.pos)
              ELSE [l EXCEPT !.pc = pc, !.sw1 = sw1])
    /\ cache' = [cache EXCEPT ![c] = IF pc = "return" THEN Invalidated(c, l) ELSE @]

\* Mutant: a failed CAS is repeated with the entry it failed with.
SwitchEntrySame(c) ==
    LET l == cl[c]
        e == EntryAt(l.ptr)
        m == [l EXCEPT !.sw1 = e = l.p]
    IN
    /\ l.pc = "switch_entry"
    /\ nodes' = [nodes EXCEPT ![l.ptr[1]].rec[l.ptr[2]] =
                   IF e = l.p THEN [e EXCEPT !.type = NextType(l)] ELSE e]
    /\ \/ l.sw2 /\ SwitchCheck(c, m)
       \/ ~l.sw2 /\ Set(c, [m EXCEPT !.pc = "switch_both"]) /\ UNCHANGED cache
    /\ UNCHANGED <<leaves, loaded, started, order, acked>>

SwitchEntry(c) ==
    LET l == cl[c]
        e == EntryAt(l.ptr)
        m == [l EXCEPT !.sw1 = e = l.p, !.p = e]
    IN
    /\ l.pc = "switch_entry"
    /\ nodes' = [nodes EXCEPT ![l.ptr[1]].rec[l.ptr[2]] =
                   IF e = l.p THEN [e EXCEPT !.type = NextType(l)] ELSE e]
    /\ \/ l.sw2 /\ SwitchCheck(c, m)
       \/ ~l.sw2 /\ Set(c, [m EXCEPT !.pc = "switch_both"]) /\ UNCHANGED cache
    /\ UNCHANGED <<leaves, loaded, started, order, acked>>

\* The card compares the type alone.  So does the verdict of cas_mask_sync; that
\* of two_cas_mask_sync, when the header follows the entry, is on the whole word.
SwitchHeader(c) ==
    LET l == cl[c]
        hdr == nodes[l.node].hdr
        same == hdr.type = l.buf.hdr.type
        done == IF l.pc = "switch_both" THEN hdr = l.buf.hdr ELSE same
    IN
    /\ l.pc \in {"switch_both", "switch_header"}
    /\ nodes' = [nodes EXCEPT ![l.node].hdr.type = IF same THEN NextType(l) ELSE @]
    /\ SwitchCheck(c, [l EXCEPT !.sw2 = done \/ hdr.type >= NextType(l), !.buf.hdr = hdr])
    /\ UNCHANGED <<leaves, loaded, started, order, acked>>

\* After a split the entry of the page is in slot 0 of a new page below ptr.
SwitchFindTarget(c) ==
    LET l == cl[c]
        ptr == <<l.p.addr, 0>>
    IN
    /\ l.pc = "switch_down"
    /\ SwitchCheck(c, [l EXCEPT !.ptr = ptr, !.p = EntryAt(ptr)])
    /\ UNCHANGED <<nodes, leaves, loaded, started, order, acked>>

-----------------------------------------------------------------------------
Step(c) ==
    \/ Return(c) \/ CasNull(c)
    \/ ReadLeaf(c) \/ FixLeafRev(c) \/ Reread(c)
    \/ LockLeaf(c) \/ WriteLeafHead(c) \/ WriteLeafRest(c)
    \/ SplitLeaf(c) \/ SplitHeader(c) \/ FixChildRev(c) \/ CasHeader(c)
    \/ ReadNode(c) \/ ReadNodeRest(c) \/ FixNodeRev(c)
    \/ CasEmpty(c) \/ InsertBehind(c)
    \/ SwitchEntry(c) \/ SwitchHeader(c) \/ SwitchFindTarget(c)

Finished ==
    /\ LoadDone
    /\ \A c \in Clients : cl[c].pc = "idle"
    /\ UNCHANGED vars

Next ==
    \/ \E c \in Clients : Load(c) \/ Step(c)
    \/ \E c \in Clients, k \in InsertKeys : Insert(c, k)
    \/ \E c \in Clients, k \in SearchKeys : Search(c, k)
    \/ Finished

Spec == Init /\ [][Next]_vars

\* Every client keeps running: its thread is not stopped, its verbs complete,
\* and the master polls its coroutine.
Fairness == \A c \in Clients : WF_vars(Load(c) \/ Step(c))
LiveSpec == Spec /\ Fairness

-----------------------------------------------------------------------------
(* Properties *)

EntryPtrs == (1 .. Len(nodes)) \X (0 .. MaxNodeNum - 1)
EntrySet ==
    [partial : Nat, leaf : BOOLEAN, type : 0 .. Len(NodeNum),
     addr : 0 .. Max({Len(nodes), Len(leaves)})]

\* Pages, leaves and entries have the shape Node.h gives them.
TypeOK ==
    /\ \A n \in DOMAIN nodes :
         /\ nodes[n].rev \in EntryPtrs
         /\ nodes[n].hdr.type \in 1 .. Len(NodeNum)
         /\ nodes[n].hdr.depth \in 0 .. keyLen
         /\ Len(nodes[n].hdr.partial) <= hPartialLenMax
         /\ Range(nodes[n].rec) \subseteq EntrySet
    /\ \A a \in DOMAIN leaves : leaves[a].rev \in EntryPtrs /\ leaves[a].key \in Keys

\* A page is filled from slot 0 up, and a byte leads to at most one entry
\* (CASes on empty slots, insert_behind): no key gets two places.
SlotsAreASet ==
    \A n \in DOMAIN nodes : \A j \in 0 .. MaxNodeNum - 1 :
        nodes[n].rec[j] # Null => \A i \in 0 .. j - 1 :
            /\ nodes[n].rec[i] # Null
            /\ nodes[n].rec[i].partial # nodes[n].rec[j].partial

\* What search(k) finds in the memory as it is now, in one go: the leaf
\* reached by k, or 0.  Num gives the slots read in a page with header hdr.
Lookup(k, Num(_)) ==
    LET Below(n) ==
          LET page == nodes[n.addr]
              hdr == page.hdr
              M == {i \in 0 .. Num(hdr) - 1 :
                      /\ page.rec[i] # Null
                      /\ page.rec[i].partial = get_partial(k, hdr.depth + Len(hdr.partial))}
          IN IF HeaderDiff(hdr, k) # {} \/ M = {} THEN Null ELSE page.rec[Min(M)]
        Down(n, i) == IF n = Null \/ n.leaf THEN n ELSE Below(n)
        e == FoldLeftDomain(Down, EntryAt(RootPtr), k)
    IN IF e.leaf /\ leaves[e.addr].key = k THEN e.addr ELSE 0

\* A key whose insert has returned is reachable from the root at every later
\* moment, through splits of leaves and headers in progress.
InsertedKeysReachable ==
    \A k \in Keys : acked[k] > 0 => Lookup(k, LAMBDA hdr : node_type_to_num(hdr.type)) # 0

\* No split or switch ever takes a key away: it stays reachable if the pages
\* are read to their last slot, whatever their types say.
InsertedKeysStay ==
    \A k \in Keys : order[k] # <<>> => Lookup(k, LAMBDA hdr : MaxNodeNum) # 0

\* A search that finds its key returns a value that was not yet overwritten
\* when it started, and no older one than any search finished before it.
FoundValueIsFresh ==
    \A c \in Clients :
        cl[c].pc = "return" /\ cl[c].op = "search" /\ cl[c].found =>
            cl[c].pos > 0 /\ cl[c].pos >= cl[c].floor

\* A search started after an insert of its key returned, or after another
\* search found it, finds it.
InsertedKeysAreFound ==
    \A c \in Clients :
        cl[c].pc = "return" /\ cl[c].op = "search" /\ ~cl[c].found => cl[c].floor = 0

\* Writers of one leaf exclude each other, and the lock stays taken until the
\* value is complete, so no update is lost or mixed with another.
LeafLockExcludes ==
    \A c \in Clients : cl[c].pc \in {"write", "write_rest"} =>
        /\ leaves[cl[c].p.addr].lock
        /\ \A d \in Clients \ {c} :
             cl[d].pc \in {"write", "write_rest"} => cl[d].p.addr # cl[c].p.addr

\* The types in a page's entry and in its header agree and cover every slot
\* in use, unless an insert is still in cas_node_type for that page.
TypesCoverSlots ==
    \A n \in DOMAIN nodes : \A i \in 0 .. MaxNodeNum - 1 :
        LET e == nodes[n].rec[i] IN
        e # Null /\ ~e.leaf =>
            \/ /\ nodes[e.addr].hdr.type = e.type
               /\ \A j \in node_type_to_num(e.type) .. MaxNodeNum - 1 :
                    nodes[e.addr].rec[j] = Null
            \/ \E c \in Clients : cl[c].node = e.addr /\ cl[c].pc # "return"

\* A slot, once taken, keeps its byte: entries are replaced below, never
\* moved or removed, so a pointer <<page, slot>> of a client stays on its path.
SlotsKeepTheirByte ==
    [][\A n \in DOMAIN nodes : \A i \in 0 .. MaxNodeNum - 1 :
         nodes[n].rec[i] # Null =>
            nodes'[n].rec[i] # Null /\ nodes'[n].rec[i].partial = nodes[n].rec[i].partial]_nodes

\* Every insert and search returns.
OperationsReturn == \A c \in Clients : []<>(cl[c].pc = "idle")
====
