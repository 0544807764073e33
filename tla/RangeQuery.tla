----------------------------- MODULE RangeQuery -----------------------------
(***************************************************************************)
(* Tree::range_query next to concurrent inserts and searches.  The scan    *)
(* runs on one client, the Scanner, which does nothing else meanwhile.     *)
(* It collects entries from the index cache or, when the cache has none,   *)
(* descends to the entry all keys of the range share; then it reads level  *)
(* by level, one region of the doorbell batch per step, and works off what *)
(* it has read, one region per step (the re-read of an entry included).    *)
(* Bounds are inclusive: to stands for the code's to - 1.                  *)
(***************************************************************************)
EXTENDS Tree, TLC

CONSTANTS Scanner,    \* the client that scans
          Ranges,     \* the pairs <<from, to>> it may ask for
          MaxByte,    \* the largest value of a key byte (255)
          RangeMax    \* bound: range queries

VARIABLE scan         \* the locals of range_query and search_entries

rvars == <<vars, scan>>

LexLess(a, b) == \E i \in DOMAIN a : a[i] < b[i] /\ \A j \in 1 .. i - 1 : a[j] = b[j]
KeysBetween(from, to) ==
    {k \in [1 .. keyLen -> 0 .. MaxByte] : ~LexLess(k, from) /\ ~LexLess(to, k)}
MaxKey(a, b) == IF LexLess(a, b) THEN b ELSE a
MinKey(a, b) == IF LexLess(a, b) THEN a ELSE b

\* The key with the first depth bytes of k and b in all others.
Fill(k, depth, b) == [i \in 1 .. keyLen |-> IF i <= depth THEN k[i] ELSE b]
get_leftmost(k, depth) == Fill(k, depth, 0)
get_rightmost(k, depth) == Fill(k, depth, MaxByte)

\* The bytes a header and an entry below it stand for, put into k.
remake_prefix(k, hdr, e) ==
    Fill(SubSeq(k, 1, hdr.depth - 1) \o hdr.partial \o <<e.partial>> \o k,
         hdr.depth + Len(hdr.partial), 0)

ScanContext(e, ptr, depth, hit, from, to, l, r) ==
    [e |-> e, ptr |-> ptr, depth |-> depth, cached |-> hit # NoHit, hit |-> hit,
     from |-> from, to |-> to, l |-> l, r |-> r]

NoScan == [pc |-> "idle", done |-> 0]

RInit == Init /\ scan = NoScan

-----------------------------------------------------------------------------
(* range_query_on_page: the entries of a page that reach into the range.    *)

\* Mutant: both bounds are compared as the lower one is.
StateLow(state, hdr, e, k, low) ==
    LET path == hdr.partial \o <<e.partial>>
        D == {i \in DOMAIN path : path[i] # get_partial(k, hdr.depth + i - 1)}
    IN CASE state # "BORDER" \/ D = {} -> state
         [] OTHER -> IF path[Min(D)] > get_partial(k, hdr.depth + Min(D) - 1)
                     THEN "INSIDE" ELSE "OUTSIDE"

\* BORDER becomes INSIDE or OUTSIDE at the first byte where the path through
\* e differs from the bound k; low is TRUE for the lower bound.
State(state, hdr, e, k, low) ==
    LET path == hdr.partial \o <<e.partial>>
        D == {i \in DOMAIN path : path[i] # get_partial(k, hdr.depth + i - 1)}
    IN CASE state # "BORDER" \/ D = {} -> state
         [] OTHER -> IF (path[Min(D)] > get_partial(k, hdr.depth + Min(D) - 1)) = low
                     THEN "INSIDE" ELSE "OUTSIDE"

\* Mutant: an entry strictly inside the range keeps the prefix of the bound.
OnPageOldPrefix(page, addr, x) ==
    LET hdr == page.hdr
        Below(j) ==
          LET e == page.rec[j]
              l == State(x.l, hdr, e, x.from, TRUE)
              r == State(x.r, hdr, e, x.to, FALSE)
          IN IF e = Null \/ l = "OUTSIDE" \/ r = "OUTSIDE" THEN <<>>
             ELSE <<ScanContext(e, <<addr, j>>, hdr.depth + Len(hdr.partial), NoHit,
                                x.from, x.to, l, r)>>
    IN FlattenSeq([j \in 1 .. node_type_to_num(hdr.type) |-> Below(j - 1)])

range_query_on_page(page, addr, x) ==
    LET hdr == page.hdr
        Below(j) ==
          LET e == page.rec[j]
              l == State(x.l, hdr, e, x.from, TRUE)
              r == State(x.r, hdr, e, x.to, FALSE)
          IN IF e = Null \/ l = "OUTSIDE" \/ r = "OUTSIDE" THEN <<>>
             ELSE <<ScanContext(e, <<addr, j>>, hdr.depth + Len(hdr.partial), NoHit,
                                IF l = "INSIDE" THEN remake_prefix(x.from, hdr, e) ELSE x.from,
                                IF r = "INSIDE" THEN remake_prefix(x.to, hdr, e) ELSE x.to,
                                l, r)>>
    IN FlattenSeq([j \in 1 .. node_type_to_num(hdr.type) |-> Below(j - 1)])

\* It caches the page first, under the lower bound, unless its header starts
\* elsewhere than where the path to it ends.
CachedOnPage(cch, page, addr, x) ==
    IF x.depth = page.hdr.depth - 1
    THEN add_to_cache(cch, x.from, addr, page.hdr, page.rec) ELSE cch

-----------------------------------------------------------------------------
(* A level: every address not read before is read once.                     *)

Token(x) == <<x.e.leaf, x.e.addr>>

EnterLevel(s, survivors) ==
    LET Fresh(acc, x) ==
          IF Token(x) \in s.tokens \/ \E i \in DOMAIN acc : Token(acc[i]) = Token(x)
          THEN acc ELSE Append(acc, x)
        si == FoldLeft(Fresh, <<>>, survivors)
    IN IF si = <<>> THEN [s EXCEPT !.pc = "done", !.si = <<>>, !.survivors = <<>>]
       ELSE [s EXCEPT !.pc = "read", !.i = 1, !.si = si, !.survivors = <<>>,
                      !.tokens = @ \union {Token(si[i]) : i \in DOMAIN si}]

\* range_query starts.  Each key of the range is looked up in the cache; what
\* is cached and not expired is S.  If nothing is found, search_entries
\* starts at the root (its own lookup of from has just failed).
RangeQuery(from, to, S) ==
    LET hits(k) == {<<s, i>> \in S \X (0 .. MaxNodeNum - 1) : <<s, i>> \in Hits(Scanner, k)}
        deepest(k) == CHOOSE h \in hits(k) : \A g \in hits(k) : g[1].depth <= h[1].depth
        context(k) ==
          LET s == deepest(k)[1]
              j == deepest(k)[2]
              lo == IF s.rec[j].leaf THEN k ELSE get_leftmost(k, s.depth)
              hi == IF s.rec[j].leaf THEN k ELSE get_rightmost(k, s.depth)
          IN ScanContext(s.rec[j], <<s.addr, j>>, s.depth, s, MaxKey(lo, from), MinKey(hi, to),
                         IF LexLess(from, lo) THEN "INSIDE" ELSE "BORDER",
                         IF LexLess(hi, to) THEN "INSIDE" ELSE "BORDER")
        cachedKeys == SetToSortSeq({k \in KeysBetween(from, to) : hits(k) # {}}, LexLess)
        s0 == [pc |-> "descend", done |-> scan.done, from |-> from, to |-> to,
               target |-> longest_common_prefix(from, to, 0), cold |-> cachedKeys = <<>>,
               ptr |-> RootPtr, p |-> EntryAt(RootPtr), depth |-> 1,
               si |-> <<>>, survivors |-> <<>>, tokens |-> {}, i |-> 1, buf |-> <<>>,
               ret |-> <<>>, floor |-> acked]
    IN
    /\ scan.pc = "idle" /\ cl[Scanner].pc = "idle" /\ LoadDone /\ scan.done < RangeMax
    /\ scan' = IF s0.cold THEN s0
               ELSE EnterLevel(s0, [i \in DOMAIN cachedKeys |-> context(cachedKeys[i])])
    /\ UNCHANGED vars

-----------------------------------------------------------------------------
(* search_entries: go down along from to the depth where from and to part.  *)

\* read_node, all its verbs in one step: every slot the header's type covers
\* is read, and the reverse pointer is corrected.
search_entries ==
    LET s == scan
        page == nodes[s.p.addr]
        hdr == page.hdr
        diff == HeaderDiff(hdr, s.from)
        \* positions of the header that lie at the target depth
        reach == {i \in 0 .. Len(hdr.partial) - 1 :
                    hdr.depth + i + 1 = s.target /\ \A d \in diff : d > i}
        x == ScanContext(s.p, s.ptr, s.depth - 1, NoHit, s.from, s.to, "BORDER", "BORDER")
        depth == hdr.depth + Len(hdr.partial)
        M == {i \in 0 .. node_type_to_num(hdr.type) - 1 :
                page.rec[i] # Null /\ page.rec[i].partial = get_partial(s.from, depth)}
    IN
    /\ s.pc = "descend"
    /\ \/ /\ s.p = Null \/ s.p.leaf \/ s.depth = s.target
          /\ scan' = EnterLevel(s, IF s.p # Null /\ s.depth = s.target THEN <<x>> ELSE <<>>)
          /\ UNCHANGED <<nodes, cache>>
       \/ /\ s.p # Null /\ ~s.p.leaf /\ s.depth # s.target
          /\ nodes' = [nodes EXCEPT ![s.p.addr].rev = s.ptr]
          /\ \/ /\ hdr.depth > s.depth                          \* invalid
                /\ scan' = [s EXCEPT !.pc = "reread"]
                /\ UNCHANGED cache
             \/ /\ hdr.depth <= s.depth /\ reach # {}
                /\ scan' = EnterLevel(s, range_query_on_page(page, s.p.addr, x))
                /\ cache' = [cache EXCEPT ![Scanner] = CachedOnPage(@, page, s.p.addr, x)]
             \/ /\ hdr.depth <= s.depth /\ reach = {}
                /\ scan' = IF diff # {} \/ M = {} THEN EnterLevel(s, <<>>)
                           ELSE [s EXCEPT !.ptr = <<s.p.addr, Min(M)>>,
                                          !.p = page.rec[Min(M)], !.depth = depth + 1]
                /\ UNCHANGED cache
    /\ UNCHANGED <<leaves, cl, loaded, started, order, acked>>

\* Mutant: the scan goes on with the entry it had.
RereadOld ==
    /\ scan.pc = "reread"
    /\ scan' = [scan EXCEPT !.pc = "descend"]
    /\ UNCHANGED vars

RereadEntry ==
    /\ scan.pc = "reread"
    /\ scan' = [scan EXCEPT !.pc = "descend", !.p = EntryAt(scan.ptr)]
    /\ UNCHANGED vars

-----------------------------------------------------------------------------
(* The levels of range_query                                                *)

\* One region of the batch arrives in its part of range_buffer.  Of a page,
\* the slots its entry's type covers are read (all of them if the entry came
\* from the cache), over what an earlier page left there.
ReadRegion ==
    LET s == scan
        x == s.si[s.i]
        none == [j \in 0 .. MaxNodeNum - 1 |-> Null]
        old == IF s.i \in DOMAIN s.buf THEN s.buf[s.i].slots ELSE none
        num == IF x.cached THEN MaxNodeNum ELSE node_type_to_num(x.e.type)
        new == IF x.e.leaf THEN [leaf |-> leaves[x.e.addr], slots |-> old]
               ELSE [page |-> [nodes[x.e.addr] EXCEPT !.rec = Slots(x.e.addr, old, 0, num)],
                     slots |-> Slots(x.e.addr, old, 0, num)]
    IN
    /\ s.pc = "read"
    /\ scan' = [s EXCEPT !.buf = IF s.i \in DOMAIN s.buf THEN [@ EXCEPT ![s.i] = new]
                                 ELSE Append(@, new),
                         !.pc = IF s.i < Len(s.si) THEN "read" ELSE "process",
                         !.i = IF s.i < Len(s.si) THEN @ + 1 ELSE 1]
    /\ UNCHANGED vars

\* Region i is worked off; more are the entries it adds to the next level.
Processed(s, more) ==
    IF s.i < Len(s.si)
    THEN [s EXCEPT !.i = @ + 1, !.survivors = @ \o more]
    ELSE EnterLevel(s, s.survivors \o more)

InRange(s, k) == ~LexLess(k, s.from) /\ ~LexLess(s.to, k)

\* An invalid leaf or page drops its snapshot and has its entry re-read.  An
\* inconsistent leaf is put back too, but its value is stored all the same.
ProcessRegion ==
    LET s == scan
        x == s.si[s.i]
        got == s.buf[s.i]
        leaf == got.leaf
        page == got.page
        valid == IF x.e.leaf THEN ~x.cached \/ leaf.rev = x.ptr
                 ELSE page.hdr.depth <= x.depth + 1 /\ (~x.cached \/ page.rev = x.ptr)
        again == <<[x EXCEPT !.e = EntryAt(x.ptr), !.cached = FALSE]>>
        stored == IF InRange(s, leaf.key)
                  THEN [s EXCEPT !.ret = (leaf.key :> leaf.val) @@ @] ELSE s
    IN
    /\ s.pc = "process"
    /\ \/ /\ ~valid
          /\ scan' = Processed(s, again)
          /\ cache' = [cache EXCEPT ![Scanner] = IF x.cached THEN @ \ {x.hit} ELSE @]
       \/ /\ valid /\ x.e.leaf
          /\ scan' = Processed(stored, IF is_consistent(leaf) THEN <<>> ELSE <<x>>)
          /\ UNCHANGED cache
       \/ /\ valid /\ ~x.e.leaf
          /\ scan' = Processed(s, range_query_on_page(page, x.e.addr, x))
          /\ cache' = [cache EXCEPT ![Scanner] = CachedOnPage(@, page, x.e.addr, x)]
    /\ UNCHANGED <<nodes, leaves, cl, loaded, started, order, acked>>

RangeReturn ==
    /\ scan.pc = "done"
    /\ scan' = [NoScan EXCEPT !.done = scan.done + 1]
    /\ UNCHANGED vars

ScanStep == search_entries \/ RereadEntry \/ ReadRegion \/ ProcessRegion \/ RangeReturn

\* The other clients go on during a scan.
TreeStep == /\ Next /\ UNCHANGED scan
            /\ scan.pc # "idle" => cl'[Scanner] = cl[Scanner]

RNext == \/ TreeStep \/ ScanStep
         \/ \E x \in Ranges, S \in SUBSET cache[Scanner] : RangeQuery(x[1], x[2], S)

RSpec == RInit /\ [][RNext]_rvars

\* Verbs complete and threads keep running, the scanning one included.  The
\* second conjunct is WF_rvars(ScanStep): a scan step is enabled exactly while
\* a scan runs.
ScanFairness == []<>(scan.pc = "idle") \/ []<><<ScanStep>>_rvars
RFairness == /\ \A c \in Clients : WF_rvars((Load(c) \/ Step(c)) /\ UNCHANGED scan)
             /\ ScanFairness
RLiveSpec == RSpec /\ RFairness

-----------------------------------------------------------------------------
(* Properties *)

\* When its bounds differ in their first byte and no entry of the range is
\* cached, range_query returns every key of the range whose insert had
\* returned when it started, through leaf and header splits running next to
\* it; and what it returns for a key, unless the leaf was half written, is not
\* older than what the query could have found when it started.
ColdRangeIsComplete ==
    scan.pc = "done" /\ scan.cold /\ scan.target = 1 =>
        /\ \A k \in Keys : InRange(scan, k) /\ scan.floor[k] > 0 => k \in DOMAIN scan.ret
        /\ \A k \in DOMAIN scan.ret :
             scan.ret[k] # 0 => Position(k, scan.ret[k]) >= Max({1, scan.floor[k]})

\* Every value range_query returns for a key was written for that key: a leaf
\* that fails its checksum is re-read.
RangeValuesWereWritten ==
    scan.pc = "done" => \A k \in DOMAIN scan.ret : Position(k, scan.ret[k]) > 0

\* Whoever put a snapshot into the index cache (insert, search or a range
\* query, which makes up the key it files the page under), every leaf in it
\* has a key that starts with the prefix the snapshot is found by, and every
\* key the query returns is in its range: no later operation is sent to a
\* page that is not on the path of its key.
SnapshotsMatchTheirKeys ==
    /\ \A c \in Clients : \A s \in cache[c] : \A i \in DOMAIN s.rec :
         s.rec[i] # Null /\ s.rec[i].leaf => IsPrefix(s.prefix, leaves[s.rec[i].addr].key)
    /\ scan.pc = "done" => \A k \in DOMAIN scan.ret : InRange(scan, k)

\* Every range query returns, whatever splits and switches run next to it: no
\* address is read twice, so a re-read cannot go on for ever.
RangeReturns == []<>(scan.pc = "idle")
=============================================================================
