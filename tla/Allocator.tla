----------------------------- MODULE Allocator -----------------------------
(***************************************************************************)
(* Disaggregated memory is handed out in two levels.  A directory thread   *)
(* on a memory node owns a range of chunks (GlobalAllocator) and answers   *)
(* MALLOC messages (Directory::process_message).  Every application thread *)
(* has a LocalAllocator per directory, which cuts the current chunk into   *)
(* aligned blocks and reuses freed ones (DSM::alloc, DSM::free).           *)
(*                                                                         *)
(* A thread does not yield inside DSM::alloc, not even in rpc_wait, so its *)
(* coroutines share the allocators without interleaving in them: one step  *)
(* is what a thread does up to sending a message, or from receiving one.   *)
(***************************************************************************)
EXTENDS MemorySizes, Sequences, FiniteSetsExt

CONSTANTS
    Threads,         \* application threads of all compute nodes
    Origin,          \* getMyThreadID() + getMyNodeID() of each
    AllocMax         \* bound: calls of alloc

VARIABLES
    bitmap, bitmap_tail,  \* of the GlobalAllocator of each directory
    local_allocators,     \* [head, cur, free_list] per thread and directory
    target,               \* cur_target_node and cur_target_dir_id
    waiting,              \* the size a thread in rpc_wait asked for, 0 if none
    requests,             \* MALLOC messages on the way to a directory
    replies,              \* chunk addresses on the way to a thread
    live,                 \* blocks in the hands of the callers
    allocs,               \* calls of alloc so far
    exhausted             \* history: a directory has started over

vars == <<bitmap, bitmap_tail, local_allocators, target, waiting, requests,
          replies, live, allocs, exhausted>>

Dirs == (0 .. MEMORY_NODE_NUM - 1) \X (0 .. NR_DIRECTORY - 1)
Address(node, offset) == [node |-> node, offset |-> offset]
Null == Address(0, 0)
RoundUp(n) == ((n + Align - 1) \div Align) * Align
allocAlignPageSize == RoundUp(PageSize)

-----------------------------------------------------------------------------
(* GlobalAllocator *)

\* Chunk 0 of a directory is never handed out: it holds the null pointer and
\* the root pointer of the tree.
FirstChunk == 1

Start(d) == Address(d[1], d[2] * bitmap_len * kChunkSize)

\* Mutant: the end of the bitmap goes unnoticed.
AllocChunkPastEnd(d) ==
    [res |-> [Start(d) EXCEPT !.offset = @ + bitmap_tail[d] * kChunkSize],
     tail |-> bitmap_tail[d] + 1, bitmap |-> bitmap[d], full |-> FALSE]

\* alloc_chunck: the chunk at the tail.  Past the last chunk the bitmap is
\* cleared and the address returned is marked with node 2.
alloc_chunck(d) ==
    LET full == bitmap_tail[d] >= bitmap_len
        tail == IF full THEN FirstChunk ELSE bitmap_tail[d]
        bits == IF full THEN [i \in 0 .. bitmap_len - 1 |-> i = 0] ELSE bitmap[d]
        base == IF full THEN [Start(d) EXCEPT !.node = 2] ELSE Start(d)
    IN IF bits[tail]
       THEN [res |-> base, tail |-> tail, bitmap |-> bits, full |-> full]
       ELSE [res |-> [base EXCEPT !.offset = @ + tail * kChunkSize],
             tail |-> tail + 1, bitmap |-> [bits EXCEPT ![tail] = TRUE], full |-> full]

-----------------------------------------------------------------------------
(* LocalAllocator *)

Fits(a, offset, size) ==
    a.head # Null /\ offset + size <= a.head.offset + kChunkSize

\* Mutant: a block that is reused stays in the free list.
ReuseKept(list, i) == list
Reuse(list, i) == SubSeq(list, 1, i - 1) \o SubSeq(list, i + 1, Len(list))

\* malloc: from the chunk, else the first block of the free list that is large
\* enough, else a new chunk is needed.
malloc(a, size) ==
    LET offset == RoundUp(a.cur.offset)
        m == [a EXCEPT !.cur.offset = offset]
        large == {i \in DOMAIN a.free_list : a.free_list[i].size >= size}
    IN CASE Fits(a, offset, size) ->
              [addr |-> m.cur, need_chunk |-> FALSE,
               a |-> [m EXCEPT !.cur.offset = offset + size]]
         [] ~Fits(a, offset, size) /\ large # {} ->
              [addr |-> a.free_list[Min(large)].addr, need_chunk |-> FALSE,
               a |-> [m EXCEPT !.free_list = Reuse(@, Min(large))]]
         [] OTHER -> [addr |-> m.cur, need_chunk |-> TRUE, a |-> m]

set_chunck(a, addr) == [a EXCEPT !.head = addr, !.cur = addr]

-----------------------------------------------------------------------------
Init ==
    /\ bitmap = [d \in Dirs |-> [i \in 0 .. bitmap_len - 1 |-> i = 0]]
    /\ bitmap_tail = [d \in Dirs |-> FirstChunk]
    /\ local_allocators =
         [t \in Threads |-> [d \in Dirs |-> [head |-> Null, cur |-> Null, free_list |-> <<>>]]]
    /\ target = [t \in Threads |->
                   <<Origin[t] % MEMORY_NODE_NUM, Origin[t] % NR_DIRECTORY>>]
    /\ waiting = [t \in Threads |-> 0]
    /\ requests = [d \in Dirs |-> {}]
    /\ replies = [t \in Threads |-> {}]
    /\ live = {}
    /\ allocs = 0
    /\ exhausted = FALSE

\* The directory after d: those of a memory node, then the next node.
NextTarget(d) ==
    IF d[2] + 1 = NR_DIRECTORY THEN <<(d[1] + 1) % MEMORY_NODE_NUM, 0>>
    ELSE <<d[1], d[2] + 1>>

\* The block the caller gets, with the thread it belongs to.
Block(t, addr, size) == [owner |-> t, addr |-> addr, size |-> size]

\* DSM::alloc: a block at once, or a MALLOC message to the directory.
Alloc(t, size) ==
    LET d == NextTarget(target[t])
        m == malloc(local_allocators[t][d], size)
    IN
    /\ waiting[t] = 0 /\ allocs < AllocMax
    /\ allocs' = allocs + 1
    /\ target' = [target EXCEPT ![t] = d]
    /\ local_allocators' = [local_allocators EXCEPT ![t][d] = m.a]
    /\ \/ /\ ~m.need_chunk
          /\ live' = live \union {Block(t, m.addr, size)}
          /\ UNCHANGED <<waiting, requests>>
       \/ /\ m.need_chunk
          /\ requests' = [requests EXCEPT ![d] = @ \union {t}]
          /\ waiting' = [waiting EXCEPT ![t] = size]
          /\ UNCHANGED live
    /\ UNCHANGED <<bitmap, bitmap_tail, replies, exhausted>>

\* The directory takes a chunk and answers thread t with it.
Answer(d, t) ==
    LET c == alloc_chunck(d) IN
    /\ requests' = [requests EXCEPT ![d] = @ \ {t}]
    /\ bitmap' = [bitmap EXCEPT ![d] = c.bitmap]
    /\ bitmap_tail' = [bitmap_tail EXCEPT ![d] = c.tail]
    /\ replies' = [replies EXCEPT ![t] = @ \union {c.res}]
    /\ exhausted' = (exhausted \/ c.full)
    /\ UNCHANGED <<local_allocators, target, waiting, live, allocs>>

\* Directory::process_message of a MALLOC that thread t has sent.
process_message(d, t) == t \in requests[d] /\ Answer(d, t)

\* The chunk at addr is installed and malloc tried again.
Install(t, addr) ==
    LET d == target[t]
        m == malloc(set_chunck(local_allocators[t][d], addr), waiting[t])
    IN
    /\ local_allocators' = [local_allocators EXCEPT ![t][d] = m.a]
    /\ live' = live \union {Block(t, m.addr, waiting[t])}
    /\ waiting' = [waiting EXCEPT ![t] = 0]
    /\ replies' = [replies EXCEPT ![t] = @ \ {addr}]
    /\ UNCHANGED <<bitmap, bitmap_tail, target, requests, allocs, exhausted>>

\* rpc_wait returns with a chunk a directory has sent.
RpcWait(t) == \E addr \in replies[t] : Install(t, addr)

\* DSM::free: the pages of an out_of_place_write_node whose CAS failed go to
\* the first directory's list of their node.
Free(t, b) ==
    LET d == <<b.addr.node, 0>> IN
    /\ waiting[t] = 0
    /\ b \in live /\ b.owner = t /\ b.size = PageSize
    /\ d \in Dirs
    /\ live' = live \ {b}
    /\ local_allocators' = [local_allocators EXCEPT ![t][d].free_list =
                              Append(@, [addr |-> b.addr, size |-> allocAlignPageSize])]
    /\ UNCHANGED <<bitmap, bitmap_tail, target, waiting, requests, replies,
                   allocs, exhausted>>

Finished ==
    /\ allocs = AllocMax /\ \A t \in Threads : waiting[t] = 0
    /\ UNCHANGED vars

Next ==
    \/ \E t \in Threads : \/ \E size \in {LeafSize, PageSize} : Alloc(t, size)
                          \/ RpcWait(t)
                          \/ \E b \in live : Free(t, b)
    \/ \E d \in Dirs, t \in Threads : process_message(d, t)
    \/ Finished

Spec == Init /\ [][Next]_vars

-----------------------------------------------------------------------------
(* Properties *)

\* Two extents [addr, size] share a byte.
Overlap(x, y) ==
    /\ x.addr.node = y.addr.node
    /\ x.addr.offset < y.addr.offset + y.size
    /\ y.addr.offset < x.addr.offset + x.size

\* Until a directory runs out of chunks, no byte belongs to two blocks, of one
\* thread or of two: not of a chunk handed out twice, not across the end of a
\* chunk, and not of a block that is both free and in use (sizes requested and
\* sizes freed differ by the alignment).
BlocksAreDisjoint ==
    ~exhausted =>
        /\ \A x, y \in live : x # y => ~Overlap(x, y)
        /\ \A t, u \in Threads, d, e \in Dirs :
             \A i \in DOMAIN local_allocators[t][d].free_list,
                j \in DOMAIN local_allocators[u][e].free_list :
               LET x == local_allocators[t][d].free_list[i]
                   y == local_allocators[u][e].free_list[j]
               IN /\ \A z \in live : ~Overlap(x, z)
                  /\ <<t, d, i>> # <<u, e, j>> => ~Overlap(x, y)

\* Until a directory runs out of chunks, every block lies on a memory node
\* that exists, inside its directory, and outside the chunk that holds the
\* null and the root pointer.
BlocksAreInMemory ==
    ~exhausted => \A b \in live : \E d \in Dirs :
        /\ b.addr.node = d[1]
        /\ b.addr.offset >= Start(d).offset + kChunkSize
        /\ b.addr.offset + b.size <= Start(d).offset + bitmap_len * kChunkSize

\* A thread that asks a directory for a chunk gets its block, even if the
\* directory has run out of chunks.
AllocReturns == \A t \in Threads : []<>(waiting[t] = 0)
====
