--------------------------- MODULE AllocatorProofs ---------------------------
(***************************************************************************)
(* Proofs about Allocator, for any threads, directories, chunks and calls, *)
(* and any sizes and memory nodes SizeAssumption admits: until a directory *)
(* has run out of chunks, the bytes of the memory nodes are divided among  *)
(* the directories, the replies on the way, the chunks being cut, the free *)
(* lists and the callers, and no byte has two owners.                      *)
(***************************************************************************)
EXTENDS Allocator, WellFoundedInduction, TLAPS

\* Threads start their round of the directories at a natural number.
Origins == Origin \in [Threads -> Nat]

-----------------------------------------------------------------------------
(* Calls: a thread has one MALLOC outstanding, to the directory of its       *)
(* target, exactly while it waits.                                           *)

CallTypeOK ==
    /\ target \in [Threads -> Dirs]
    /\ waiting \in [Threads -> {0, LeafSize, PageSize}]
    /\ requests \in [Dirs -> SUBSET Threads]
    /\ DOMAIN replies = Threads

CallInv ==
    \A t \in Threads :
        /\ \A d \in Dirs : t \in requests[d] =>
             waiting[t] # 0 /\ d = target[t] /\ replies[t] = {}
        /\ replies[t] # {} => waiting[t] # 0
        /\ \A x, y \in replies[t] : x = y

-----------------------------------------------------------------------------
(* The parts of the memory                                                   *)

Addr == [node : Nat, offset : Nat]
Aligned(x) == \E k \in 0 .. x : x = k * Align

FreeBlocks == [addr : Addr, size : {allocAlignPageSize}]
Blocks == [owner : Threads, addr : Addr, size : {LeafSize, PageSize}]
LocalAllocator == [head : Addr, cur : Addr, free_list : Seq(FreeBlocks)]

Listed(t, d) == local_allocators[t][d].free_list
AddrsOf(list) == {list[i].addr : i \in DOMAIN list}
FreeAddrs == UNION {AddrsOf(Listed(x[1], x[2])) : x \in Threads \X Dirs}

\* An owner and the bytes from lo up to hi that are theirs.
Part(kind, of, node, lo, hi) == [kind |-> kind, of |-> of, node |-> node, lo |-> lo, hi |-> hi]

LivePart(b) ==
    Part("live", b, b.addr.node, b.addr.offset, b.addr.offset + RoundUp(b.size))
FreePart(a) ==
    Part("free", a, a.node, a.offset, a.offset + allocAlignPageSize)
\* What is left of the chunk that thread t cuts, from the next aligned address.
SpacePart(t, d) ==
    LET a == local_allocators[t][d] IN
    Part("space", <<t, d>>, a.head.node, RoundUp(a.cur.offset), a.head.offset + kChunkSize)
ReplyPart(t, a) == Part("reply", <<t, a>>, a.node, a.offset, a.offset + kChunkSize)
DirPart(d) ==
    Part("dir", d, d[1], Start(d).offset + bitmap_tail[d] * kChunkSize,
         Start(d).offset + bitmap_len * kChunkSize)

Cutting == {x \in Threads \X Dirs : local_allocators[x[1]][x[2]].head # Null}
LiveParts == {LivePart(b) : b \in live}
FreeParts == {FreePart(a) : a \in FreeAddrs}
SpaceParts == {SpacePart(x[1], x[2]) : x \in Cutting}
RepliesTo(t) == {ReplyPart(t, a) : a \in replies[t]}
ReplyParts == UNION {RepliesTo(t) : t \in Threads}
DirParts == {DirPart(d) : d \in Dirs}
Parts == LiveParts \union FreeParts \union SpaceParts \union ReplyParts \union DirParts

Apart(x, y) == x.node # y.node \/ x.hi <= y.lo \/ y.hi <= x.lo
PartsAreApart == \A x, y \in Parts : x # y => Apart(x, y)

\* A part lies in one directory, behind its first chunk.
InDirectory(x, d) ==
    /\ x.node = d[1] /\ x.lo <= x.hi
    /\ x.lo >= Start(d).offset + kChunkSize
    /\ x.hi <= Start(d).offset + bitmap_len * kChunkSize
PartsAreInMemory == \A x \in Parts : \E d \in Dirs : InDirectory(x, d)

-----------------------------------------------------------------------------
(* The allocators                                                            *)

MemoryTypeOK ==
    /\ bitmap_tail \in [Dirs -> 1 .. bitmap_len]
    /\ bitmap \in [Dirs -> [0 .. bitmap_len - 1 -> BOOLEAN]]
    /\ local_allocators \in [Threads -> [Dirs -> LocalAllocator]]
    /\ live \subseteq Blocks
    /\ \A t \in Threads : replies[t] \subseteq Addr

\* The chunks from the tail on have not been handed out.
TailInv == \A d \in Dirs : \A i \in bitmap_tail[d] .. bitmap_len - 1 : ~bitmap[d][i]

\* An allocator without a chunk has nowhere to cut, another cuts in its chunk.
CutsInChunk(a) ==
    IF a.head = Null THEN a.cur = Null
    ELSE /\ a.cur.node = a.head.node /\ Aligned(a.head.offset)
         /\ a.head.offset <= a.cur.offset /\ a.cur.offset <= a.head.offset + kChunkSize

\* Blocks and chunks are aligned, and blocks are cut in chunks.
CutInv ==
    /\ \A t \in Threads, d \in Dirs : CutsInChunk(local_allocators[t][d])
    /\ \A a \in FreeAddrs : Aligned(a.offset)
    /\ \A b \in live : Aligned(b.addr.offset)
    /\ \A t \in Threads : \A a \in replies[t] : Aligned(a.offset)

\* A block is in one free list, once.
ListedOnce ==
    \A t, u \in Threads, d, e \in Dirs :
        \A i \in DOMAIN Listed(t, d), j \in DOMAIN Listed(u, e) :
            Listed(t, d)[i].addr = Listed(u, e)[j].addr => t = u /\ d = e /\ i = j

MemoryInv ==
    MemoryTypeOK /\ TailInv /\ CutInv /\ ListedOnce /\ PartsAreApart /\ PartsAreInMemory

IInv == CallTypeOK /\ CallInv /\ (~exhausted => MemoryInv)

-----------------------------------------------------------------------------
(* Alignment                                                                 *)

\* Zenon proves the leaves that need no arithmetic; the others cite SMT.
USE Zenon

LEMMA Sizes ==
    /\ MEMORY_NODE_NUM \in Nat \ {0} /\ NR_DIRECTORY \in Nat \ {0} /\ bitmap_len \in Nat \ {0}
    /\ kChunkSize \in Nat \ {0} /\ Align \in Nat \ {0}
    /\ LeafSize \in Nat \ {0} /\ PageSize \in Nat \ {0}
    /\ LeafSize <= PageSize /\ PageSize <= kChunkSize
BY SizeAssumption

\* Multiples of a positive number are ordered as their factors are.
LEMMA Products ==
    ASSUME NEW a \in Nat \ {0}, NEW j \in Int, NEW k \in Int
    PROVE  /\ j * a \in Int
           /\ j <= k => j * a <= k * a
           /\ j < k => j * a + a <= k * a
           /\ (j + k) * a = j * a + k * a
           /\ (j - k) * a = j * a - k * a
           /\ (j + 1) * a = j * a + a
BY SMT

LEMMA RoundUpIs ==
    ASSUME NEW n \in Nat
    PROVE  \E q \in Nat : /\ RoundUp(n) = q * Align
                          /\ n <= q * Align /\ q * Align < n + Align
<1>1. PICK q : q = (n + Align - 1) \div Align
    OBVIOUS
<1>2. q \in Nat /\ q * Align <= n + Align - 1 /\ n + Align - 1 < q * Align + Align
    BY <1>1, Sizes, SMT
<1> QED
    BY <1>1, <1>2, Sizes, SMT DEF RoundUp

LEMMA AlignedIs ==
    ASSUME NEW x \in Nat
    PROVE  Aligned(x) <=> \E k \in Nat : x = k * Align
<1>1. ASSUME NEW k \in Nat, x = k * Align PROVE k \in 0 .. x
    BY <1>1, Sizes, SMT
<1> QED
    BY <1>1, SMT DEF Aligned

\* RoundUp makes an aligned number, the smallest that is not below n.
LEMMA RoundUpAligns ==
    ASSUME NEW n \in Nat
    PROVE  /\ RoundUp(n) \in Nat /\ n <= RoundUp(n) /\ Aligned(RoundUp(n))
           /\ \A x \in Nat : Aligned(x) /\ n <= x => RoundUp(n) <= x
<1>1. PICK q \in Nat : RoundUp(n) = q * Align /\ n <= q * Align /\ q * Align < n + Align
    BY RoundUpIs
<1>2. q * Align \in Nat
    BY Sizes, SMT
<1>3. Aligned(RoundUp(n))
    BY <1>1, <1>2, AlignedIs
<1>4. ASSUME NEW x \in Nat, Aligned(x), n <= x PROVE RoundUp(n) <= x
  <2>1. PICK k \in Nat : x = k * Align
      BY <1>4, AlignedIs
  <2>2. ~(k < q)
    <3>1. k < q => k * Align + Align <= q * Align
        BY Sizes, Products, SMT
    <3> QED
        BY <1>1, <1>2, <1>4, <2>1, <3>1, Sizes, SMT
  <2> QED
      BY <1>1, <2>1, <2>2, Sizes, Products, SMT
<1> QED
    BY <1>1, <1>2, <1>3, <1>4

LEMMA AlignedSums ==
    ASSUME NEW x \in Nat, NEW y \in Nat, Aligned(x), Aligned(y)
    PROVE  Aligned(x + y) /\ (x <= y => Aligned(y - x))
<1>1. PICK j \in Nat, k \in Nat : x = j * Align /\ y = k * Align
    BY AlignedIs
<1>2. Aligned(x + y)
  <2>1. x + y = (j + k) * Align
      BY <1>1, Sizes, Products, SMT
  <2> QED
      BY <2>1, AlignedIs, SMT
<1>3. ASSUME x <= y PROVE Aligned(y - x)
  <2>1. ~(k < j)
    <3>1. k < j => k * Align + Align <= j * Align
        BY Sizes, Products, SMT
    <3> QED
        BY <1>1, <1>3, <3>1, Sizes, SMT
  <2>2. y - x = (k - j) * Align /\ k - j \in Nat /\ y - x \in Nat
      BY <1>1, <1>3, <2>1, Sizes, Products, SMT
  <2> QED
      BY <2>2, AlignedIs
<1> QED
    BY <1>2, <1>3

\* An aligned number is not rounded, and can be taken out of what is.
LEMMA RoundUpFrom ==
    ASSUME NEW x \in Nat, Aligned(x), NEW n \in Nat
    PROVE  RoundUp(x) = x /\ RoundUp(x + n) = x + RoundUp(n)
<1>1. /\ RoundUp(x) \in Nat /\ x <= RoundUp(x) /\ RoundUp(x) <= x
      /\ RoundUp(n) \in Nat /\ n <= RoundUp(n) /\ Aligned(RoundUp(n))
    BY RoundUpAligns, SMT
<1>2. /\ RoundUp(x + n) \in Nat /\ x + n <= RoundUp(x + n) /\ Aligned(RoundUp(x + n))
      /\ \A y \in Nat : Aligned(y) /\ x + n <= y => RoundUp(x + n) <= y
  <2>1. x + n \in Nat
      BY SMT
  <2> QED
      BY <2>1, RoundUpAligns
<1>3. RoundUp(x + n) <= x + RoundUp(n)
    BY <1>1, <1>2, AlignedSums, SMT
<1>4. RoundUp(n) <= RoundUp(x + n) - x
  <2>1. RoundUp(x + n) - x \in Nat /\ n <= RoundUp(x + n) - x /\ x <= RoundUp(x + n)
      BY <1>2, SMT
  <2>2. Aligned(RoundUp(x + n) - x)
      BY <1>2, <2>1, AlignedSums
  <2> QED
      BY <2>1, <2>2, RoundUpAligns
<1> QED
    BY <1>1, <1>2, <1>3, <1>4, SMT

LEMMA ChunksAreAligned == Aligned(kChunkSize) /\ \A k \in Nat : Aligned(k * kChunkSize)
<1>1. PICK q \in Nat : kChunkSize = q * Align
  <2>1. kChunkSize = (kChunkSize \div Align) * Align + (kChunkSize % Align)
      BY Sizes, SMT
  <2>2. kChunkSize \div Align \in Nat
      BY Sizes, SMT
  <2>3. kChunkSize = (kChunkSize \div Align) * Align
    <3>1. kChunkSize % Align = 0
        BY SizeAssumption
    <3> QED
        BY <2>1, <2>2, <3>1, Sizes, SMT
  <2> QED
      BY <2>2, <2>3
<1>2. ASSUME NEW k \in Nat PROVE Aligned(k * kChunkSize)
  <2>1. k * (q * Align) = (k * q) * Align
      BY Sizes, SMT
  <2>2. k * q \in Nat /\ k * kChunkSize \in Nat
      BY Sizes, SMT
  <2> QED
      BY <1>1, <2>1, <2>2, AlignedIs
<1> QED
    BY <1>1, <1>2, Sizes, AlignedIs

-----------------------------------------------------------------------------
(* Parts                                                                     *)

LEMMA DirsAre ==
    ASSUME NEW d \in Dirs
    PROVE  /\ d[1] \in Nat /\ d[2] \in Nat /\ Start(d).node = d[1]
           /\ Start(d).offset \in Nat /\ Aligned(Start(d).offset)
<1>1. d[1] \in Nat /\ d[2] \in Nat /\ d[2] * bitmap_len \in Nat
    BY Sizes, SMT DEF Dirs
<1>2. Start(d).node = d[1] /\ Start(d).offset = (d[2] * bitmap_len) * kChunkSize
    BY DEF Start, Address
<1>3. PICK k \in Nat : k = d[2] * bitmap_len
    BY <1>1
<1> QED
    BY <1>1, <1>2, <1>3, Sizes, ChunksAreAligned, SMT

LEMMA FreeAddrsAre ==
    /\ \A a : a \in FreeAddrs <=>
         \E t \in Threads, d \in Dirs : \E i \in DOMAIN Listed(t, d) : a = Listed(t, d)[i].addr
    /\ \A a : a \in FreeAddrs' <=>
         \E t \in Threads, d \in Dirs : \E i \in DOMAIN Listed(t, d)' : a = Listed(t, d)'[i].addr
<1>1. \A t \in Threads, d \in Dirs : <<t, d>> \in Threads \X Dirs
    OBVIOUS
<1>2. \A x \in Threads \X Dirs : x[1] \in Threads /\ x[2] \in Dirs
    OBVIOUS
<1>3. \A a : a \in FreeAddrs <=> \E t \in Threads, d \in Dirs : a \in AddrsOf(Listed(t, d))
  <2>1. ASSUME NEW a \in FreeAddrs PROVE \E t \in Threads, d \in Dirs : a \in AddrsOf(Listed(t, d))
    <3>1. PICK x \in Threads \X Dirs : a \in AddrsOf(Listed(x[1], x[2]))
        BY <2>1 DEF FreeAddrs
    <3> QED
        BY <1>2, <3>1
  <2>2. ASSUME NEW a, NEW t \in Threads, NEW d \in Dirs, a \in AddrsOf(Listed(t, d)) PROVE a \in FreeAddrs
    <3>1. PICK x \in Threads \X Dirs : x = <<t, d>> /\ x[1] = t /\ x[2] = d
        BY <1>1
    <3> QED
        BY <2>2, <3>1 DEF FreeAddrs
  <2> QED
      BY <2>1, <2>2
<1>4. \A a : a \in FreeAddrs' <=> \E t \in Threads, d \in Dirs : a \in AddrsOf(Listed(t, d))'
  <2>1. ASSUME NEW a \in FreeAddrs' PROVE \E t \in Threads, d \in Dirs : a \in AddrsOf(Listed(t, d))'
    <3>1. PICK x \in Threads \X Dirs : a \in AddrsOf(Listed(x[1], x[2]))'
        BY <2>1 DEF FreeAddrs
    <3> QED
        BY <1>2, <3>1
  <2>2. ASSUME NEW a, NEW t \in Threads, NEW d \in Dirs, a \in AddrsOf(Listed(t, d))' PROVE a \in FreeAddrs'
    <3>1. PICK x \in Threads \X Dirs : x = <<t, d>> /\ x[1] = t /\ x[2] = d
        BY <1>1
    <3> QED
        BY <2>2, <3>1 DEF FreeAddrs
  <2> QED
      BY <2>1, <2>2
<1>5. \A a, l : a \in AddrsOf(l) <=> \E i \in DOMAIN l : a = l[i].addr
    BY DEF AddrsOf
<1>6. \A a : \A t \in Threads, d \in Dirs :
        a \in AddrsOf(Listed(t, d))' <=> \E i \in DOMAIN Listed(t, d)' : a = Listed(t, d)'[i].addr
    BY DEF AddrsOf
<1> QED
    BY <1>3, <1>4, <1>5, <1>6, SMT

LEMMA PartsAre ==
    /\ \A b \in live : LivePart(b) \in Parts
    /\ \A a \in FreeAddrs : FreePart(a) \in Parts
    /\ \A t \in Threads, d \in Dirs :
         local_allocators[t][d].head # Null => SpacePart(t, d) \in Parts
    /\ \A t \in Threads : \A a \in replies[t] : ReplyPart(t, a) \in Parts
    /\ \A d \in Dirs : DirPart(d) \in Parts
<1>1. \A t \in Threads, d \in Dirs :
        local_allocators[t][d].head # Null => <<t, d>> \in Cutting
    BY DEF Cutting
<1>2. \A b \in live : LivePart(b) \in LiveParts
    BY DEF LiveParts
<1>3. \A a \in FreeAddrs : FreePart(a) \in FreeParts
    BY DEF FreeParts
<1>4. \A t \in Threads, d \in Dirs : <<t, d>> \in Cutting => SpacePart(t, d) \in SpaceParts
    BY SMT DEF SpaceParts
<1>5. \A t \in Threads : \A a \in replies[t] : ReplyPart(t, a) \in ReplyParts
  <2>1. \A t \in Threads : \A a \in replies[t] : ReplyPart(t, a) \in RepliesTo(t)
      BY DEF RepliesTo
  <2> QED
      BY <2>1 DEF ReplyParts
<1>6. \A d \in Dirs : DirPart(d) \in DirParts
    BY DEF DirParts
<1> QED
    BY <1>1, <1>2, <1>3, <1>4, <1>5, <1>6 DEF Parts

LEMMA PartsWillBe ==
    ASSUME NEW x \in Parts'
    PROVE  \/ \E b \in live' : x = LivePart(b)
           \/ \E a \in FreeAddrs' : x = FreePart(a)
           \/ \E t \in Threads, d \in Dirs :
                local_allocators'[t][d].head # Null /\ x = SpacePart(t, d)'
           \/ \E t \in Threads : \E a \in replies'[t] : x = ReplyPart(t, a)
           \/ \E d \in Dirs : x = DirPart(d)'
<1>1. CASE x \in LiveParts'
    BY <1>1 DEF LiveParts, LivePart, Part, RoundUp
<1>2. CASE x \in FreeParts'
    BY <1>2 DEF FreeParts, FreePart, Part, allocAlignPageSize, RoundUp
<1>3. CASE x \in SpaceParts'
  <2>1. PICK y \in Cutting' : x = SpacePart(y[1], y[2])'
      BY <1>3 DEF SpaceParts
  <2>2. y[1] \in Threads /\ y[2] \in Dirs /\ local_allocators'[y[1]][y[2]].head # Null
      BY DEF Cutting, Null, Address
  <2> QED
      BY <2>1, <2>2
<1>4. CASE x \in ReplyParts'
  <2>1. PICK t \in Threads : x \in RepliesTo(t)'
      BY <1>4 DEF ReplyParts
  <2> QED
      BY <2>1 DEF RepliesTo, ReplyPart, Part
<1>5. CASE x \in DirParts'
    BY <1>5 DEF DirParts
<1> QED
    BY <1>1, <1>2, <1>3, <1>4, <1>5 DEF Parts

\* The parts have bounds.
LEMMA PartTypes ==
    ASSUME MemoryTypeOK
    PROVE  \A x \in Parts : x.lo \in Int /\ x.hi \in Int
<1>1. \A b \in live : b.addr.offset \in Nat /\ b.size \in Nat /\ RoundUp(b.size) \in Nat
    BY Sizes, RoundUpAligns DEF MemoryTypeOK, Blocks, Addr
<1>2. \A a \in FreeAddrs : a.offset \in Nat
  <2>1. \A t \in Threads, d \in Dirs : Listed(t, d) \in Seq(FreeBlocks)
      BY DEF MemoryTypeOK, LocalAllocator, Listed
  <2>2. \A t \in Threads, d \in Dirs : \A i \in DOMAIN Listed(t, d) : Listed(t, d)[i] \in FreeBlocks
      BY <2>1, SMT
  <2> QED
      BY <2>2, FreeAddrsAre, SMT DEF FreeBlocks, Addr
<1>3. \A t \in Threads, d \in Dirs : /\ local_allocators[t][d].head.offset \in Nat
                                      /\ local_allocators[t][d].cur.offset \in Nat
                                      /\ RoundUp(local_allocators[t][d].cur.offset) \in Nat
    BY RoundUpAligns DEF MemoryTypeOK, LocalAllocator, Addr
<1>4. \A t \in Threads : \A a \in replies[t] : a.offset \in Nat
    BY DEF MemoryTypeOK, Addr
<1>5. \A d \in Dirs : /\ bitmap_tail[d] \in Nat /\ Start(d).offset \in Nat
                      /\ bitmap_tail[d] * kChunkSize \in Nat /\ bitmap_len * kChunkSize \in Nat
    BY Sizes, DirsAre, SMT DEF MemoryTypeOK
<1>6. allocAlignPageSize \in Nat
    BY Sizes, RoundUpAligns DEF allocAlignPageSize
<1> DEFINE Bounded(x) == x.lo \in Int /\ x.hi \in Int
<1>7. \A x \in LiveParts : Bounded(x)
    BY <1>1, SMT DEF LiveParts, LivePart, Part
<1>8. \A x \in FreeParts : Bounded(x)
    BY <1>2, <1>6, SMT DEF FreeParts, FreePart, Part
<1>9. \A x \in SpaceParts : Bounded(x)
  <2>1. \A y \in Cutting : y[1] \in Threads /\ y[2] \in Dirs
      BY DEF Cutting
  <2>2. \A t \in Threads, d \in Dirs : Bounded(SpacePart(t, d))
      BY <1>3, Sizes, SMT DEF SpacePart, Part
  <2> QED
      BY <2>1, <2>2 DEF SpaceParts
<1>10. \A x \in ReplyParts : Bounded(x)
  <2>1. \A t \in Threads : \A x \in RepliesTo(t) : Bounded(x)
      BY <1>4, Sizes, SMT DEF RepliesTo, ReplyPart, Part
  <2> QED
      BY <2>1 DEF ReplyParts
<1>11. \A x \in DirParts : Bounded(x)
    BY <1>5, SMT DEF DirParts, DirPart, Part
<1> QED
    BY <1>7, <1>8, <1>9, <1>10, <1>11 DEF Parts

Within(x, y) == x.node = y.node /\ y.lo <= x.lo /\ x.lo <= x.hi /\ x.hi <= y.hi

\* Every step cuts one part into parts that lie in it and apart from each other.
LEMMA PartsCut ==
    ASSUME MemoryTypeOK, PartsAreApart, PartsAreInMemory,
           NEW p \in Parts, NEW N, Parts' \subseteq (Parts \ {p}) \union N,
           \A n \in N : n.lo \in Int /\ n.hi \in Int /\ Within(n, p),
           \A n, m \in N : n # m => Apart(n, m)
    PROVE  PartsAreApart' /\ PartsAreInMemory'
<1>1. \A x \in Parts : x.lo \in Int /\ x.hi \in Int
    BY PartTypes
<1>2. \A n \in N, x \in Parts \ {p} : Apart(n, x) /\ Apart(x, n)
    BY <1>1, SMT DEF PartsAreApart, Apart, Within
<1>3. ASSUME NEW x \in Parts', NEW y \in Parts', x # y PROVE Apart(x, y)
    BY <1>2, <1>3 DEF PartsAreApart
<1>4. ASSUME NEW x \in Parts' PROVE \E d \in Dirs : InDirectory(x, d)
  <2>1. CASE x \in Parts
      BY <2>1 DEF PartsAreInMemory
  <2>2. CASE x \in N
    <3>1. PICK d \in Dirs : InDirectory(p, d)
        BY DEF PartsAreInMemory
    <3>2. Start(d).offset + kChunkSize \in Int /\ Start(d).offset + bitmap_len * kChunkSize \in Int
        BY Sizes, DirsAre, SMT
    <3>3. InDirectory(x, d)
        BY <1>1, <2>2, <3>1, <3>2, SMT DEF InDirectory, Within
    <3> QED
        BY <3>3
  <2> QED
      BY <1>4, <2>1, <2>2
<1> QED
    BY <1>3, <1>4 DEF PartsAreApart, PartsAreInMemory, Apart, InDirectory, Start, Address

-----------------------------------------------------------------------------
(* malloc                                                                    *)

LEMMA ConcatIs ==
    ASSUME NEW S, NEW m \in Seq(S), NEW n \in Seq(S)
    PROVE  \A j \in 1 .. Len(m) + Len(n) :
             (m \o n)[j] = IF j <= Len(m) THEN m[j] ELSE n[j - Len(m)]
BY SMT

LEMMA ReuseIs ==
    ASSUME NEW S, NEW l \in Seq(S), NEW i \in DOMAIN l
    PROVE  /\ Reuse(l, i) \in Seq(S) /\ Len(Reuse(l, i)) = Len(l) - 1
           /\ \A j \in 1 .. Len(l) - 1 : Reuse(l, i)[j] = IF j < i THEN l[j] ELSE l[j + 1]
<1> DEFINE m == SubSeq(l, 1, i - 1)
           n == SubSeq(l, i + 1, Len(l))
<1>1. i \in 1 .. Len(l) /\ Len(l) \in Nat
    BY SMT
<1>2. m \in Seq(S) /\ Len(m) = i - 1 /\ \A j \in 1 .. i - 1 : m[j] = l[j]
    BY <1>1, SMT
<1>3. n \in Seq(S) /\ Len(n) = Len(l) - i /\ \A j \in 1 .. Len(l) - i : n[j] = l[i + j]
    BY <1>1, SMT
<1>4. Reuse(l, i) = m \o n
    BY DEF Reuse
<1> HIDE DEF m, n
<1>5. m \o n \in Seq(S) /\ Len(m \o n) = Len(l) - 1
    BY <1>1, <1>2, <1>3, SMT
<1>6. \A j \in 1 .. Len(m) + Len(n) : (m \o n)[j] = IF j <= Len(m) THEN m[j] ELSE n[j - Len(m)]
  <2>1. m \in Seq(S) /\ n \in Seq(S)
      BY <1>2, <1>3
  <2> QED
      BY <2>1, ConcatIs, Zenon
<1>7. ASSUME NEW j \in 1 .. Len(l) - 1 PROVE (m \o n)[j] = IF j < i THEN l[j] ELSE l[j + 1]
  <2>1. CASE j < i
      BY <1>1, <1>2, <1>3, <1>6, <2>1, SMT
  <2>2. CASE ~(j < i)
    <3>1. PICK k : k = j - (i - 1)
        OBVIOUS
    <3>2. k \in 1 .. Len(l) - i /\ i + k = j + 1
        BY <1>1, <2>2, <3>1, SMT
    <3>3. Len(m) = i - 1 /\ Len(n) = Len(l) - i
        BY <1>2, <1>3
    <3>4. j \in 1 .. Len(m) + Len(n) /\ ~(j <= Len(m)) /\ j - Len(m) = k
        BY <1>1, <2>2, <3>1, <3>3, SMT
    <3>5. (m \o n)[j] = n[k]
        BY <1>6, <3>4, Zenon
    <3>6. n[k] = l[j + 1]
        BY <1>3, <3>2
    <3> QED
        BY <2>2, <3>5, <3>6, Zenon
  <2> QED
      BY <2>1, <2>2
<1> QED
    BY <1>4, <1>5, <1>7

LEMMA MinIs ==
    ASSUME NEW S \in SUBSET Nat, S # {}
    PROVE  Min(S) \in S /\ \A y \in S : Min(S) <= y
<1>1. PICK R : R = {x \in Nat \X Nat : x[1] < x[2]}
    OBVIOUS
<1>2. \A x, y \in Nat : <<x, y>> \in R <=> x < y
    BY <1>1
<1>3. IsWellFoundedOn(R, Nat)
    BY <1>1, NatLessThanWellFounded DEF OpToRel
<1>4. PICK x \in S : \A y \in S : ~(<<y, x>> \in R)
    BY <1>3, WFMin
<1>5. \A y \in S : x <= y
  <2>1. \A y \in S : x \in Nat /\ y \in Nat /\ ~(y < x)
      BY <1>2, <1>4
  <2> QED
      BY <2>1, SMT
<1> QED
    BY <1>5 DEF Min

\* The allocator after malloc.
After(a, offset, list) ==
    [head |-> a.head, cur |-> Address(a.cur.node, offset), free_list |-> list]

Large(a, size) == {i \in DOMAIN a.free_list : a.free_list[i].size >= size}

LEMMA MallocCuts ==
    ASSUME NEW a \in LocalAllocator, NEW size \in {LeafSize, PageSize},
           NEW offset \in Nat, offset = RoundUp(a.cur.offset), Fits(a, offset, size)
    PROVE  malloc(a, size) = [addr |-> Address(a.cur.node, offset), need_chunk |-> FALSE,
                              a |-> After(a, offset + size, a.free_list)]
<1>1. /\ [a.cur EXCEPT !.offset = offset] = Address(a.cur.node, offset)
      /\ [a.cur EXCEPT !.offset = offset + size] = Address(a.cur.node, offset + size)
    BY SMT DEF LocalAllocator, Addr, Address
<1>2. [a EXCEPT !.cur.offset = offset] = After(a, offset, a.free_list)
    BY <1>1, SMT DEF LocalAllocator, After
<1>3. [After(a, offset, a.free_list) EXCEPT !.cur.offset = offset + size]
        = After(a, offset + size, a.free_list)
    BY SMT DEF After, Address
<1>4. malloc(a, size) =
        [addr |-> After(a, offset, a.free_list).cur, need_chunk |-> FALSE,
         a |-> After(a, offset + size, a.free_list)]
    BY <1>2, <1>3 DEF malloc
<1> QED
    BY <1>4 DEF After

LEMMA MallocReuses ==
    ASSUME NEW a \in LocalAllocator, NEW size \in {LeafSize, PageSize},
           NEW offset \in Nat, offset = RoundUp(a.cur.offset), ~Fits(a, offset, size),
           Large(a, size) # {}
    PROVE  \E i \in DOMAIN a.free_list :
             malloc(a, size) = [addr |-> a.free_list[i].addr, need_chunk |-> FALSE,
                                a |-> After(a, offset, Reuse(a.free_list, i))]
<1>1. PICK i : i = Min(Large(a, size))
    OBVIOUS
<1>2. i \in DOMAIN a.free_list
  <2>1. Large(a, size) \in SUBSET Nat
      BY SMT DEF Large, LocalAllocator
  <2> QED
      BY <1>1, <2>1, MinIs DEF Large
<1>3. [a EXCEPT !.cur.offset = offset] = After(a, offset, a.free_list)
    BY SMT DEF LocalAllocator, Addr, Address, After
<1>4. [After(a, offset, a.free_list) EXCEPT !.free_list = Reuse(a.free_list, i)]
        = After(a, offset, Reuse(a.free_list, i))
    BY SMT DEF After
<1>5. malloc(a, size) =
        [addr |-> a.free_list[i].addr, need_chunk |-> FALSE,
         a |-> After(a, offset, Reuse(a.free_list, i))]
  <2>1. After(a, offset, a.free_list).free_list = a.free_list
      BY DEF After
  <2> QED
      BY <1>1, <1>3, <1>4, <2>1 DEF malloc, Large
<1> QED
    BY <1>2, <1>5

LEMMA MallocFails ==
    ASSUME NEW a \in LocalAllocator, NEW size \in {LeafSize, PageSize},
           NEW offset \in Nat, offset = RoundUp(a.cur.offset), ~Fits(a, offset, size),
           Large(a, size) = {}
    PROVE  malloc(a, size) = [addr |-> Address(a.cur.node, offset), need_chunk |-> TRUE,
                              a |-> After(a, offset, a.free_list)]
<1>1. [a EXCEPT !.cur.offset = offset] = After(a, offset, a.free_list)
    BY SMT DEF LocalAllocator, Addr, Address, After
<1>2. malloc(a, size) = [addr |-> After(a, offset, a.free_list).cur, need_chunk |-> TRUE,
                         a |-> After(a, offset, a.free_list)]
    BY <1>1 DEF malloc, Large
<1> QED
    BY <1>2 DEF After

-----------------------------------------------------------------------------
(* Calls                                                                     *)

LEMMA NextTargetIs ==
    ASSUME NEW d \in Dirs
    PROVE  NextTarget(d) \in Dirs
<1>1. (d[1] + 1) % MEMORY_NODE_NUM \in 0 .. MEMORY_NODE_NUM - 1 /\ 0 \in 0 .. NR_DIRECTORY - 1
    BY Sizes, SMT DEF Dirs
<1>2. d[2] + 1 # NR_DIRECTORY => d[2] + 1 \in 0 .. NR_DIRECTORY - 1
    BY Sizes, SMT DEF Dirs
<1> QED
    BY <1>1, <1>2 DEF NextTarget, Dirs

LEMMA AllocCalls ==
    ASSUME CallTypeOK, CallInv, NEW t \in Threads, NEW size \in {LeafSize, PageSize},
           Alloc(t, size)
    PROVE  CallTypeOK' /\ CallInv'
<1>1. PICK d \in Dirs : d = NextTarget(target[t])
    BY NextTargetIs DEF CallTypeOK
<1>2. waiting[t] = 0 /\ target' = [target EXCEPT ![t] = d] /\ replies' = replies
    BY <1>1 DEF Alloc
<1>3. replies[t] = {} /\ \A e \in Dirs : t \notin requests[e]
    BY <1>2 DEF CallInv
<1>4. CASE waiting' = waiting /\ requests' = requests
    BY <1>2, <1>3, <1>4, SMT DEF CallTypeOK, CallInv
<1>5. CASE /\ requests' = [requests EXCEPT ![d] = @ \union {t}]
           /\ waiting' = [waiting EXCEPT ![t] = size]
  <2>1. CallTypeOK'
      BY <1>2, <1>5 DEF CallTypeOK
  <2>2. ASSUME NEW u \in Threads
        PROVE  /\ \A e \in Dirs : u \in requests'[e] =>
                    waiting'[u] # 0 /\ e = target'[u] /\ replies'[u] = {}
               /\ replies'[u] # {} => waiting'[u] # 0
               /\ \A x, y \in replies'[u] : x = y
    <3>1. CASE u = t
        BY <1>2, <1>3, <1>5, <3>1, Sizes, SMT DEF CallTypeOK, CallInv
    <3>2. CASE u # t
        BY <1>2, <1>5, <3>2, SMT DEF CallTypeOK, CallInv
    <3> QED
        BY <3>1, <3>2
  <2> QED
      BY <2>1, <2>2 DEF CallInv
<1> QED
    BY <1>1, <1>4, <1>5 DEF Alloc

LEMMA ProcessCalls ==
    ASSUME CallTypeOK, CallInv, NEW d \in Dirs, NEW t \in Threads, process_message(d, t)
    PROVE  CallTypeOK' /\ CallInv'
<1>1. PICK a : a = alloc_chunck(d).res
    OBVIOUS
<1>2. /\ t \in requests[d] /\ requests' = [requests EXCEPT ![d] = @ \ {t}]
      /\ replies' = [replies EXCEPT ![t] = @ \union {a}]
      /\ UNCHANGED <<target, waiting>>
    BY <1>1 DEF process_message, Answer
<1>3. waiting[t] # 0 /\ d = target[t] /\ replies[t] = {}
    BY <1>2 DEF CallInv
<1>4. CallTypeOK'
    BY <1>2 DEF CallTypeOK
<1>5. ASSUME NEW u \in Threads
      PROVE  /\ \A e \in Dirs : u \in requests'[e] =>
                  waiting'[u] # 0 /\ e = target'[u] /\ replies'[u] = {}
             /\ replies'[u] # {} => waiting'[u] # 0
             /\ \A x, y \in replies'[u] : x = y
  <2>1. CASE u = t
    <3>1. replies'[t] = {a} /\ \A e \in Dirs : t \notin requests'[e]
        BY <1>2, <1>3 DEF CallTypeOK, CallInv
    <3> QED
        BY <1>2, <1>3, <2>1, <3>1, SMT
  <2>2. CASE u # t
    <3>1. replies'[u] = replies[u] /\ \A e \in Dirs : u \in requests'[e] => u \in requests[e]
        BY <1>2, <2>2 DEF CallTypeOK
    <3> QED
        BY <1>2, <3>1 DEF CallInv
  <2> QED
      BY <2>1, <2>2
<1> QED
    BY <1>4, <1>5 DEF CallInv

LEMMA WaitCalls ==
    ASSUME CallTypeOK, CallInv, NEW t \in Threads, RpcWait(t)
    PROVE  CallTypeOK' /\ CallInv'
<1>1. PICK a \in replies[t] : replies' = [replies EXCEPT ![t] = @ \ {a}]
    BY DEF RpcWait, Install
<1>2. waiting' = [waiting EXCEPT ![t] = 0] /\ UNCHANGED <<target, requests>>
    BY DEF RpcWait, Install
<1>3. replies'[t] = {} /\ \A e \in Dirs : t \notin requests[e]
    BY <1>1, SMT DEF CallTypeOK, CallInv
<1>4. CallTypeOK'
    BY <1>1, <1>2 DEF CallTypeOK
<1>5. \A u \in Threads : u # t => replies'[u] = replies[u] /\ waiting'[u] = waiting[u]
    BY <1>1, <1>2 DEF CallTypeOK
<1>6. CallInv'
    BY <1>2, <1>3, <1>5, SMT DEF CallInv
<1> QED
    BY <1>4, <1>6

LEMMA CallsUnchanged ==
    ASSUME CallTypeOK, CallInv, UNCHANGED <<target, waiting, requests, replies>>
    PROVE  CallTypeOK' /\ CallInv'
BY DEF CallTypeOK, CallInv

-----------------------------------------------------------------------------
(* What a step leaves alone                                                  *)

\* All allocators but the one of thread t and directory d stay.
Keeps(t, d) ==
    \A u \in Threads, e \in Dirs :
        u # t \/ e # d => local_allocators'[u][e] = local_allocators[u][e]

LEMMA LocalSet ==
    ASSUME local_allocators \in [Threads -> [Dirs -> LocalAllocator]],
           NEW t \in Threads, NEW d \in Dirs, NEW n \in LocalAllocator,
           local_allocators' = [local_allocators EXCEPT ![t][d] = n]
    PROVE  /\ local_allocators' \in [Threads -> [Dirs -> LocalAllocator]]
           /\ local_allocators'[t][d] = n /\ Keeps(t, d)
<1>1. local_allocators' = [local_allocators EXCEPT ![t] = [local_allocators[t] EXCEPT ![d] = n]]
    OBVIOUS
<1>2. [local_allocators[t] EXCEPT ![d] = n] \in [Dirs -> LocalAllocator]
    OBVIOUS
<1> QED
    BY <1>1, <1>2, SMT DEF Keeps

LEMMA ListKept ==
    ASSUME NEW t \in Threads, NEW d \in Dirs, Keeps(t, d), Listed(t, d)' = Listed(t, d), ListedOnce
    PROVE  FreeAddrs' = FreeAddrs /\ ListedOnce'
<1>1. \A u \in Threads, e \in Dirs : Listed(u, e)' = Listed(u, e)
    BY DEF Keeps, Listed
<1>2. \A a : a \in FreeAddrs' <=> a \in FreeAddrs
    BY <1>1, FreeAddrsAre, SMT
<1>3. FreeAddrs' = FreeAddrs
    BY <1>2
<1>4. ListedOnce'
    BY <1>1, SMT DEF ListedOnce
<1> QED
    BY <1>3, <1>4

LEMMA ListReused ==
    ASSUME NEW t \in Threads, NEW d \in Dirs, Keeps(t, d), ListedOnce,
           Listed(t, d) \in Seq(FreeBlocks), NEW i \in DOMAIN Listed(t, d),
           Listed(t, d)' = Reuse(Listed(t, d), i)
    PROVE  FreeAddrs' \subseteq FreeAddrs \ {Listed(t, d)[i].addr} /\ ListedOnce'
<1> DEFINE l == Listed(t, d)
           Old(j) == IF j < i THEN j ELSE j + 1
<1>1. /\ Len(l) \in Nat /\ i \in 1 .. Len(l) /\ DOMAIN l = 1 .. Len(l)
      /\ DOMAIN Listed(t, d)' = 1 .. Len(l) - 1
      /\ \A j \in 1 .. Len(l) - 1 : Listed(t, d)'[j] = l[Old(j)]
  <2>1. Reuse(l, i) \in Seq(FreeBlocks) /\ Len(Reuse(l, i)) = Len(l) - 1
      BY ReuseIs
  <2>2. \A j \in 1 .. Len(l) - 1 : Reuse(l, i)[j] = IF j < i THEN l[j] ELSE l[j + 1]
      BY ReuseIs
  <2> QED
      BY <2>1, <2>2, SMT
<1>2. \A j \in 1 .. Len(l) - 1 : Old(j) \in DOMAIN l /\ Old(j) # i
    BY <1>1, SMT
<1>3. \A j, k \in 1 .. Len(l) - 1 : Old(j) = Old(k) => j = k
    BY <1>1, SMT
<1>4. \A u \in Threads, e \in Dirs : u # t \/ e # d => Listed(u, e)' = Listed(u, e)
    BY DEF Keeps, Listed
<1> HIDE DEF Old
<1>5. ASSUME NEW a \in FreeAddrs' PROVE a \in FreeAddrs /\ a # l[i].addr
  <2>1. PICK u \in Threads, e \in Dirs : \E j \in DOMAIN Listed(u, e)' : a = Listed(u, e)'[j].addr
      BY <1>5, FreeAddrsAre, SMT
  <2>2. PICK j \in DOMAIN Listed(u, e)' : a = Listed(u, e)'[j].addr
      BY <2>1
  <2>3. CASE u = t /\ e = d
    <3>1. a = l[Old(j)].addr /\ Old(j) \in DOMAIN l /\ Old(j) # i
        BY <1>1, <1>2, <2>2, <2>3
    <3>2. a # l[i].addr
        BY <3>1, SMT DEF ListedOnce
    <3> QED
        BY <3>1, <3>2, FreeAddrsAre
  <2>4. CASE ~(u = t /\ e = d)
    <3>1. j \in DOMAIN Listed(u, e) /\ a = Listed(u, e)[j].addr
        BY <1>4, <2>2, <2>4
    <3>2. a # l[i].addr
        BY <2>4, <3>1, SMT DEF ListedOnce
    <3> QED
        BY <3>1, <3>2, FreeAddrsAre
  <2> QED
      BY <2>3, <2>4
<1>6. ListedOnce'
  <2> SUFFICES ASSUME NEW u \in Threads, NEW w \in Threads, NEW e \in Dirs, NEW f \in Dirs,
                      NEW j \in DOMAIN Listed(u, e)', NEW k \in DOMAIN Listed(w, f)',
                      Listed(u, e)'[j].addr = Listed(w, f)'[k].addr
               PROVE  u = w /\ e = f /\ j = k
      BY DEF ListedOnce
  <2>1. CASE (u = t /\ e = d) /\ (w = t /\ f = d)
    <3>1. l[Old(j)].addr = l[Old(k)].addr
        BY <1>1, <2>1
    <3>2. Old(j) = Old(k)
        BY <1>1, <1>2, <2>1, <3>1, SMT DEF ListedOnce
    <3> QED
        BY <1>1, <1>3, <2>1, <3>2
  <2>2. CASE (u = t /\ e = d) /\ ~(w = t /\ f = d)
      BY <1>1, <1>2, <1>4, <2>2, SMT DEF ListedOnce
  <2>3. CASE ~(u = t /\ e = d) /\ (w = t /\ f = d)
      BY <1>1, <1>2, <1>4, <2>3, SMT DEF ListedOnce
  <2>4. CASE ~(u = t /\ e = d) /\ ~(w = t /\ f = d)
      BY <1>4, <2>4, SMT DEF ListedOnce
  <2> QED
      BY <2>1, <2>2, <2>3, <2>4
<1> QED
    BY <1>5, <1>6

LEMMA ListFreed ==
    ASSUME NEW t \in Threads, NEW d \in Dirs, Keeps(t, d), ListedOnce,
           Listed(t, d) \in Seq(FreeBlocks), NEW x \in FreeBlocks, x.addr \notin FreeAddrs,
           Listed(t, d)' = Append(Listed(t, d), x)
    PROVE  FreeAddrs' \subseteq FreeAddrs \union {x.addr} /\ ListedOnce'
<1> DEFINE l == Listed(t, d)
<1>1. /\ Len(l) \in Nat /\ DOMAIN l = 1 .. Len(l)
      /\ DOMAIN Listed(t, d)' = 1 .. Len(l) + 1 /\ Listed(t, d)'[Len(l) + 1] = x
      /\ \A j \in 1 .. Len(l) : Listed(t, d)'[j] = l[j]
    BY SMT
<1>2. \A j \in DOMAIN Listed(t, d)' : j \in DOMAIN l \/ j = Len(l) + 1
    BY <1>1, SMT
<1>3. \A u \in Threads, e \in Dirs : u # t \/ e # d => Listed(u, e)' = Listed(u, e)
    BY DEF Keeps, Listed
<1>4. \A u \in Threads, e \in Dirs : \A j \in DOMAIN Listed(u, e)' :
        \/ j \in DOMAIN Listed(u, e) /\ Listed(u, e)'[j] = Listed(u, e)[j]
        \/ u = t /\ e = d /\ j = Len(l) + 1 /\ Listed(u, e)'[j] = x
    BY <1>1, <1>2, <1>3
<1>5. \A u \in Threads, e \in Dirs : \A j \in DOMAIN Listed(u, e) : Listed(u, e)[j].addr # x.addr
    BY FreeAddrsAre
<1>6. FreeAddrs' \subseteq FreeAddrs \union {x.addr}
    BY <1>4, FreeAddrsAre, SMT
<1>7. ListedOnce'
    BY <1>4, <1>5, SMT DEF ListedOnce
<1> QED
    BY <1>6, <1>7

LEMMA Kinds ==
    /\ \A b : LivePart(b).kind = "live" /\ LivePart(b).of = b
    /\ \A a : FreePart(a).kind = "free" /\ FreePart(a).of = a
    /\ \A t, d : SpacePart(t, d).kind = "space" /\ SpacePart(t, d).of = <<t, d>>
    /\ \A t, a : ReplyPart(t, a).kind = "reply" /\ ReplyPart(t, a).of = <<t, a>>
    /\ \A d : DirPart(d).kind = "dir" /\ DirPart(d).of = d
BY DEF LivePart, FreePart, SpacePart, ReplyPart, DirPart, Part

\* The other allocators still cut where they did.
LEMMA SpacesKept ==
    ASSUME NEW t \in Threads, NEW d \in Dirs, Keeps(t, d)
    PROVE  \A u \in Threads, e \in Dirs : u # t \/ e # d =>
              SpacePart(u, e)' = SpacePart(u, e) /\ SpacePart(u, e) # SpacePart(t, d)
<1>1. \A u \in Threads, e \in Dirs : u # t \/ e # d => SpacePart(u, e)' = SpacePart(u, e)
    BY DEF Keeps, SpacePart, Part, RoundUp
<1> QED
    BY <1>1, Kinds, SMT

-----------------------------------------------------------------------------
(* Blocks                                                                    *)

\* A block is cut from part p, which is what is left of the thread's chunk or
\* a chunk that has just arrived; the rest of it is left of the chunk then.
LEMMA CutBlock ==
    ASSUME MemoryInv, NEW t \in Threads, NEW d \in Dirs, NEW size \in {LeafSize, PageSize},
           NEW a \in LocalAllocator, NEW offset \in Nat, NEW p \in Parts,
           a.free_list = Listed(t, d), a.head # Null, a.cur.node = a.head.node,
           Aligned(a.head.offset), a.head.offset <= a.cur.offset,
           offset = RoundUp(a.cur.offset), offset + size <= a.head.offset + kChunkSize,
           p.node = a.head.node, p.lo = offset, p.hi = a.head.offset + kChunkSize,
           p.kind \in {"space", "reply"}, p.kind = "space" => p = SpacePart(t, d),
           \A u \in Threads : replies'[u] \subseteq replies[u],
           \A u \in Threads : \A x \in replies'[u] : ReplyPart(u, x) # p,
           local_allocators' =
             [local_allocators EXCEPT ![t][d] = After(a, offset + size, a.free_list)],
           live' = live \union {Block(t, Address(a.cur.node, offset), size)},
           UNCHANGED <<bitmap, bitmap_tail>>
    PROVE  MemoryInv'
<1> DEFINE b == Block(t, Address(a.cur.node, offset), size)
           n == After(a, offset + size, a.free_list)
           end == a.head.offset + kChunkSize
<1>0. MemoryTypeOK /\ TailInv /\ CutInv /\ ListedOnce /\ PartsAreApart /\ PartsAreInMemory
    BY DEF MemoryInv
<1>1. /\ a.head.offset \in Nat /\ a.cur.offset \in Nat /\ a.cur.node \in Nat
      /\ a.head \in Addr /\ a.free_list \in Seq(FreeBlocks) /\ size \in Nat /\ end \in Nat
    BY Sizes, SMT DEF LocalAllocator, Addr
<1>2. /\ Aligned(offset) /\ Aligned(end) /\ a.cur.offset <= offset
      /\ RoundUp(size) \in Nat /\ size <= RoundUp(size)
      /\ RoundUp(offset + size) = offset + RoundUp(size)
  <2>1. Aligned(offset) /\ a.cur.offset <= offset
      BY <1>1, RoundUpAligns
  <2>2. Aligned(end)
      BY <1>1, Sizes, AlignedSums, ChunksAreAligned
  <2> QED
      BY <1>1, <2>1, <2>2, RoundUpAligns, RoundUpFrom
<1>3. offset + RoundUp(size) <= end
  <2>1. offset <= end /\ end - offset \in Nat /\ size <= end - offset
      BY <1>1, SMT
  <2>2. Aligned(end - offset)
      BY <1>1, <1>2, <2>1, AlignedSums
  <2>3. RoundUp(size) <= end - offset
      BY <1>1, <2>1, <2>2, RoundUpAligns
  <2> QED
      BY <1>1, <1>2, <2>3, SMT
<1>4. n \in LocalAllocator /\ n.head = a.head /\ n.free_list = a.free_list
      /\ n.cur.node = a.cur.node /\ n.cur.offset = offset + size
    BY <1>1, SMT DEF After, Address, LocalAllocator, Addr
<1>5. b \in Blocks /\ b.addr.node = a.cur.node /\ b.addr.offset = offset /\ b.size = size
    BY <1>1 DEF Block, Blocks, Addr, Address
<1> HIDE DEF b, n
<1>6. /\ local_allocators' \in [Threads -> [Dirs -> LocalAllocator]]
      /\ local_allocators'[t][d] = n /\ Keeps(t, d)
    BY <1>0, <1>4, LocalSet DEF MemoryTypeOK, n
<1>7. FreeAddrs' = FreeAddrs /\ ListedOnce'
  <2>1. Listed(t, d)' = Listed(t, d)
      BY <1>4, <1>6 DEF Listed
  <2> QED
      BY <1>0, <1>6, <2>1, ListKept
<1>8. /\ LivePart(b).node = p.node /\ LivePart(b).lo = offset
      /\ LivePart(b).hi = offset + RoundUp(size)
    BY <1>5 DEF LivePart, Part
<1>9. /\ SpacePart(t, d)'.node = p.node /\ SpacePart(t, d)'.lo = offset + RoundUp(size)
      /\ SpacePart(t, d)'.hi = end
    BY <1>2, <1>4, <1>6 DEF SpacePart, Part, RoundUp
<1> DEFINE N == {LivePart(b), SpacePart(t, d)'}
<1>10. Parts' \subseteq (Parts \ {p}) \union N
  <2>1. \A c \in live' : LivePart(c) \in (Parts \ {p}) \union N
      BY PartsAre, Kinds DEF b
  <2>2. \A x \in FreeAddrs' : FreePart(x) \in (Parts \ {p}) \union N
      BY <1>7, PartsAre, Kinds
  <2>3. ASSUME NEW u \in Threads, NEW e \in Dirs, local_allocators'[u][e].head # Null
        PROVE  SpacePart(u, e)' \in (Parts \ {p}) \union N
    <3>1. CASE u = t /\ e = d
        BY <3>1
    <3>2. CASE u # t \/ e # d
      <4>1. SpacePart(u, e)' = SpacePart(u, e) /\ SpacePart(u, e) # SpacePart(t, d)
          BY <1>6, <3>2, SpacesKept, SMT
      <4>2. SpacePart(u, e) \in Parts
          BY <1>6, <2>3, <3>2, PartsAre DEF Keeps
      <4>3. SpacePart(u, e) # p
          BY <4>1, Kinds, SMT
      <4> QED
          BY <4>1, <4>2, <4>3
    <3> QED
        BY <3>1, <3>2
  <2>4. \A u \in Threads : \A x \in replies'[u] : ReplyPart(u, x) \in (Parts \ {p}) \union N
      BY PartsAre
  <2>5. \A e \in Dirs : DirPart(e)' \in (Parts \ {p}) \union N
    <3>1. \A e \in Dirs : DirPart(e)' = DirPart(e)
        BY DEF DirPart, Part, Start, Address
    <3> QED
        BY <3>1, PartsAre, Kinds, SMT
  <2> QED
      BY <2>1, <2>2, <2>3, <2>4, <2>5, PartsWillBe, SMT
<1>11. PartsAreApart' /\ PartsAreInMemory'
  <2>1. \A x \in N : x.lo \in Int /\ x.hi \in Int /\ Within(x, p)
      BY <1>1, <1>2, <1>3, <1>8, <1>9, SMT DEF Within
  <2>2. \A x, y \in N : x # y => Apart(x, y)
      BY <1>1, <1>2, <1>8, <1>9, SMT DEF Apart
  <2> HIDE DEF N
  <2> QED
      BY <1>0, <1>10, <2>1, <2>2, PartsCut
<1>12. MemoryTypeOK'
    BY <1>0, <1>5, <1>6 DEF MemoryTypeOK, b
<1>13. TailInv'
    BY <1>0 DEF TailInv
<1>14. CutInv'
  <2>1. \A u \in Threads, e \in Dirs : CutsInChunk(local_allocators'[u][e])
    <3>1. CutsInChunk(n)
        BY <1>1, <1>2, <1>4, SMT DEF CutsInChunk
    <3> QED
        BY <1>0, <1>6, <3>1 DEF CutInv, Keeps
  <2>2. \A c \in live' : Aligned(c.addr.offset)
      BY <1>0, <1>2, <1>5 DEF CutInv, b
  <2>3. \A u \in Threads : \A x \in replies'[u] : Aligned(x.offset)
      BY <1>0 DEF CutInv
  <2>4. \A x \in FreeAddrs' : Aligned(x.offset)
      BY <1>0, <1>7 DEF CutInv
  <2> QED
      BY <2>1, <2>2, <2>3, <2>4 DEF CutInv, CutsInChunk, Aligned, Null, Address
<1> QED
    BY <1>7, <1>11, <1>12, <1>13, <1>14 DEF MemoryInv

\* Rounding up where to cut next stays in the chunk.
LEMMA RoundedCut ==
    ASSUME NEW a \in LocalAllocator, CutsInChunk(a), NEW list
    PROVE  CutsInChunk(After(a, RoundUp(a.cur.offset), list))
<1> DEFINE n == After(a, RoundUp(a.cur.offset), list)
<1>1. /\ n.head = a.head /\ n.cur = Address(a.cur.node, RoundUp(a.cur.offset))
      /\ n.cur.node = a.cur.node /\ n.cur.offset = RoundUp(a.cur.offset)
    BY DEF After, Address
<1>2. /\ a.cur.offset \in Nat /\ a.head.offset \in Nat /\ a.head.offset + kChunkSize \in Nat
      /\ RoundUp(a.cur.offset) \in Nat /\ a.cur.offset <= RoundUp(a.cur.offset)
  <2>1. a.cur.offset \in Nat /\ a.head.offset \in Nat
      BY DEF LocalAllocator, Addr
  <2> QED
      BY <2>1, Sizes, RoundUpAligns, SMT
<1>3. CASE a.head = Null
  <2>1. Aligned(0)
      BY Sizes, SMT DEF Aligned
  <2>2. RoundUp(0) = 0
      BY <2>1, RoundUpFrom
  <2> QED
      BY <1>1, <1>3, <2>2, SMT DEF CutsInChunk, Null, Address
<1>4. CASE a.head # Null
  <2>1. Aligned(a.head.offset + kChunkSize)
      BY <1>2, <1>4, Sizes, AlignedSums, ChunksAreAligned DEF CutsInChunk
  <2>2. RoundUp(a.cur.offset) <= a.head.offset + kChunkSize
      BY <1>2, <1>4, <2>1, RoundUpAligns DEF CutsInChunk
  <2>3. /\ n.cur.node = n.head.node /\ Aligned(n.head.offset)
        /\ n.head.offset <= n.cur.offset /\ n.cur.offset <= n.head.offset + kChunkSize
      BY <1>1, <1>2, <1>4, <2>2, SMT DEF CutsInChunk
  <2> HIDE DEF n
  <2>4. CutsInChunk(n)
      BY <1>1, <1>4, <2>3 DEF CutsInChunk
  <2> QED
      BY <2>4 DEF n
<1> QED
    BY <1>3, <1>4

\* A block of the free list becomes the caller's; it is large enough.
LEMMA ReuseBlock ==
    ASSUME MemoryInv, NEW t \in Threads, NEW d \in Dirs, NEW size \in {LeafSize, PageSize},
           NEW a, a = local_allocators[t][d], NEW i \in DOMAIN a.free_list,
           local_allocators' = [local_allocators EXCEPT ![t][d] =
             After(a, RoundUp(a.cur.offset), Reuse(a.free_list, i))],
           live' = live \union {Block(t, a.free_list[i].addr, size)},
           UNCHANGED <<bitmap, bitmap_tail, replies>>
    PROVE  MemoryInv'
<1>f. PICK f : f = a.free_list[i].addr
    OBVIOUS
<1> DEFINE b == Block(t, f, size)
           n == After(a, RoundUp(a.cur.offset), Reuse(a.free_list, i))
<1>0. MemoryTypeOK /\ TailInv /\ CutInv /\ ListedOnce /\ PartsAreApart /\ PartsAreInMemory
    BY DEF MemoryInv
<1>1. /\ a \in LocalAllocator /\ a.free_list \in Seq(FreeBlocks) /\ a.cur \in Addr
      /\ a.head \in Addr /\ a.cur.offset \in Nat /\ size \in Nat /\ CutsInChunk(a)
    BY <1>0, Sizes, SMT DEF MemoryTypeOK, LocalAllocator, Addr, CutInv
<1>2. f \in Addr /\ f.offset \in Nat
  <2>1. a.free_list[i] \in FreeBlocks
      BY <1>1, SMT
  <2> QED
      BY <1>f, <2>1 DEF FreeBlocks, Addr
<1>3. /\ RoundUp(a.cur.offset) \in Nat /\ RoundUp(RoundUp(a.cur.offset)) = RoundUp(a.cur.offset)
    BY <1>1, RoundUpAligns, RoundUpFrom
<1>4. /\ n \in LocalAllocator /\ n.head = a.head /\ n.free_list = Reuse(a.free_list, i)
      /\ n.cur.node = a.cur.node /\ n.cur.offset = RoundUp(a.cur.offset)
  <2>1. Reuse(a.free_list, i) \in Seq(FreeBlocks)
      BY <1>1, ReuseIs
  <2> QED
      BY <1>1, <1>3, <2>1 DEF After, Address, LocalAllocator, Addr
<1>5. CutsInChunk(n)
    BY <1>1, <1>4, RoundedCut DEF After
<1>6. b \in Blocks /\ b.addr = f /\ b.size = size
    BY <1>2 DEF Block, Blocks
<1> HIDE DEF b, n
<1>7. /\ local_allocators' \in [Threads -> [Dirs -> LocalAllocator]]
      /\ local_allocators'[t][d] = n /\ Keeps(t, d)
    BY <1>0, <1>4, LocalSet DEF MemoryTypeOK, n
<1>8. FreeAddrs' \subseteq FreeAddrs \ {f} /\ ListedOnce' /\ f \in FreeAddrs
  <2>1. Listed(t, d) = a.free_list /\ Listed(t, d)' = Reuse(Listed(t, d), i)
      BY <1>4, <1>7 DEF Listed
  <2>2. FreeAddrs' \subseteq FreeAddrs \ {Listed(t, d)[i].addr} /\ ListedOnce'
      BY <1>0, <1>1, <1>7, <2>1, ListReused, SMT
  <2> QED
      BY <1>f, <2>1, <2>2, FreeAddrsAre
<1> DEFINE p == FreePart(f)
           N == {LivePart(b)}
<1>9. Parts' \subseteq (Parts \ {p}) \union N
  <2>1. \A c \in live' : LivePart(c) \in (Parts \ {p}) \union N
      BY <1>f, PartsAre, Kinds DEF b
  <2>2. \A x \in FreeAddrs' : FreePart(x) \in (Parts \ {p}) \union N
      BY <1>8, PartsAre, Kinds, SMT
  <2>3. ASSUME NEW u \in Threads, NEW e \in Dirs, local_allocators'[u][e].head # Null
        PROVE  SpacePart(u, e)' \in (Parts \ {p}) \union N
    <3>1. SpacePart(u, e)' = SpacePart(u, e)
      <4>1. CASE u = t /\ e = d
          BY <1>3, <1>4, <1>7, <4>1 DEF SpacePart, Part, RoundUp
      <4>2. CASE u # t \/ e # d
          BY <1>7, <4>2, SpacesKept, SMT
      <4> QED
          BY <4>1, <4>2
    <3>2. local_allocators[u][e].head # Null
        BY <1>4, <1>7, <2>3 DEF Keeps
    <3> QED
        BY <3>1, <3>2, PartsAre, Kinds, SMT
  <2>4. \A u \in Threads : \A x \in replies'[u] : ReplyPart(u, x) \in (Parts \ {p}) \union N
      BY PartsAre, Kinds, SMT
  <2>5. \A e \in Dirs : DirPart(e)' \in (Parts \ {p}) \union N
    <3>1. \A e \in Dirs : DirPart(e)' = DirPart(e)
        BY DEF DirPart, Part, Start, Address
    <3> QED
        BY <3>1, PartsAre, Kinds, SMT
  <2> HIDE DEF p, N
  <2> QED
      BY <2>1, <2>2, <2>3, <2>4, <2>5, PartsWillBe
<1>10. PartsAreApart' /\ PartsAreInMemory'
  <2>1. RoundUp(size) \in Nat /\ RoundUp(size) <= allocAlignPageSize /\ allocAlignPageSize \in Nat
    <3>1. size <= PageSize /\ PageSize \in Nat
        BY Sizes, SMT
    <3>2. RoundUp(PageSize) \in Nat /\ PageSize <= RoundUp(PageSize) /\ Aligned(RoundUp(PageSize))
        BY <3>1, RoundUpAligns
    <3>3. size <= RoundUp(PageSize)
        BY <1>1, <3>1, <3>2, SMT
    <3> QED
        BY <1>1, <3>2, <3>3, RoundUpAligns DEF allocAlignPageSize
  <2>2. /\ LivePart(b).node = p.node /\ LivePart(b).lo = f.offset /\ p.lo = f.offset
        /\ LivePart(b).hi = f.offset + RoundUp(size) /\ p.hi = f.offset + allocAlignPageSize
      BY <1>6 DEF LivePart, FreePart, Part
  <2>3. \A x \in N : x.lo \in Int /\ x.hi \in Int /\ Within(x, p)
    <3> HIDE DEF p
    <3> QED
        BY <1>2, <2>1, <2>2, SMT DEF Within
  <2>4. p \in Parts
      BY <1>8, PartsAre
  <2>5. \A x, y \in N : x # y => Apart(x, y)
      OBVIOUS
  <2> HIDE DEF N, p
  <2> QED
      BY <1>0, <1>9, <2>3, <2>4, <2>5, PartsCut
<1>11. MemoryTypeOK' /\ TailInv'
    BY <1>0, <1>f, <1>6, <1>7 DEF MemoryTypeOK, TailInv, b
<1>12. CutInv'
  <2>1. \A u \in Threads, e \in Dirs : CutsInChunk(local_allocators'[u][e])
      BY <1>0, <1>5, <1>7 DEF CutInv, Keeps
  <2>2. \A c \in live' : Aligned(c.addr.offset)
      BY <1>0, <1>f, <1>6, <1>8 DEF CutInv, b
  <2>3. \A x \in FreeAddrs' : Aligned(x.offset)
      BY <1>0, <1>8 DEF CutInv
  <2>4. \A u \in Threads : \A x \in replies'[u] : Aligned(x.offset)
      BY <1>0 DEF CutInv
  <2> QED
      BY <2>1, <2>2, <2>3, <2>4 DEF CutInv, CutsInChunk, Aligned, Null, Address
<1> QED
    BY <1>8, <1>10, <1>11, <1>12 DEF MemoryInv

\* No block is found, and only where to cut next is rounded up.
LEMMA RoundStep ==
    ASSUME MemoryInv, NEW t \in Threads, NEW d \in Dirs,
           NEW a, a = local_allocators[t][d],
           local_allocators' = [local_allocators EXCEPT ![t][d] =
             After(a, RoundUp(a.cur.offset), a.free_list)],
           UNCHANGED <<bitmap, bitmap_tail, replies, live>>
    PROVE  MemoryInv'
<1> DEFINE n == After(a, RoundUp(a.cur.offset), a.free_list)
<1>0. MemoryTypeOK /\ TailInv /\ CutInv /\ ListedOnce /\ PartsAreApart /\ PartsAreInMemory
    BY DEF MemoryInv
<1>1. /\ a \in LocalAllocator /\ a.free_list \in Seq(FreeBlocks) /\ a.cur \in Addr
      /\ a.head \in Addr /\ a.cur.offset \in Nat /\ CutsInChunk(a)
    BY <1>0 DEF MemoryTypeOK, LocalAllocator, Addr, CutInv
<1>2. RoundUp(a.cur.offset) \in Nat /\ RoundUp(RoundUp(a.cur.offset)) = RoundUp(a.cur.offset)
    BY <1>1, RoundUpAligns, RoundUpFrom
<1>3. /\ n \in LocalAllocator /\ n.head = a.head /\ n.free_list = a.free_list
      /\ n.cur.offset = RoundUp(a.cur.offset) /\ CutsInChunk(n)
    BY <1>1, <1>2, RoundedCut DEF After, Address, LocalAllocator, Addr
<1> HIDE DEF n
<1>4. /\ local_allocators' \in [Threads -> [Dirs -> LocalAllocator]]
      /\ local_allocators'[t][d] = n /\ Keeps(t, d)
    BY <1>0, <1>3, LocalSet DEF MemoryTypeOK, n
<1>5. FreeAddrs' = FreeAddrs /\ ListedOnce'
  <2>1. Listed(t, d)' = Listed(t, d)
      BY <1>3, <1>4 DEF Listed
  <2> QED
      BY <1>0, <1>4, <2>1, ListKept
<1>6. Parts' \subseteq Parts
  <2>1. ASSUME NEW u \in Threads, NEW e \in Dirs, local_allocators'[u][e].head # Null
        PROVE  SpacePart(u, e)' \in Parts
    <3>1. SpacePart(u, e)' = SpacePart(u, e)
      <4>1. CASE u = t /\ e = d
          BY <1>2, <1>3, <1>4, <4>1 DEF SpacePart, Part, RoundUp
      <4>2. CASE u # t \/ e # d
          BY <1>4, <4>2, SpacesKept, SMT
      <4> QED
          BY <4>1, <4>2
    <3>2. local_allocators[u][e].head # Null
        BY <1>3, <1>4, <2>1 DEF Keeps
    <3> QED
        BY <3>1, <3>2, PartsAre
  <2>2. \A e \in Dirs : DirPart(e)' = DirPart(e)
      BY DEF DirPart, Part, Start, Address
  <2> QED
      BY <1>5, <2>1, <2>2, PartsAre, PartsWillBe
<1>7. PartsAreApart' /\ PartsAreInMemory'
    BY <1>0, <1>6 DEF PartsAreApart, PartsAreInMemory, Apart, InDirectory, Start, Address
<1>8. MemoryTypeOK' /\ TailInv'
    BY <1>0, <1>4 DEF MemoryTypeOK, TailInv
<1>9. CutInv'
  <2>1. \A u \in Threads, e \in Dirs : CutsInChunk(local_allocators'[u][e])
      BY <1>0, <1>3, <1>4 DEF CutInv, Keeps
  <2> QED
      BY <1>0, <1>5, <2>1 DEF CutInv, CutsInChunk, Aligned, Null, Address
<1> QED
    BY <1>5, <1>7, <1>8, <1>9 DEF MemoryInv

\* DSM::free: a caller's block goes to a free list, rounded up.
LEMMA FreeStep ==
    ASSUME MemoryInv, NEW t \in Threads, NEW b \in live, Free(t, b)
    PROVE  MemoryInv'
<1>d. PICK d \in Dirs : d = <<b.addr.node, 0>>
    BY DEF Free
<1>a. PICK a : a = local_allocators[t][d]
    OBVIOUS
<1> DEFINE x == [addr |-> b.addr, size |-> allocAlignPageSize]
           n == [a EXCEPT !.free_list = Append(a.free_list, x)]
           p == LivePart(b)
           N == {FreePart(b.addr)}
<1>0. MemoryTypeOK /\ TailInv /\ CutInv /\ ListedOnce /\ PartsAreApart /\ PartsAreInMemory
    BY DEF MemoryInv
<1>1. /\ a \in LocalAllocator /\ a.free_list \in Seq(FreeBlocks)
      /\ a.free_list = Listed(t, d) /\ CutsInChunk(a)
    BY <1>0, <1>a DEF MemoryTypeOK, LocalAllocator, Listed, CutInv
<1>2. b \in Blocks /\ b.addr \in Addr /\ b.addr.offset \in Nat /\ b.size = PageSize
    BY <1>0 DEF MemoryTypeOK, Blocks, Addr, Free
<1>3. allocAlignPageSize = RoundUp(PageSize) /\ allocAlignPageSize \in Nat \ {0}
    BY Sizes, RoundUpAligns, SMT DEF allocAlignPageSize
<1>4. x \in FreeBlocks /\ x.addr = b.addr
    BY <1>2 DEF FreeBlocks
<1>5. /\ live' = live \ {b} /\ UNCHANGED <<bitmap, bitmap_tail, replies>>
      /\ local_allocators' = [local_allocators EXCEPT ![t][d] = n]
    BY <1>d, <1>a DEF Free
<1> HIDE DEF x
<1>6. /\ n \in LocalAllocator /\ n.head = a.head /\ n.cur = a.cur
      /\ n.free_list = Append(a.free_list, x)
    BY <1>1, <1>4, SMT DEF LocalAllocator
<1> HIDE DEF n
<1>7. /\ local_allocators' \in [Threads -> [Dirs -> LocalAllocator]]
      /\ local_allocators'[t][d] = n /\ Keeps(t, d)
    BY <1>0, <1>5, <1>6, LocalSet DEF MemoryTypeOK
<1>8. /\ p.node = b.addr.node /\ p.lo = b.addr.offset
      /\ p.hi = b.addr.offset + allocAlignPageSize /\ p \in Parts
      /\ FreePart(b.addr).node = p.node /\ FreePart(b.addr).lo = p.lo
      /\ FreePart(b.addr).hi = p.hi
    BY <1>2, <1>3, PartsAre DEF LivePart, FreePart, Part
<1> HIDE DEF p
<1>9. b.addr \notin FreeAddrs
  <2>1. SUFFICES ASSUME b.addr \in FreeAddrs PROVE FALSE
      OBVIOUS
  <2>2. FreePart(b.addr) \in Parts /\ FreePart(b.addr) # p
      BY <2>1, PartsAre, Kinds DEF p
  <2>3. Apart(FreePart(b.addr), p)
      BY <1>0, <1>8, <2>2 DEF PartsAreApart
  <2> QED
      BY <1>2, <1>3, <1>8, <2>3, SMT DEF Apart
<1>10. FreeAddrs' \subseteq FreeAddrs \union {b.addr} /\ ListedOnce'
  <2>1. Listed(t, d)' = Append(Listed(t, d), x)
      BY <1>1, <1>6, <1>7 DEF Listed
  <2>2. FreeAddrs' \subseteq FreeAddrs \union {x.addr} /\ ListedOnce'
      BY <1>0, <1>1, <1>4, <1>7, <1>9, <2>1, ListFreed
  <2> QED
      BY <1>4, <2>2
<1>11. Parts' \subseteq (Parts \ {p}) \union N
  <2>1. \A c \in live' : LivePart(c) \in (Parts \ {p}) \union N
      BY <1>5, PartsAre, Kinds, SMT DEF p
  <2>2. \A y \in FreeAddrs' : FreePart(y) \in (Parts \ {p}) \union N
      BY <1>10, PartsAre, Kinds DEF p
  <2>3. ASSUME NEW u \in Threads, NEW e \in Dirs, local_allocators'[u][e].head # Null
        PROVE  SpacePart(u, e)' \in (Parts \ {p}) \union N
    <3>1. SpacePart(u, e)' = SpacePart(u, e)
      <4>1. CASE u = t /\ e = d
          BY <1>a, <1>6, <1>7, <4>1 DEF SpacePart, Part, RoundUp
      <4>2. CASE u # t \/ e # d
          BY <1>7, <4>2, SpacesKept, SMT
      <4> QED
          BY <4>1, <4>2
    <3>2. local_allocators[u][e].head # Null
      <4>1. CASE u = t /\ e = d
          BY <1>a, <1>6, <1>7, <2>3, <4>1
      <4>2. CASE u # t \/ e # d
          BY <1>7, <2>3, <4>2 DEF Keeps
      <4> QED
          BY <4>1, <4>2
    <3> QED
        BY <3>1, <3>2, PartsAre, Kinds, SMT DEF p
  <2>4. \A u \in Threads : \A y \in replies'[u] : ReplyPart(u, y) \in (Parts \ {p}) \union N
      BY <1>5, PartsAre, Kinds, SMT DEF p
  <2>5. \A e \in Dirs : DirPart(e)' \in (Parts \ {p}) \union N
    <3>1. \A e \in Dirs : DirPart(e)' = DirPart(e)
        BY <1>5 DEF DirPart, Part, Start, Address
    <3> QED
        BY <3>1, PartsAre, Kinds, SMT DEF p
  <2> HIDE DEF N
  <2> QED
      BY <2>1, <2>2, <2>3, <2>4, <2>5, PartsWillBe
<1>12. PartsAreApart' /\ PartsAreInMemory'
  <2>1. \A y \in N : y.lo \in Int /\ y.hi \in Int /\ Within(y, p)
      BY <1>2, <1>3, <1>8, SMT DEF Within
  <2>2. \A y, z \in N : y # z => Apart(y, z)
      OBVIOUS
  <2> HIDE DEF N
  <2> QED
      BY <1>0, <1>8, <1>11, <2>1, <2>2, PartsCut
<1>13. MemoryTypeOK' /\ TailInv'
    BY <1>0, <1>5, <1>7 DEF MemoryTypeOK, TailInv
<1>14. CutInv'
  <2>1. ASSUME NEW u \in Threads, NEW e \in Dirs PROVE CutsInChunk(local_allocators'[u][e])
    <3>1. CASE u = t /\ e = d
        BY <1>1, <1>6, <1>7, <3>1 DEF CutsInChunk
    <3>2. CASE u # t \/ e # d
      <4>1. local_allocators'[u][e] = local_allocators[u][e]
          BY <1>7, <3>2, Zenon DEF Keeps
      <4> QED
          BY <1>0, <4>1, Zenon DEF CutInv
    <3> QED
        BY <3>1, <3>2
  <2>2. \A y \in FreeAddrs' : Aligned(y.offset)
      BY <1>0, <1>10 DEF CutInv
  <2> QED
      BY <1>0, <1>5, <2>1, <2>2 DEF CutInv, CutsInChunk, Aligned, Null, Address
<1> QED
    BY <1>10, <1>12, <1>13, <1>14 DEF MemoryInv

-----------------------------------------------------------------------------
(* Chunks                                                                    *)

\* A part cut in two at start + size.
LEMMA CutInTwo ==
    ASSUME NEW start \in Nat, NEW size \in Nat, NEW all \in Nat, start + size <= all,
           NEW n, NEW p, NEW x, NEW y, p.node = n /\ p.lo = start /\ p.hi = all,
           x.node = n /\ x.lo = start + size /\ x.hi = all,
           y.node = n /\ y.lo = start /\ y.hi = start + size
    PROVE  /\ x.lo \in Int /\ x.hi \in Int /\ Within(x, p) /\ y.lo \in Int /\ y.hi \in Int /\ Within(y, p)
           /\ Apart(x, y) /\ Apart(y, x)
BY SMT DEF Within, Apart

LEMMA ChunkIs ==
    ASSUME MemoryTypeOK, TailInv, NEW d \in Dirs, ~alloc_chunck(d).full
    PROVE  /\ bitmap_tail[d] < bitmap_len
           /\ alloc_chunck(d).res = Address(d[1], Start(d).offset + bitmap_tail[d] * kChunkSize)
           /\ alloc_chunck(d).tail = bitmap_tail[d] + 1
           /\ alloc_chunck(d).bitmap = [bitmap[d] EXCEPT ![bitmap_tail[d]] = TRUE]
<1>1. ~(bitmap_tail[d] >= bitmap_len)
    BY DEF alloc_chunck
<1>2. bitmap_tail[d] < bitmap_len /\ bitmap_tail[d] \in bitmap_tail[d] .. bitmap_len - 1
  <2>1. PICK k \in Int : k = bitmap_tail[d]
      BY SMT DEF MemoryTypeOK
  <2>2. k < bitmap_len
      BY <1>1, <2>1, Sizes, SMT
  <2>3. k \in k .. bitmap_len - 1
      BY <2>2, Sizes, SMT
  <2> QED
      BY <2>1, <2>2, <2>3
<1>3. ~bitmap[d][bitmap_tail[d]]
    BY <1>2 DEF TailInv
<1>4. [Start(d) EXCEPT !.offset = @ + bitmap_tail[d] * kChunkSize]
        = Address(d[1], Start(d).offset + bitmap_tail[d] * kChunkSize)
    BY SMT DEF Start, Address
<1>5. alloc_chunck(d) =
        [res |-> [Start(d) EXCEPT !.offset = @ + bitmap_tail[d] * kChunkSize],
         tail |-> bitmap_tail[d] + 1,
         bitmap |-> [bitmap[d] EXCEPT ![bitmap_tail[d]] = TRUE],
         full |-> bitmap_tail[d] >= bitmap_len]
    BY <1>1, <1>3 DEF alloc_chunck
<1> QED
    BY <1>2, <1>4, <1>5, SMT

\* Directory::process_message: the first of the chunks that are left is sent.
LEMMA ProcessStep ==
    ASSUME CallTypeOK, MemoryInv, NEW d \in Dirs, NEW t \in Threads, process_message(d, t),
           ~exhausted'
    PROVE  MemoryInv'
<1>k. PICK k : k = bitmap_tail[d]
    OBVIOUS
<1>r. PICK r : r = Address(d[1], Start(d).offset + k * kChunkSize)
    OBVIOUS
<1> DEFINE p == DirPart(d)
           N == {DirPart(d)', ReplyPart(t, r)}
<1>0. MemoryTypeOK /\ TailInv /\ CutInv /\ ListedOnce /\ PartsAreApart /\ PartsAreInMemory
    BY DEF MemoryInv
<1>1. ~alloc_chunck(d).full
    BY DEF process_message, Answer
<1>2. /\ k < bitmap_len /\ bitmap_tail' = [bitmap_tail EXCEPT ![d] = k + 1]
      /\ bitmap' = [bitmap EXCEPT ![d] = [bitmap[d] EXCEPT ![k] = TRUE]]
      /\ replies' = [replies EXCEPT ![t] = @ \union {r}]
      /\ UNCHANGED <<local_allocators, live>>
    BY <1>k, <1>r, <1>0, <1>1, ChunkIs DEF process_message, Answer
<1>3. /\ k \in 1 .. bitmap_len - 1 /\ k \in Nat /\ k * kChunkSize \in Nat
      /\ (k + 1) * kChunkSize = k * kChunkSize + kChunkSize
      /\ bitmap_len * kChunkSize \in Nat /\ (k + 1) * kChunkSize <= bitmap_len * kChunkSize
  <2>1. k \in 1 .. bitmap_len - 1
      BY <1>k, <1>0, <1>2, Sizes, SMT DEF MemoryTypeOK
  <2>2. k \in Nat /\ k + 1 \in Int /\ bitmap_len \in Int /\ k + 1 <= bitmap_len
      BY <2>1, Sizes, SMT
  <2> QED
      BY <2>1, <2>2, Sizes, Products, SMT
<1>4. /\ r \in Addr /\ r.node = d[1] /\ r.offset = Start(d).offset + k * kChunkSize
      /\ Aligned(r.offset) /\ Start(d).offset \in Nat
  <2>1. r.node = d[1] /\ r.offset = Start(d).offset + k * kChunkSize
      BY <1>r DEF Address
  <2>2. Aligned(k * kChunkSize) /\ Aligned(Start(d).offset) /\ Start(d).offset \in Nat /\ d[1] \in Nat
      BY <1>3, ChunksAreAligned, DirsAre
  <2>3. Aligned(r.offset)
      BY <1>3, <2>1, <2>2, AlignedSums
  <2> QED
      BY <1>r, <1>3, <2>1, <2>2, <2>3, SMT DEF Addr, Address
<1>5. /\ p.node = d[1] /\ p.lo = Start(d).offset + k * kChunkSize
      /\ p.hi = Start(d).offset + bitmap_len * kChunkSize /\ p \in Parts
    BY <1>k, PartsAre DEF DirPart, Part
<1>6. /\ DirPart(d)'.node = d[1] /\ DirPart(d)'.hi = Start(d).offset + bitmap_len * kChunkSize
      /\ DirPart(d)'.lo = Start(d).offset + (k + 1) * kChunkSize
  <2>1. bitmap_tail'[d] = k + 1
      BY <1>0, <1>2 DEF MemoryTypeOK
  <2> QED
      BY <2>1 DEF DirPart, Part, Start, Address
<1>7. /\ ReplyPart(t, r).node = d[1] /\ ReplyPart(t, r).lo = Start(d).offset + k * kChunkSize
      /\ ReplyPart(t, r).hi = Start(d).offset + k * kChunkSize + kChunkSize
    BY <1>4 DEF ReplyPart, Part
<1> HIDE DEF p
<1>8. \A e \in Dirs : e # d => DirPart(e)' = DirPart(e) /\ DirPart(e) # p
  <2>1. \A e \in Dirs : e # d => bitmap_tail'[e] = bitmap_tail[e]
      BY <1>0, <1>2 DEF MemoryTypeOK
  <2>2. \A e \in Dirs : e # d => DirPart(e)' = DirPart(e)
      BY <2>1 DEF DirPart, Part, Start, Address
  <2> QED
      BY <2>2, Kinds, SMT DEF p
<1>9. /\ FreeAddrs' = FreeAddrs /\ ListedOnce'
      /\ \A u \in Threads, e \in Dirs : SpacePart(u, e)' = SpacePart(u, e)
  <2>1. Keeps(t, d) /\ Listed(t, d)' = Listed(t, d)
      BY <1>2 DEF Keeps, Listed
  <2>2. \A u \in Threads, e \in Dirs : SpacePart(u, e)' = SpacePart(u, e)
      BY <1>2 DEF SpacePart, Part, RoundUp
  <2> QED
      BY <1>0, <2>1, <2>2, ListKept
<1>10. \A u \in Threads : \A y \in replies'[u] : y \in replies[u] \/ (u = t /\ y = r)
    BY <1>2 DEF CallTypeOK
<1>11. Parts' \subseteq (Parts \ {p}) \union N
  <2>1. \A c \in live' : LivePart(c) \in (Parts \ {p}) \union N
      BY <1>2, PartsAre, Kinds DEF p
  <2>2. \A y \in FreeAddrs' : FreePart(y) \in (Parts \ {p}) \union N
      BY <1>9, PartsAre, Kinds DEF p
  <2>3. ASSUME NEW u \in Threads, NEW e \in Dirs, local_allocators'[u][e].head # Null
        PROVE  SpacePart(u, e)' \in (Parts \ {p}) \union N
    <3>1. SpacePart(u, e)' = SpacePart(u, e) /\ SpacePart(u, e) \in Parts
        BY <1>2, <1>9, <2>3, PartsAre
    <3>2. SpacePart(u, e) # p
        BY Kinds, SMT DEF p
    <3> QED
        BY <3>1, <3>2
  <2>4. \A u \in Threads : \A y \in replies'[u] : ReplyPart(u, y) \in (Parts \ {p}) \union N
    <3>1. ReplyPart(t, r) \in N
        OBVIOUS
    <3>2. \A u \in Threads : \A y \in replies[u] : ReplyPart(u, y) \in Parts \ {p}
        BY PartsAre, Kinds, SMT DEF p
    <3> HIDE DEF N
    <3> QED
        BY <1>10, <3>1, <3>2
  <2>5. \A e \in Dirs : DirPart(e)' \in (Parts \ {p}) \union N
      BY <1>8, PartsAre
  <2> HIDE DEF N
  <2> QED
      BY <2>1, <2>2, <2>3, <2>4, <2>5, PartsWillBe
<1>12. PartsAreApart' /\ PartsAreInMemory'
  <2>a. PICK x, y : x = DirPart(d)' /\ y = ReplyPart(t, r)
      OBVIOUS
  <2>b. PICK start, all : /\ start = Start(d).offset + k * kChunkSize
                          /\ all = Start(d).offset + bitmap_len * kChunkSize
      OBVIOUS
  <2>s. PICK size \in Nat : size = kChunkSize
      BY Sizes
  <2>f. /\ start \in Nat /\ all \in Nat
        /\ start + size = Start(d).offset + (k + 1) * kChunkSize /\ start + size <= all
    <3>1. PICK first, done, end \in Nat :
            first = Start(d).offset /\ done = k * kChunkSize /\ end = bitmap_len * kChunkSize
        BY <1>3, <1>4, Zenon
    <3>2. (k + 1) * kChunkSize = done + size /\ done + size <= end
        BY <1>3, <2>s, <3>1
    <3>3. start = first + done /\ all = first + end
        BY <2>b, <3>1
    <3> QED
        BY <3>1, <3>2, <3>3, SMT
  <2>c. /\ p.node = d[1] /\ p.lo = start /\ p.hi = all
        /\ x.node = d[1] /\ x.lo = start + size /\ x.hi = all
        /\ y.node = d[1] /\ y.lo = start /\ y.hi = start + size
      BY <1>5, <1>6, <1>7, <2>a, <2>b, <2>s, <2>f
  <2>d. /\ x.lo \in Int /\ x.hi \in Int /\ Within(x, p) /\ y.lo \in Int /\ y.hi \in Int /\ Within(y, p)
        /\ Apart(x, y) /\ Apart(y, x)
      BY <2>f, <2>c, CutInTwo, Zenon
  <2>e. N = {x, y}
      BY <2>a
  <2> HIDE DEF N
  <2>1. \A z \in N : z.lo \in Int /\ z.hi \in Int /\ Within(z, p)
      BY <2>d, <2>e
  <2>2. \A z, w \in N : z # w => Apart(z, w)
      BY <2>d, <2>e
  <2> QED
      BY <1>0, <1>5, <1>11, <2>1, <2>2, PartsCut
<1>13. MemoryTypeOK'
  <2>1. bitmap_tail' \in [Dirs -> 1 .. bitmap_len]
      BY <1>0, <1>2, <1>3, Sizes, SMT DEF MemoryTypeOK
  <2>2. bitmap' \in [Dirs -> [0 .. bitmap_len - 1 -> BOOLEAN]]
      BY <1>0, <1>2 DEF MemoryTypeOK
  <2>3. \A u \in Threads : replies'[u] \subseteq Addr
      BY <1>0, <1>4, <1>10 DEF MemoryTypeOK
  <2> QED
      BY <1>0, <1>2, <2>1, <2>2, <2>3 DEF MemoryTypeOK
<1>14. TailInv'
  <2>1. ASSUME NEW e \in Dirs, NEW i \in bitmap_tail'[e] .. bitmap_len - 1
        PROVE  ~bitmap'[e][i]
    <3>1. CASE e = d
      <4>1. i \in k + 1 .. bitmap_len - 1
          BY <1>0, <1>2, <2>1, <3>1 DEF MemoryTypeOK
      <4>2. i \in k .. bitmap_len - 1 /\ i # k /\ i \in 0 .. bitmap_len - 1
          BY <1>3, <4>1, Sizes, SMT
      <4>3. bitmap'[d][i] = bitmap[d][i]
          BY <1>0, <1>2, <4>2 DEF MemoryTypeOK
      <4> QED
          BY <1>0, <1>k, <3>1, <4>2, <4>3 DEF TailInv
    <3>2. CASE e # d
        BY <1>0, <1>2, <2>1, <3>2 DEF MemoryTypeOK, TailInv
    <3> QED
        BY <3>1, <3>2
  <2> QED
      BY <2>1 DEF TailInv
<1>15. CutInv'
  <2>1. \A u \in Threads : \A y \in replies'[u] : Aligned(y.offset)
      BY <1>0, <1>4, <1>10 DEF CutInv
  <2> QED
      BY <1>0, <1>2, <1>9, <2>1 DEF CutInv, CutsInChunk, Aligned, Null, Address
<1> QED
    BY <1>9, <1>12, <1>13, <1>14, <1>15 DEF MemoryInv

-----------------------------------------------------------------------------
(* Allocation                                                                *)

\* DSM::alloc up to the MALLOC message.
LEMMA AllocStep ==
    ASSUME CallTypeOK, MemoryInv, NEW t \in Threads, NEW size \in {LeafSize, PageSize},
           Alloc(t, size)
    PROVE  MemoryInv'
<1>d. PICK d \in Dirs : d = NextTarget(target[t])
    BY NextTargetIs DEF CallTypeOK
<1>a. PICK a : a = local_allocators[t][d]
    OBVIOUS
<1>m. PICK m : m = malloc(a, size)
    OBVIOUS
<1>o. PICK offset : offset = RoundUp(a.cur.offset)
    OBVIOUS
<1>1. /\ local_allocators' = [local_allocators EXCEPT ![t][d] = m.a]
      /\ \/ ~m.need_chunk /\ live' = live \union {Block(t, m.addr, size)}
         \/ m.need_chunk /\ live' = live
    BY <1>d, <1>a, <1>m DEF Alloc
<1>u. UNCHANGED <<bitmap, bitmap_tail, replies>>
    BY DEF Alloc
<1>2. /\ a \in LocalAllocator /\ a.cur.offset \in Nat /\ a.free_list = Listed(t, d)
      /\ CutsInChunk(a)
    BY <1>a DEF MemoryInv, MemoryTypeOK, CutInv, Listed, LocalAllocator, Addr
<1>3. offset \in Nat
    BY <1>2, <1>o, RoundUpAligns
<1>4. CASE Fits(a, offset, size)
  <2>1. m = [addr |-> Address(a.cur.node, offset), need_chunk |-> FALSE,
             a |-> After(a, offset + size, a.free_list)]
      BY <1>m, <1>o, <1>2, <1>3, <1>4, MallocCuts
  <2>2. /\ local_allocators' =
             [local_allocators EXCEPT ![t][d] = After(a, offset + size, a.free_list)]
        /\ live' = live \union {Block(t, Address(a.cur.node, offset), size)}
      BY <1>1, <2>1
  <2>3. /\ a.head # Null /\ offset + size <= a.head.offset + kChunkSize
        /\ a.cur.node = a.head.node /\ Aligned(a.head.offset) /\ a.head.offset <= a.cur.offset
      BY <1>2, <1>4 DEF Fits, CutsInChunk
  <2>4. PICK p \in Parts : p = SpacePart(t, d)
      BY <1>a, <2>3, PartsAre
  <2>5. /\ p.node = a.head.node /\ p.lo = offset /\ p.hi = a.head.offset + kChunkSize
        /\ p.kind = "space"
      BY <1>a, <1>o, <2>4 DEF SpacePart, Part
  <2>6. \A u \in Threads : \A x \in replies'[u] : ReplyPart(u, x) # p
    <3>1. \A u, x : ReplyPart(u, x).kind = "reply"
        BY Kinds, Zenon
    <3> QED
        BY <2>5, <3>1
  <2>7. \A u \in Threads : replies'[u] \subseteq replies[u]
      BY <1>u
  <2>8. p.kind \in {"space", "reply"}
      BY <2>5
  <2>9. UNCHANGED <<bitmap, bitmap_tail>>
      BY <1>u
  <2> QED
      BY <1>o, <1>2, <1>3, <2>2, <2>3, <2>4, <2>5, <2>6, <2>7, <2>8, <2>9, CutBlock
<1>5. CASE ~Fits(a, offset, size) /\ Large(a, size) # {}
  <2>1. PICK i \in DOMAIN a.free_list :
          m = [addr |-> a.free_list[i].addr, need_chunk |-> FALSE,
               a |-> After(a, offset, Reuse(a.free_list, i))]
      BY <1>m, <1>o, <1>2, <1>3, <1>5, MallocReuses
  <2>2. /\ local_allocators' = [local_allocators EXCEPT ![t][d] =
             After(a, RoundUp(a.cur.offset), Reuse(a.free_list, i))]
        /\ live' = live \union {Block(t, a.free_list[i].addr, size)}
      BY <1>o, <1>1, <2>1
  <2> QED
      BY <1>a, <1>u, <2>2, ReuseBlock
<1>6. CASE ~Fits(a, offset, size) /\ Large(a, size) = {}
  <2>1. m = [addr |-> Address(a.cur.node, offset), need_chunk |-> TRUE,
             a |-> After(a, offset, a.free_list)]
      BY <1>m, <1>o, <1>2, <1>3, <1>6, MallocFails
  <2>2. /\ local_allocators' = [local_allocators EXCEPT ![t][d] =
             After(a, RoundUp(a.cur.offset), a.free_list)]
        /\ live' = live
      BY <1>o, <1>1, <2>1
  <2> QED
      BY <1>a, <1>u, <2>2, RoundStep
<1> QED
    BY <1>4, <1>5, <1>6

\* The rest of DSM::alloc, when the chunk arrives.
LEMMA WaitStep ==
    ASSUME CallTypeOK, CallInv, MemoryInv, NEW t \in Threads, RpcWait(t)
    PROVE  MemoryInv'
<1>d. PICK d \in Dirs : d = target[t]
    BY DEF CallTypeOK
<1>s. PICK size \in {LeafSize, PageSize} : size = waiting[t]
    BY DEF CallTypeOK, CallInv, RpcWait, Install
<1>c. PICK addr \in replies[t] :
        /\ local_allocators' = [local_allocators EXCEPT ![t][d] =
             malloc(set_chunck(local_allocators[t][d], addr), size).a]
        /\ live' = live \union
             {Block(t, malloc(set_chunck(local_allocators[t][d], addr), size).addr, size)}
        /\ replies' = [replies EXCEPT ![t] = @ \ {addr}]
    BY <1>d, <1>s DEF RpcWait, Install
<1>a. PICK a : a = set_chunck(local_allocators[t][d], addr)
    OBVIOUS
<1>p. PICK p \in Parts : p = ReplyPart(t, addr)
    BY PartsAre
<1>0. UNCHANGED <<bitmap, bitmap_tail>>
    BY DEF RpcWait, Install
<1>1. addr \in Addr /\ addr.offset \in Nat /\ Aligned(addr.offset) /\ RoundUp(addr.offset) = addr.offset
  <2>1. addr \in Addr /\ addr.offset \in Nat /\ Aligned(addr.offset)
      BY DEF MemoryInv, MemoryTypeOK, Addr, CutInv
  <2> QED
      BY <2>1, RoundUpFrom
<1>2. /\ a \in LocalAllocator /\ a.head = addr /\ a.cur = addr /\ a.free_list = Listed(t, d)
  <2>1. local_allocators[t][d] \in LocalAllocator
      BY DEF MemoryInv, MemoryTypeOK
  <2> QED
      BY <1>a, <1>1, <2>1 DEF set_chunck, LocalAllocator, Listed
<1>3. /\ p.node = addr.node /\ p.lo = addr.offset /\ p.hi = addr.offset + kChunkSize
      /\ p.kind = "reply" /\ p.of = <<t, addr>>
    BY <1>p DEF ReplyPart, Part
<1>4. addr # Null
  <2>1. PICK e \in Dirs : InDirectory(p, e)
      BY DEF MemoryInv, PartsAreInMemory
  <2>2. addr.offset >= Start(e).offset + kChunkSize /\ Start(e).offset \in Nat
      BY <1>3, <2>1, DirsAre DEF InDirectory
  <2>3. addr.offset # 0
      BY <1>1, <2>2, Sizes, SMT
  <2> QED
      BY <2>3, SMT DEF Null, Address
<1>5. addr.offset + size <= addr.offset + kChunkSize
    BY <1>1, Sizes, SMT
<1>6. malloc(a, size) = [addr |-> Address(a.cur.node, addr.offset), need_chunk |-> FALSE,
                         a |-> After(a, addr.offset + size, a.free_list)]
    BY <1>1, <1>2, <1>4, <1>5, MallocCuts DEF Fits
<1>7. /\ local_allocators' =
           [local_allocators EXCEPT ![t][d] = After(a, addr.offset + size, a.free_list)]
      /\ live' = live \union {Block(t, Address(a.cur.node, addr.offset), size)}
    BY <1>a, <1>c, <1>6, SMT
<1>8. /\ \A u \in Threads : replies'[u] \subseteq replies[u]
      /\ \A u \in Threads : \A x \in replies'[u] : ReplyPart(u, x) # p
  <2>1. \A u \in Threads : \A x \in replies'[u] : x \in replies[u] /\ (u = t => x # addr)
      BY <1>c DEF CallTypeOK
  <2> QED
      BY <1>3, <2>1, Kinds, SMT
<1>9. addr.offset <= addr.offset
    BY <1>1, SMT
<1> QED
    BY <1>0, <1>1, <1>2, <1>3, <1>4, <1>5, <1>7, <1>8, <1>9, CutBlock

-----------------------------------------------------------------------------
(* The invariant holds throughout                                            *)

\* Two directories have no byte in common.
LEMMA DirectoriesAreApart ==
    ASSUME NEW d \in Dirs, NEW e \in Dirs, d[1] = e[1], d[2] < e[2]
    PROVE  Start(d).offset + bitmap_len * kChunkSize <= Start(e).offset
<1>1. PICK a \in Nat \ {0} : a = bitmap_len * kChunkSize
    BY Sizes, SMT
<1>2. d[2] \in Int /\ e[2] \in Int
    BY Sizes, SMT DEF Dirs
<1>3. d[2] * a + a <= e[2] * a
    BY <1>2, Products
<1>4. Start(d).offset = d[2] * a /\ Start(e).offset = e[2] * a
    BY <1>1, <1>2, Sizes, SMT DEF Start, Address
<1> QED
    BY <1>1, <1>3, <1>4

LEMMA InitIInv == Origins /\ Init => IInv
<1> SUFFICES ASSUME Origins, Init PROVE IInv
    OBVIOUS
<1>1. CallTypeOK /\ CallInv
  <2>1. \A t \in Threads : <<Origin[t] % MEMORY_NODE_NUM, Origin[t] % NR_DIRECTORY>> \in Dirs
    <3>1. \A n \in Nat : /\ n % MEMORY_NODE_NUM \in 0 .. MEMORY_NODE_NUM - 1
                         /\ n % NR_DIRECTORY \in 0 .. NR_DIRECTORY - 1
        BY Sizes, SMT
    <3> QED
        BY <3>1 DEF Origins, Dirs
  <2>2. CallTypeOK
      BY <2>1 DEF Init, CallTypeOK
  <2>3. CallInv
      BY DEF Init, CallInv
  <2> QED
      BY <2>2, <2>3
<1>2. Null \in Addr /\ [head |-> Null, cur |-> Null, free_list |-> <<>>] \in LocalAllocator
    BY SMT DEF Null, Address, Addr, LocalAllocator
<1>3. MemoryTypeOK
  <2>1. bitmap_tail \in [Dirs -> 1 .. bitmap_len] /\ bitmap \in [Dirs -> [0 .. bitmap_len - 1 -> BOOLEAN]]
      BY Sizes, SMT DEF Init, FirstChunk
  <2>2. local_allocators \in [Threads -> [Dirs -> LocalAllocator]]
      BY <1>2 DEF Init
  <2> QED
      BY <2>1, <2>2 DEF Init, MemoryTypeOK
<1>4. TailInv
  <2>1. ASSUME NEW d \in Dirs, NEW i \in bitmap_tail[d] .. bitmap_len - 1 PROVE ~bitmap[d][i]
    <3>1. i \in 1 .. bitmap_len - 1 /\ i \in 0 .. bitmap_len - 1 /\ i # 0
        BY <2>1, Sizes, SMT DEF Init, FirstChunk
    <3> QED
        BY <3>1 DEF Init
  <2> QED
      BY <2>1 DEF TailInv
<1>5. /\ \A t \in Threads, d \in Dirs :
           /\ Listed(t, d) = <<>> /\ local_allocators[t][d].head = Null
           /\ local_allocators[t][d].cur = Null
      /\ live = {} /\ \A t \in Threads : replies[t] = {}
    BY DEF Init, Listed
<1>6. FreeAddrs = {} /\ ListedOnce
    BY <1>5, FreeAddrsAre, SMT DEF ListedOnce
<1>7. CutInv
    BY <1>5, <1>6 DEF CutInv, CutsInChunk
<1>8. Parts = DirParts
  <2>1. Cutting = {}
      BY <1>5, SMT DEF Cutting
  <2>2. LiveParts = {} /\ FreeParts = {} /\ SpaceParts = {}
      BY <1>5, <1>6, <2>1 DEF LiveParts, FreeParts, SpaceParts
  <2>3. ReplyParts = {}
    <3>1. \A t \in Threads : RepliesTo(t) = {}
        BY <1>5 DEF RepliesTo
    <3> QED
        BY <3>1 DEF ReplyParts
  <2> QED
      BY <2>2, <2>3 DEF Parts
<1>9. \A d \in Dirs : /\ DirPart(d).node = d[1] /\ DirPart(d).lo = Start(d).offset + kChunkSize
                      /\ DirPart(d).hi = Start(d).offset + bitmap_len * kChunkSize
  <2>1. \A d \in Dirs : bitmap_tail[d] = 1 /\ 1 * kChunkSize = kChunkSize
      BY Sizes, SMT DEF Init, FirstChunk
  <2> QED
      BY <2>1 DEF DirPart, Part
<1>10. kChunkSize <= bitmap_len * kChunkSize /\ bitmap_len * kChunkSize \in Nat
  <2>1. 1 * kChunkSize <= bitmap_len * kChunkSize
      BY Sizes, Products, SMT
  <2> QED
      BY <2>1, Sizes, SMT
<1>11. PartsAreInMemory
  <2>1. \A d \in Dirs : InDirectory(DirPart(d), d)
      BY <1>9, <1>10, DirsAre, Sizes, SMT DEF InDirectory
  <2> QED
      BY <1>8, <2>1 DEF PartsAreInMemory, DirParts
<1>12. PartsAreApart
  <2>1. ASSUME NEW d \in Dirs, NEW e \in Dirs, d # e PROVE Apart(DirPart(d), DirPart(e))
    <3>1. d[1] # e[1] \/ d[2] # e[2]
        BY <2>1, SMT DEF Dirs
    <3>2. /\ Start(d).offset \in Nat /\ Start(e).offset \in Nat /\ d[2] \in Nat /\ e[2] \in Nat
        BY DirsAre
    <3>3. CASE d[1] = e[1] /\ d[2] < e[2]
        BY <1>9, <1>10, <3>2, <3>3, Sizes, DirectoriesAreApart, SMT DEF Apart
    <3>4. CASE d[1] = e[1] /\ e[2] < d[2]
        BY <1>9, <1>10, <3>2, <3>4, Sizes, DirectoriesAreApart, SMT DEF Apart
    <3>5. CASE d[1] # e[1]
        BY <1>9, <3>5 DEF Apart
    <3> QED
        BY <3>1, <3>2, <3>3, <3>4, <3>5, SMT
  <2>2. ASSUME NEW x \in Parts, NEW y \in Parts, x # y PROVE Apart(x, y)
    <3>1. PICK d \in Dirs : x = DirPart(d)
        BY <1>8 DEF DirParts
    <3>2. PICK e \in Dirs : y = DirPart(e)
        BY <1>8 DEF DirParts
    <3> QED
        BY <2>1, <2>2, <3>1, <3>2
  <2> QED
      BY <2>2 DEF PartsAreApart
<1> QED
    BY <1>1, <1>3, <1>4, <1>6, <1>7, <1>11, <1>12 DEF IInv, MemoryInv

LEMMA MemoryUnchanged ==
    ASSUME MemoryInv, UNCHANGED <<bitmap, bitmap_tail, local_allocators, replies, live>>
    PROVE  MemoryInv'
<1>0. MemoryTypeOK /\ TailInv /\ CutInv /\ ListedOnce /\ PartsAreApart /\ PartsAreInMemory
    BY DEF MemoryInv
<1>1. \A t \in Threads, d \in Dirs : Listed(t, d)' = Listed(t, d)
    BY DEF Listed
<1>2. FreeAddrs' = FreeAddrs
  <2>1. \A a : a \in FreeAddrs' <=> a \in FreeAddrs
      BY <1>1, FreeAddrsAre, SMT
  <2> QED
      BY <2>1
<1>3. ListedOnce'
    BY <1>0, <1>1, SMT DEF ListedOnce
<1>4. Parts' \subseteq Parts
  <2>1. \A t \in Threads, d \in Dirs : SpacePart(t, d)' = SpacePart(t, d)
      BY DEF SpacePart, Part, RoundUp
  <2>2. \A d \in Dirs : DirPart(d)' = DirPart(d)
      BY DEF DirPart, Part, Start, Address
  <2> QED
      BY <1>2, <2>1, <2>2, PartsAre, PartsWillBe, SMT
<1>5. PartsAreApart' /\ PartsAreInMemory'
    BY <1>0, <1>4 DEF PartsAreApart, PartsAreInMemory, Apart, InDirectory, Start, Address
<1>6. MemoryTypeOK' /\ TailInv'
    BY <1>0 DEF MemoryTypeOK, TailInv
<1>7. CutInv'
    BY <1>0, <1>2 DEF CutInv, CutsInChunk, Aligned, Null, Address
<1> QED
    BY <1>3, <1>5, <1>6, <1>7 DEF MemoryInv

LEMMA NextIInv == IInv /\ [Next]_vars => IInv'
<1> SUFFICES ASSUME IInv, [Next]_vars PROVE IInv'
    OBVIOUS
<1>0. CallTypeOK /\ CallInv /\ (~exhausted => MemoryInv)
    BY DEF IInv
<1>1. ASSUME NEW t \in Threads, NEW size \in {LeafSize, PageSize}, Alloc(t, size) PROVE IInv'
  <2>1. exhausted' = exhausted
      BY <1>1 DEF Alloc
  <2> QED
      BY <1>0, <1>1, <2>1, AllocCalls, AllocStep DEF IInv
<1>2. ASSUME NEW t \in Threads, RpcWait(t) PROVE IInv'
  <2>1. exhausted' = exhausted
      BY <1>2 DEF RpcWait, Install
  <2> QED
      BY <1>0, <1>2, <2>1, WaitCalls, WaitStep DEF IInv
<1>3. ASSUME NEW t \in Threads, NEW b \in live, Free(t, b) PROVE IInv'
  <2>1. exhausted' = exhausted /\ UNCHANGED <<target, waiting, requests, replies>>
      BY <1>3 DEF Free
  <2> QED
      BY <1>0, <1>3, <2>1, CallsUnchanged, FreeStep DEF IInv
<1>4. ASSUME NEW d \in Dirs, NEW t \in Threads, process_message(d, t) PROVE IInv'
  <2>1. ~exhausted' => ~exhausted
      BY <1>4 DEF process_message, Answer
  <2> QED
      BY <1>0, <1>4, <2>1, ProcessCalls, ProcessStep DEF IInv
<1>5. CASE UNCHANGED vars
  <2>1. /\ UNCHANGED <<target, waiting, requests, replies>> /\ exhausted' = exhausted
        /\ UNCHANGED <<bitmap, bitmap_tail, local_allocators, replies, live>>
      BY <1>5 DEF vars
  <2> QED
      BY <1>0, <2>1, CallsUnchanged, MemoryUnchanged DEF IInv
<1> QED
    BY <1>1, <1>2, <1>3, <1>4, <1>5 DEF Next, Finished

-----------------------------------------------------------------------------
(* Theorems                                                                  *)

\* Until a directory runs out of chunks no byte belongs to two blocks, in the
\* callers' hands or in the free lists, however the calls of DSM::alloc and
\* DSM::free of the threads interleave with the messages.
THEOREM NoByteHasTwoOwners ==
    ASSUME Origins
    PROVE  Spec => []BlocksAreDisjoint
<1>1. IInv => BlocksAreDisjoint
  <2> SUFFICES ASSUME IInv, ~exhausted
               PROVE  /\ \A x, y \in live : x # y => ~Overlap(x, y)
                      /\ \A t, u \in Threads, d, e \in Dirs :
                           \A i \in DOMAIN Listed(t, d), j \in DOMAIN Listed(u, e) :
                             /\ \A z \in live : ~Overlap(Listed(t, d)[i], z)
                             /\ <<t, d, i>> # <<u, e, j>> =>
                                  ~Overlap(Listed(t, d)[i], Listed(u, e)[j])
      BY DEF BlocksAreDisjoint, Listed
  <2>0. MemoryTypeOK /\ CutInv /\ ListedOnce /\ PartsAreApart
      BY DEF IInv, MemoryInv
  <2>1. \A b \in live : /\ b.addr.offset \in Nat /\ b.size \in Nat
                        /\ RoundUp(b.size) \in Nat /\ b.size <= RoundUp(b.size)
      BY <2>0, Sizes, RoundUpAligns DEF MemoryTypeOK, Blocks, Addr
  <2>2. allocAlignPageSize \in Nat
      BY Sizes, RoundUpAligns DEF allocAlignPageSize
  <2>3. ASSUME NEW t \in Threads, NEW d \in Dirs, NEW i \in DOMAIN Listed(t, d)
        PROVE  /\ Listed(t, d)[i].addr.offset \in Nat /\ Listed(t, d)[i].size = allocAlignPageSize
               /\ Listed(t, d)[i].addr \in FreeAddrs
    <3>1. Listed(t, d) \in Seq(FreeBlocks)
        BY <2>0 DEF MemoryTypeOK, LocalAllocator, Listed
    <3>2. Listed(t, d)[i] \in FreeBlocks
        BY <3>1, SMT
    <3> QED
        BY <3>2, FreeAddrsAre DEF FreeBlocks, Addr
  <2>4. \A b \in live : /\ LivePart(b).node = b.addr.node /\ LivePart(b).lo = b.addr.offset
                        /\ LivePart(b).hi = b.addr.offset + RoundUp(b.size)
      BY DEF LivePart, Part
  <2>5. \A a : /\ FreePart(a).node = a.node /\ FreePart(a).lo = a.offset
               /\ FreePart(a).hi = a.offset + allocAlignPageSize
      BY DEF FreePart, Part
  <2>6. ASSUME NEW x \in live, NEW y \in live, x # y PROVE ~Overlap(x, y)
    <3>1. Apart(LivePart(x), LivePart(y))
      <4>1. LivePart(x) \in Parts /\ LivePart(y) \in Parts
          BY PartsAre
      <4>2. LivePart(x) # LivePart(y)
          BY <2>6, Kinds, SMT
      <4> QED
          BY <2>0, <4>1, <4>2 DEF PartsAreApart
    <3> QED
        BY <2>1, <2>4, <3>1, SMT DEF Apart, Overlap
  <2>7. ASSUME NEW t \in Threads, NEW d \in Dirs, NEW i \in DOMAIN Listed(t, d), NEW z \in live
        PROVE  ~Overlap(Listed(t, d)[i], z)
    <3>1. PICK x : x = Listed(t, d)[i]
        OBVIOUS
    <3>2. x.addr \in FreeAddrs /\ x.addr.offset \in Nat /\ x.size = allocAlignPageSize
        BY <2>3, <3>1
    <3>3. Apart(FreePart(x.addr), LivePart(z))
      <4>1. FreePart(x.addr) \in Parts /\ LivePart(z) \in Parts
          BY <3>2, PartsAre
      <4>2. FreePart(x.addr) # LivePart(z)
          BY Kinds
      <4> QED
          BY <2>0, <4>1, <4>2 DEF PartsAreApart
    <3>4. ~Overlap(x, z)
        BY <2>1, <2>2, <2>4, <2>5, <3>2, <3>3, SMT DEF Apart, Overlap
    <3> QED
        BY <3>1, <3>4
  <2>8. ASSUME NEW t \in Threads, NEW d \in Dirs, NEW i \in DOMAIN Listed(t, d),
               NEW u \in Threads, NEW e \in Dirs, NEW j \in DOMAIN Listed(u, e),
               <<t, d, i>> # <<u, e, j>>
        PROVE  ~Overlap(Listed(t, d)[i], Listed(u, e)[j])
    <3>1. PICK x, y : x = Listed(t, d)[i] /\ y = Listed(u, e)[j]
        OBVIOUS
    <3>2. /\ x.addr \in FreeAddrs /\ x.addr.offset \in Nat /\ x.size = allocAlignPageSize
          /\ y.addr \in FreeAddrs /\ y.addr.offset \in Nat /\ y.size = allocAlignPageSize
        BY <2>3, <3>1
    <3>3. x.addr # y.addr
        BY <2>0, <2>8, <3>1, SMT DEF ListedOnce
    <3>4. Apart(FreePart(x.addr), FreePart(y.addr))
      <4>1. FreePart(x.addr) \in Parts /\ FreePart(y.addr) \in Parts
          BY <3>2, PartsAre
      <4>2. FreePart(x.addr) # FreePart(y.addr)
          BY <3>3, Kinds, SMT
      <4> QED
          BY <2>0, <4>1, <4>2 DEF PartsAreApart
    <3>5. ~Overlap(x, y)
      <4>1. PICK m, n \in Nat : m = x.addr.offset /\ n = y.addr.offset
          BY <3>2
      <4>2. x.addr.node # y.addr.node \/ m + allocAlignPageSize <= n \/ n + allocAlignPageSize <= m
          BY <2>5, <3>4, <4>1 DEF Apart
      <4> QED
          BY <2>2, <3>2, <4>1, <4>2, SMT DEF Overlap
    <3> QED
        BY <3>1, <3>5
  <2> QED
      BY <2>6, <2>7, <2>8, SMT
<1> QED
    BY <1>1, InitIInv, NextIInv, PTL DEF Spec

\* Until a directory runs out of chunks every block a caller holds lies on a
\* memory node that exists, inside one directory, behind the chunk with the
\* null and the root pointer.
THEOREM BlocksLieInADirectory ==
    ASSUME Origins
    PROVE  Spec => []BlocksAreInMemory
<1>1. IInv => BlocksAreInMemory
  <2> SUFFICES ASSUME IInv, ~exhausted, NEW b \in live
               PROVE  \E d \in Dirs :
                        /\ b.addr.node = d[1] /\ b.addr.offset >= Start(d).offset + kChunkSize
                        /\ b.addr.offset + b.size <= Start(d).offset + bitmap_len * kChunkSize
      BY DEF BlocksAreInMemory
  <2>1. PICK d \in Dirs : InDirectory(LivePart(b), d)
      BY PartsAre DEF IInv, MemoryInv, PartsAreInMemory
  <2>2. /\ b.addr.offset \in Nat /\ b.size \in Nat
        /\ RoundUp(b.size) \in Nat /\ b.size <= RoundUp(b.size)
      BY Sizes, RoundUpAligns DEF IInv, MemoryInv, MemoryTypeOK, Blocks, Addr
  <2>3. /\ b.addr.node = d[1] /\ b.addr.offset >= Start(d).offset + kChunkSize
        /\ b.addr.offset + RoundUp(b.size) <= Start(d).offset + bitmap_len * kChunkSize
      BY <2>1 DEF InDirectory, LivePart, Part
  <2>4. Start(d).offset + bitmap_len * kChunkSize \in Int
      BY Sizes, DirsAre, SMT
  <2> QED
      BY <2>2, <2>3, <2>4, SMT
<1> QED
    BY <1>1, InitIInv, NextIInv, PTL DEF Spec
====
