---------------------------- MODULE MemorySizes ----------------------------
(* The sizes the allocators of disaggregated memory are built with.          *)
EXTENDS Integers

CONSTANTS
    MEMORY_NODE_NUM,
    NR_DIRECTORY,    \* directories of a memory node
    bitmap_len,      \* chunks of a directory
    kChunkSize,
    Align,           \* 2^ALLOC_ALLIGN_BIT
    LeafSize,        \* sizeof(Leaf)
    PageSize         \* define::allocationPageSize

ASSUME SizeAssumption ==
    /\ {MEMORY_NODE_NUM, NR_DIRECTORY, bitmap_len, kChunkSize, Align, LeafSize, PageSize}
         \subseteq Nat \ {0}
    /\ MEMORY_NODE_NUM <= 2
    /\ kChunkSize % Align = 0
    /\ LeafSize <= PageSize /\ PageSize <= kChunkSize
=============================================================================
