----------------------------- MODULE Allocators -----------------------------
(***************************************************************************)
(* The two allocators behind the memory contexts: AllocSet (allocset.cpp)  *)
(* and Bump (bump.cpp), as functions on a context record and the heap.     *)
(*                                                                         *)
(* heap is the sequence of every block ever malloc'ed: which allocator     *)
(* made it, its capacity, the offset of its freeptr and whether it is      *)
(* still allocated.  A context names blocks by their index, so a pointer   *)
(* to a freed block is seen for what it is.  A chunk is where its header   *)
(* starts, how much the caller asked for, and the freelist index the       *)
(* header carries (External for a chunk that has a block of its own).  bad *)
(* says that freed memory was touched on the way.                          *)
(***************************************************************************)
EXTENDS Integers, Sequences, SequencesExt, FiniteSetsExt

Nil == 0                  \* nullptr, of blocks
External == -1            \* kChunkFlagExternal
kChunkHdrSize == 16
kBumpHdrSize == 8
kAllocSetNumFreelists == 11
kAllocChunkLimit == 8192
BlockStorageSize == 72    \* sizeof(BlockStorage) on a 64-bit build
InitSizeMin == 1024

AlignUp(n, a) == ((n + a - 1) \div a) * a

AllocSetFreeListSize(i) == 8 * 2^i

AllocSetFreeListIndex(size) ==
    Min({kAllocSetNumFreelists - 1} \cup
        {i \in 0..kAllocSetNumFreelists - 1 : size <= AllocSetFreeListSize(i)})

(* alloc_chunk_limit: a context of small blocks sends chunks above a quarter *)
(* of its largest block to blocks of their own.                              *)
ChunkLimit(max_size) ==
    IF max_size < 4 * 8192 THEN Max({64, max_size \div 4}) ELSE kAllocChunkLimit

CreateBlock(h, kind, cap, used) ==
    Append(h, [kind |-> kind, cap |-> AlignUp(cap, 8), used |-> used, live |-> TRUE])

DestroyBlocks(h, bs) ==
    [b \in DOMAIN h |-> IF b \in bs THEN [h[b] EXCEPT !.live = FALSE, !.cap = 0, !.used = 0]
                       ELSE h[b]]

-----------------------------------------------------------------------------
(* What an allocation leaves: the context, the heap and the chunk.           *)
Got(c, h, charge, b, off, size, idx) ==
    [c |-> [c EXCEPT !.mem_allocated = @ + charge], h |-> h, bad |-> FALSE,
     chunk |-> [block |-> b, off |-> off, size |-> size, idx |-> idx]]

(* How far the block in use advances: by the bucket, not by the request.     *)
Advance_Request(need) == need

Advance(need) == AllocSetFreeListSize(AllocSetFreeListIndex(need))

(* A small chunk is carved from the block in use, when it still fits there.  *)
Fits_Started(c, h, bucket) ==
    c.freeptr # Nil /\ h[c.freeptr].used < h[c.freeptr].cap

Fits(c, h, bucket) ==
    c.freeptr # Nil /\ h[c.freeptr].used + bucket <= h[c.freeptr].cap

AllocSetAlloc(c, h, size) ==
    LET need   == Max({size, 1}) + kChunkHdrSize
        idx    == AllocSetFreeListIndex(need)
        bucket == AllocSetFreeListSize(idx)
        fresh  == Len(h) + 1
        base   == Max({c.next_block_size, InitSizeMin})
        cap    == IF bucket > base THEN bucket + BlockStorageSize ELSE base
    IN  CASE need > c.limit ->
               Got([c EXCEPT !.blocks = <<fresh>> \o @], CreateBlock(h, "AllocSet", need, 0),
                   AlignUp(need, 8) + BlockStorageSize, fresh, 0, size, External)
          [] need <= c.limit /\ c.freelist[idx] # <<>> ->
               Got([c EXCEPT !.freelist[idx] = Tail(@)], h, bucket,
                   Head(c.freelist[idx]).block, Head(c.freelist[idx]).off, size, idx)
          [] need <= c.limit /\ c.freelist[idx] = <<>>
             /\ c.freeptr # Nil /\ ~h[c.freeptr].live ->
               [Got(c, h, bucket, c.freeptr, 0, size, idx) EXCEPT !.bad = TRUE]
          [] need <= c.limit /\ c.freelist[idx] = <<>>
             /\ Fits(c, h, bucket) /\ h[c.freeptr].live ->
               Got(c, [h EXCEPT ![c.freeptr].used = @ + Advance(need)], bucket,
                   c.freeptr, h[c.freeptr].used, size, idx)
          [] OTHER ->
               Got([c EXCEPT !.blocks = <<fresh>> \o @, !.freeptr = fresh,
                             !.next_block_size = Min({2 * @, c.max_block_size})],
                   CreateBlock(h, "AllocSet", cap, Advance(need)), bucket, fresh, 0, size, idx)

(* What a free takes off mem_allocated.                                      *)
Refund(h, k) ==
    IF k.idx = External THEN h[k.block].cap + BlockStorageSize
    ELSE AllocSetFreeListSize(k.idx)

(* AllocSetFree: an external chunk gives its block back, a small one goes to *)
(* the head of its freelist.                                                 *)
AllocSetFree(c, h, k) ==
    IF k.idx = External
    THEN LET rest == SelectSeq(c.blocks, LAMBDA b : b # k.block)
         IN  [c |-> [c EXCEPT !.blocks = rest,
                              !.freeptr = IF @ # k.block THEN @
                                          ELSE IF rest = <<>> THEN Nil ELSE rest[1],
                              !.mem_allocated = @ - Refund(h, k)],
              h |-> DestroyBlocks(h, {k.block})]
    ELSE [c |-> [c EXCEPT !.freelist[k.idx] = <<[block |-> k.block, off |-> k.off]>> \o @,
                          !.mem_allocated = @ - Refund(h, k)],
          h |-> h]

(* A chunk whose header names the bucket below its own.                      *)
AllocSetGetChunkSpace_Below(k) ==
    IF k.idx = External THEN 0 ELSE AllocSetFreeListSize(k.idx - 1) - kChunkHdrSize

(* AllocSetGetChunkSpace: what the header tells of the size; nothing for an  *)
(* external chunk.                                                           *)
AllocSetGetChunkSpace(k) ==
    IF k.idx = External THEN 0 ELSE AllocSetFreeListSize(k.idx) - kChunkHdrSize

(* A reset that frees the head block as well.                                *)
AllocSetReset_FreeAll(c, h) ==
    [c |-> [c EXCEPT !.freelist = [i \in DOMAIN @ |-> <<>>], !.mem_allocated = 0,
                     !.next_block_size = c.init_block_size, !.blocks = <<>>],
     h |-> DestroyBlocks(h, ToSet(c.blocks))]

(* AllocSetReset keeps the head block and frees the others; freeptr is left  *)
(* where it was.                                                             *)
AllocSetReset(c, h) ==
    LET kept == IF c.blocks = <<>> THEN {} ELSE {c.blocks[1]}
        cleared == [c EXCEPT !.freelist = [i \in DOMAIN @ |-> <<>>],
                             !.mem_allocated = 0,
                             !.next_block_size = c.init_block_size,
                             !.blocks = SubSeq(@, 1, Cardinality(kept))]
        h1 == DestroyBlocks(h, ToSet(c.blocks) \ kept)
    IN  [c |-> cleared,
         h |-> [b \in DOMAIN h |-> IF b \in kept THEN [h1[b] EXCEPT !.used = 0]
                                   ELSE h1[b]]]

-----------------------------------------------------------------------------
(* BumpAlloc: an object above the largest block gets a block of its own,     *)
(* whose cursor stays at its start; the head of the list is the block in     *)
(* use.                                                                      *)
BumpAlloc(c, h, size) ==
    LET total == AlignUp(size, 8) + kBumpHdrSize
        fresh == Len(h) + 1
        head  == IF c.blocks = <<>> THEN Nil ELSE c.blocks[1]
        cap   == Min({c.init_block_size * 2^i : i \in 0..10} \ 0..(total - 1))
        pushed == [c EXCEPT !.blocks = <<fresh>> \o @]
    IN  CASE total > c.max_block_size ->
               Got(pushed, CreateBlock(h, "Bump", total, 0), total, fresh, 0, size, External)
          [] total <= c.max_block_size /\ head # Nil
             /\ h[head].used + total <= h[head].cap ->
               Got(c, [h EXCEPT ![head].used = @ + total], total,
                   head, h[head].used, size, External)
          [] OTHER ->
               Got(pushed, CreateBlock(h, "Bump", Min({cap, c.max_block_size}), total), total,
                   fresh, 0, size, External)

(* BumpReset takes the head block off the list, rewinds it, and frees the    *)
(* rest: no block is left to the context.                                    *)
BumpReset(c, h) ==
    IF c.blocks = <<>> THEN [c |-> [c EXCEPT !.mem_allocated = 0], h |-> h]
    ELSE [c |-> [c EXCEPT !.blocks = <<>>, !.mem_allocated = 0],
          h |-> DestroyBlocks([h EXCEPT ![c.blocks[1]].used = 0], ToSet(Tail(c.blocks)))]

=============================================================================
