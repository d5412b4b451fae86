------------------------------- MODULE Arena -------------------------------
(***************************************************************************)
(* The bump allocator of src/src/arena.c.                                  *)
(*                                                                         *)
(* An arena is a list of chunks.  Only the newest chunk (the head of the C *)
(* list, the last element of the sequence "chunks") is ever bumped; when a *)
(* request does not fit, the tail of the head is abandoned and a new chunk *)
(* is pushed.  "blocks" is a history variable: the ranges handed out, as   *)
(* the callers see them.  Offsets and sizes are size_t: every addition is  *)
(* taken modulo SizeMod, as the code takes it modulo 2^64.                 *)
(***************************************************************************)
EXTENDS Integers, Sequences

CONSTANTS DefaultChunkSize,  \* the argument of lr_arena_create
          Sizes,             \* request sizes the callers use
          Aligns,            \* request alignments the callers use (0 means 1)
          SizeMod,           \* 2^w for a w-bit size_t
          MaxChunks,         \* bound: chunks of one arena
          MaxBlocks          \* bound: allocations from one arena

VARIABLES chunks,            \* sequence of [size, used]; the last one is a->head
          blocks             \* sequence of [chunk, off, size, align] handed out

vars == <<chunks, blocks>>

\* if (default_chunk_size == 0) default_chunk_size = 64 * 1024;
default_chunk_size == IF DefaultChunkSize = 0 THEN 64 * 1024 ELSE DefaultChunkSize

\* if (align == 0) align = 1;
EffAlign(align) == IF align = 0 THEN 1 ELSE align

Add(x, y) == (x + y) % SizeMod

\* Mutant: the addition of align - 1 is forgotten, so x is rounded down.
MutAlignDown(x, align) == x - (x % align)

\* Mutant: no rounding at all.
MutNoAlign(x, align) == x

\* (x + align - 1) & ~(align - 1), align a power of two
AlignUp(x, align) ==
    LET y == Add(x, align - 1) IN y - (y % align)

(***************************************************************************)
(* What the callers guarantee: alignments are _Alignof values or 0 (powers *)
(* of two below SizeMod), and no request comes near the end of the size_t  *)
(* range, so that no addition of arena_alloc_impl wraps.                   *)
(***************************************************************************)
ASSUME ConstantsAssumption ==
    /\ DefaultChunkSize \in Nat
    /\ SizeMod \in Nat \ {0}
    /\ MaxChunks \in Nat
    /\ MaxBlocks \in Nat
    /\ Sizes \subseteq Nat
    /\ Aligns \subseteq Nat

ASSUME NoWrapAssumption ==
    \A s \in Sizes, a \in Aligns, s2 \in Sizes, a2 \in Aligns :
        /\ default_chunk_size + s + EffAlign(a) < SizeMod
        /\ (s2 + EffAlign(a2)) + s + EffAlign(a) < SizeMod

Chunk == [size : Nat, used : Nat]
Block == [chunk : Nat \ {0}, off : Nat, size : Sizes, align : Nat \ {0}]

head == chunks[Len(chunks)]

Init ==
    /\ chunks = <<[size |-> default_chunk_size, used |-> 0]>>
    /\ blocks = <<>>

\* Mutant: the padding is not counted when the limit is checked.
MutFitsIgnoresPadding(size, align) == Add(head.used, size) <= head.size

\* The request fits behind what the head has already given out.
Fits(size, align) == Add(AlignUp(head.used, align), size) <= head.size

\* arena_alloc_impl, first return: bump the head chunk.
AllocFromHead(size, align) ==
    LET offset == AlignUp(head.used, align) IN
    /\ chunks # <<>>
    /\ Fits(size, align)
    /\ chunks' = [chunks EXCEPT ![Len(chunks)] = [size |-> head.size,
                                                 used |-> Add(offset, size)]]
    /\ blocks' = Append(blocks, [chunk |-> Len(chunks), off |-> offset,
                                 size |-> size, align |-> align])

\* size_t chunk_size = need > default ? need : default, with need = size + align
NewChunkSize(size, align) ==
    LET need == Add(size, align) IN
    IF need > default_chunk_size THEN need ELSE default_chunk_size

\* arena_alloc_impl, second return: push a chunk and serve from its start.
AllocNewChunk(size, align) ==
    LET off2 == AlignUp(0, align) IN
    /\ chunks # <<>>
    /\ ~Fits(size, align)
    /\ Len(chunks) < MaxChunks
    /\ chunks' = Append(chunks, [size |-> NewChunkSize(size, align),
                                 used |-> Add(off2, size)])
    /\ blocks' = Append(blocks, [chunk |-> Len(chunks) + 1, off |-> off2,
                                 size |-> size, align |-> align])

\* malloc fails in chunk_create: NULL is returned, the arena is untouched.
AllocOutOfMemory(size, align) ==
    /\ chunks # <<>>
    /\ ~Fits(size, align)
    /\ UNCHANGED vars

\* lr_arena_destroy: every chunk, and with it every block, is gone.
Destroy ==
    /\ chunks # <<>>
    /\ chunks' = <<>>
    /\ blocks' = <<>>

Alloc(size, align) ==
    \/ AllocFromHead(size, align)
    \/ AllocNewChunk(size, align)
    \/ AllocOutOfMemory(size, align)

Next ==
    \/ /\ Len(blocks) < MaxBlocks
       /\ \E size \in Sizes, a \in Aligns : Alloc(size, EffAlign(a))
    \/ Destroy

Spec == Init /\ [][Next]_vars
-----------------------------------------------------------------------------
(***************************************************************************)
(* Properties                                                              *)
(***************************************************************************)

\* Type correctness of the chunk list and of the history of blocks.
TypeOK ==
    /\ chunks \in Seq(Chunk)
    /\ blocks \in Seq(Block)

\* Every block arena_alloc_impl returned lies inside its chunk's data[] and in
\* the part of it already marked used, so that no later bump can reach it.
BlocksInUsedPart ==
    \A i \in DOMAIN blocks :
        LET b == blocks[i] IN
        /\ b.chunk \in DOMAIN chunks
        /\ b.off + b.size <= chunks[b.chunk].used
        /\ chunks[b.chunk].used <= chunks[b.chunk].size

Disjoint(b, c) ==
    \/ b.chunk # c.chunk
    \/ b.off + b.size <= c.off
    \/ c.off + c.size <= b.off

\* Two live blocks never share a byte: neither the head's bump pointer nor the
\* change to a new chunk hands out memory twice.
BlocksDisjoint ==
    \A i, j \in DOMAIN blocks : i # j => Disjoint(blocks[i], blocks[j])

\* The offset of every block is a multiple of the alignment it was asked for.
BlocksAligned ==
    \A i \in DOMAIN blocks : blocks[i].off % blocks[i].align = 0

=============================================================================
