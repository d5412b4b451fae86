---------------------------- MODULE ArenaProofs ----------------------------
(***************************************************************************)
(* Proofs for Arena: for every chunk size, request size and alignment that *)
(* does not wrap size_t, the blocks of an arena lie in their chunks, are   *)
(* aligned and never share a byte.                                         *)
(*                                                                         *)
(* BlocksDisjoint alone is not inductive: a block beyond the head's bump   *)
(* pointer could be hit by the next allocation.  IInv adds that blocks lie *)
(* below "used", that used <= size, and that a chunk's size is one of the  *)
(* two values chunk_create is called with (this is what bounds the sums).  *)
(***************************************************************************)
EXTENDS Arena, TLAPS

\* A size chunk_create may have been asked for.
ChunkSizeOK(n) ==
    \/ n = default_chunk_size
    \/ \E s \in Sizes, a \in Aligns : n = s + EffAlign(a)

\* Every chunk is filled at most to its size, and has a size of the code's choice.
ChunksOK ==
    \A i \in DOMAIN chunks :
        /\ chunks[i].used <= chunks[i].size
        /\ ChunkSizeOK(chunks[i].size)

\* The inductive invariant.
IInv == TypeOK /\ ChunksOK /\ BlocksInUsedPart /\ BlocksDisjoint /\ BlocksAligned

-----------------------------------------------------------------------------
\* Below the modulus, size_t addition is addition.
LEMMA AddSmall ==
    ASSUME NEW x \in Nat, NEW y \in Nat, x + y < SizeMod
    PROVE  Add(x, y) = x + y
BY ConstantsAssumption DEF Add

\* Clearing the low bits of y leaves a multiple of a.
LEMMA SubMod ==
    ASSUME NEW y \in Nat, NEW a \in Nat \ {0}
    PROVE  (y - (y % a)) % a = 0
<1> DEFINE q == y \div a
<1>1. q \in Nat
  OBVIOUS
<1>2. y - (y % a) = q * a
  OBVIOUS
<1>3. (q * a) % a = 0
  <2> HIDE DEF q
  <2> QED BY <1>1
<1> QED
  BY <1>1, <1>2, <1>3

\* The alignment expression rounds up to the next multiple of the alignment.
LEMMA AlignUpCorrect ==
    ASSUME NEW x \in Nat, NEW a \in Nat \ {0}, x + a <= SizeMod
    PROVE  /\ AlignUp(x, a) \in Nat
           /\ x <= AlignUp(x, a)
           /\ AlignUp(x, a) < x + a
           /\ AlignUp(x, a) % a = 0
<1> DEFINE y == x + (a - 1)
<1>1. y \in Nat /\ Add(x, a - 1) = y
  BY ConstantsAssumption DEF Add
<1>2. y % a \in 0 .. (a - 1) /\ y % a <= y
  BY <1>1
<1>3. (y - (y % a)) % a = 0
  BY <1>1, SubMod
<1>4. AlignUp(x, a) = y - (y % a)
  BY <1>1 DEF AlignUp
<1> QED
  BY <1>1, <1>2, <1>3, <1>4

\* No request of the callers wraps on a chunk of the arena.
LEMMA NoWrap ==
    ASSUME NEW n \in Nat, ChunkSizeOK(n), NEW s \in Sizes, NEW a \in Aligns
    PROVE  n + s + EffAlign(a) < SizeMod
BY NoWrapAssumption DEF ChunkSizeOK

\* The effective alignment is positive, the default chunk size is a number.
LEMMA EffAlignType ==
    ASSUME NEW a \in Aligns
    PROVE  EffAlign(a) \in Nat \ {0}
BY ConstantsAssumption DEF EffAlign

\* The chunk size arena_create settles on is a number.
LEMMA DefaultType == default_chunk_size \in Nat
BY ConstantsAssumption DEF default_chunk_size

-----------------------------------------------------------------------------
\* A new arena satisfies the invariant.
LEMMA InitIInv == Init => IInv
BY DefaultType DEF Init, IInv, TypeOK, ChunksOK, ChunkSizeOK, BlocksInUsedPart,
   BlocksDisjoint, BlocksAligned, Chunk

\* Bumping the head preserves the invariant: the new block starts at or above
\* the old bump pointer and ends at the new one.
LEMMA HeadStep ==
    ASSUME IInv, NEW s \in Sizes, NEW a \in Aligns,
           AllocFromHead(s, EffAlign(a))
    PROVE  IInv'
<1> DEFINE al == EffAlign(a)
           n == Len(chunks)
           off == AlignUp(head.used, al)
           c == [size |-> head.size, used |-> off + s]
           b == [chunk |-> n, off |-> off, size |-> s, align |-> al]
<1>1. /\ al \in Nat \ {0} /\ s \in Nat /\ SizeMod \in Nat
  BY EffAlignType, ConstantsAssumption
<1>2. /\ n \in Nat \ {0} /\ n \in DOMAIN chunks
      /\ chunks \in Seq(Chunk) /\ blocks \in Seq(Block)
      /\ head = chunks[n] /\ n = Len(chunks)
      /\ head \in Chunk /\ head.used \in Nat /\ head.size \in Nat
      /\ head.used <= head.size /\ ChunkSizeOK(head.size)
  <2>1. chunks \in Seq(Chunk) /\ blocks \in Seq(Block) /\ chunks # <<>>
    BY DEF AllocFromHead, IInv, TypeOK
  <2>2. n \in Nat \ {0} /\ n \in DOMAIN chunks /\ head = chunks[n] /\ head \in Chunk
    BY <2>1 DEF head
  <2> QED
    BY <2>1, <2>2 DEF IInv, ChunksOK, Chunk
<1>3. head.size + s + al < SizeMod
  BY <1>1, <1>2, NoWrap
<1>4. /\ off \in Nat /\ head.used <= off /\ off < head.used + al /\ off % al = 0
  <2>1. head.used + al <= SizeMod
    BY <1>1, <1>2, <1>3
  <2> HIDE DEF al
  <2> QED
    BY <2>1, <1>1, <1>2, AlignUpCorrect
<1>5. Add(off, s) = off + s
  BY <1>1, <1>2, <1>3, <1>4, AddSmall
<1>6. off + s <= head.size
  BY <1>5 DEF AllocFromHead, Fits
<1>7. /\ chunks' = [chunks EXCEPT ![n] = c]
      /\ blocks' = Append(blocks, b)
  BY <1>5 DEF AllocFromHead
<1> HIDE DEF al, off, n
<1>8. b \in Block /\ c \in Chunk
  BY <1>1, <1>2, <1>4 DEF Block, Chunk
<1>9. TypeOK'
  BY <1>2, <1>7, <1>8 DEF TypeOK
<1>10. /\ Len(chunks') = n /\ DOMAIN chunks' = DOMAIN chunks
       /\ chunks'[n].used = off + s /\ chunks'[n].size = head.size
       /\ \A i \in DOMAIN chunks : i # n => chunks'[i] = chunks[i]
       /\ \A i \in DOMAIN chunks : /\ chunks'[i].size = chunks[i].size
                                   /\ chunks[i].used <= chunks'[i].used
  <2>1. /\ Len(chunks') = n /\ DOMAIN chunks' = DOMAIN chunks /\ chunks'[n] = c
        /\ \A i \in DOMAIN chunks : i # n => chunks'[i] = chunks[i]
    BY <1>2, <1>7
  <2>2. \A i \in DOMAIN chunks : chunks[i] \in Chunk
    BY <1>2
  <2>3. \A i \in DOMAIN chunks : chunks[i].used \in Nat
    BY <2>2 DEF Chunk
  <2> QED
    BY <2>1, <2>3, <1>1, <1>2, <1>4
<1>11. /\ DOMAIN blocks' = DOMAIN blocks \cup {Len(blocks) + 1}
       /\ blocks'[Len(blocks) + 1] = b
       /\ \A i \in DOMAIN blocks : /\ blocks'[i] = blocks[i]
                                   /\ blocks[i] \in Block
                                   /\ i # Len(blocks) + 1
  BY <1>2, <1>7
<1>12. ChunksOK'
  BY <1>2, <1>6, <1>10 DEF IInv, ChunksOK, ChunkSizeOK
<1>13. BlocksInUsedPart'
  <2> SUFFICES ASSUME NEW i \in DOMAIN blocks'
               PROVE  /\ blocks'[i].chunk \in DOMAIN chunks'
                      /\ blocks'[i].off + blocks'[i].size <= chunks'[blocks'[i].chunk].used
                      /\ chunks'[blocks'[i].chunk].used <= chunks'[blocks'[i].chunk].size
    BY DEF BlocksInUsedPart
  <2>1. CASE i = Len(blocks) + 1
    BY <2>1, <1>1, <1>2, <1>4, <1>6, <1>10, <1>11
  <2>2. CASE i \in DOMAIN blocks
    <3>1. /\ blocks[i].chunk \in DOMAIN chunks
          /\ blocks[i].off + blocks[i].size <= chunks[blocks[i].chunk].used
      BY <2>2 DEF IInv, BlocksInUsedPart
    <3>2. blocks'[i] = blocks[i] /\ blocks[i].off \in Nat /\ blocks[i].size \in Nat
      BY <2>2, <1>11, ConstantsAssumption DEF Block
    <3>3. /\ chunks[blocks[i].chunk].used \in Nat
          /\ chunks'[blocks[i].chunk].used \in Nat
      <4>1. chunks[blocks[i].chunk] \in Chunk
        BY <3>1, <1>2
      <4>2. chunks'[blocks[i].chunk] \in Chunk
        BY <3>1, <1>9, <1>10 DEF TypeOK
      <4> QED
        BY <4>1, <4>2 DEF Chunk
    <3>4. /\ blocks[i].chunk \in DOMAIN chunks'
          /\ chunks[blocks[i].chunk].used <= chunks'[blocks[i].chunk].used
          /\ chunks'[blocks[i].chunk].used <= chunks'[blocks[i].chunk].size
      BY <3>1, <1>10, <1>12 DEF ChunksOK
    <3>5. blocks[i].off + blocks[i].size <= chunks'[blocks[i].chunk].used
      BY <3>1, <3>2, <3>3, <3>4
    <3> QED
      BY <3>2, <3>4, <3>5
  <2> QED
    BY <2>1, <2>2, <1>11
<1>14. \A i \in DOMAIN blocks : Disjoint(b, blocks[i]) /\ Disjoint(blocks[i], b)
  <2> SUFFICES ASSUME NEW i \in DOMAIN blocks, blocks[i].chunk = n
               PROVE  blocks[i].off + blocks[i].size <= b.off
    BY DEF Disjoint
  <2>1. blocks[i].off + blocks[i].size <= head.used
    BY <1>2 DEF IInv, BlocksInUsedPart
  <2>2. blocks[i].off \in Nat /\ blocks[i].size \in Nat
    BY <1>11, ConstantsAssumption DEF Block
  <2> QED
    BY <2>1, <2>2, <1>2, <1>4
<1>15. BlocksDisjoint'
  BY <1>11, <1>14 DEF IInv, BlocksDisjoint, Disjoint
<1>16. BlocksAligned'
  BY <1>4, <1>11 DEF IInv, BlocksAligned
<1> QED
  BY <1>9, <1>12, <1>13, <1>15, <1>16 DEF IInv

\* Pushing a chunk preserves the invariant: the new chunk has room for the
\* request and no older block is in it.
LEMMA NewChunkStep ==
    ASSUME IInv, NEW s \in Sizes, NEW a \in Aligns,
           AllocNewChunk(s, EffAlign(a))
    PROVE  IInv'
<1> DEFINE al == EffAlign(a)
           n == Len(chunks) + 1
           sz == NewChunkSize(s, al)
           c == [size |-> sz, used |-> s]
           b == [chunk |-> n, off |-> 0, size |-> s, align |-> al]
<1>1. /\ al \in Nat \ {0} /\ s \in Nat /\ default_chunk_size \in Nat /\ SizeMod \in Nat
  BY EffAlignType, DefaultType, ConstantsAssumption
<1>2. default_chunk_size + s + al < SizeMod
  BY <1>1, NoWrap DEF ChunkSizeOK
<1>3. AlignUp(0, al) = 0 /\ 0 % al = 0
  <2>1. /\ AlignUp(0, al) \in Nat /\ AlignUp(0, al) < al /\ AlignUp(0, al) % al = 0
    BY <1>1, <1>2, AlignUpCorrect
  <2>2. \A x \in 0 .. (al - 1) : x % al = x
    BY <1>1
  <2> QED
    BY <2>1, <2>2, <1>1
<1>4. Add(AlignUp(0, al), s) = s /\ Add(s, al) = s + al
  BY <1>1, <1>2, <1>3, AddSmall
<1>5. sz \in Nat /\ s <= sz /\ ChunkSizeOK(sz)
  BY <1>1, <1>4 DEF NewChunkSize, ChunkSizeOK
<1>6. /\ chunks' = Append(chunks, c) /\ blocks' = Append(blocks, b)
  BY <1>3, <1>4 DEF AllocNewChunk
<1>7. /\ chunks \in Seq(Chunk) /\ blocks \in Seq(Block)
      /\ Len(chunks) \in Nat /\ Len(blocks) \in Nat
  BY DEF IInv, TypeOK
<1> HIDE DEF al, sz
<1>8. b \in Block /\ c \in Chunk
  BY <1>1, <1>5, <1>7 DEF Block, Chunk
<1>9. TypeOK'
  BY <1>6, <1>7, <1>8 DEF TypeOK
<1>10. /\ DOMAIN chunks' = DOMAIN chunks \cup {n} /\ chunks'[n] = c
       /\ n \notin DOMAIN chunks
       /\ \A i \in DOMAIN chunks : chunks'[i] = chunks[i]
  BY <1>6, <1>7
<1>11. /\ DOMAIN blocks' = DOMAIN blocks \cup {Len(blocks) + 1}
       /\ blocks'[Len(blocks) + 1] = b
       /\ \A i \in DOMAIN blocks : /\ blocks'[i] = blocks[i]
                                   /\ i # Len(blocks) + 1
                                   /\ blocks[i].chunk \in DOMAIN chunks
  BY <1>6, <1>7 DEF IInv, BlocksInUsedPart
<1> HIDE DEF n
<1>12. ChunksOK'
  BY <1>1, <1>5, <1>10 DEF IInv, ChunksOK, ChunkSizeOK
<1>13. BlocksInUsedPart'
  BY <1>1, <1>5, <1>10, <1>11 DEF IInv, BlocksInUsedPart
<1>14. BlocksDisjoint'
  BY <1>10, <1>11 DEF IInv, BlocksDisjoint, Disjoint
<1>15. BlocksAligned'
  BY <1>3, <1>11 DEF IInv, BlocksAligned
<1> QED
  BY <1>9, <1>12, <1>13, <1>14, <1>15 DEF IInv

\* Every step preserves the invariant.
LEMMA StepIInv == IInv /\ [Next]_vars => IInv'
<1> SUFFICES ASSUME IInv, [Next]_vars
             PROVE  IInv'
  OBVIOUS
<1>1. ASSUME NEW s \in Sizes, NEW a \in Aligns, Alloc(s, EffAlign(a))
      PROVE  IInv'
  <2>1. CASE AllocFromHead(s, EffAlign(a))
    BY <2>1, HeadStep
  <2>2. CASE AllocNewChunk(s, EffAlign(a))
    BY <2>2, NewChunkStep
  <2>3. CASE AllocOutOfMemory(s, EffAlign(a))
    BY <2>3 DEF AllocOutOfMemory, vars, IInv, TypeOK, ChunksOK, BlocksInUsedPart,
                BlocksDisjoint, BlocksAligned
  <2> QED
    BY <1>1, <2>1, <2>2, <2>3 DEF Alloc
<1>2. CASE Destroy
  BY <1>2 DEF Destroy, IInv, TypeOK, ChunksOK, BlocksInUsedPart, BlocksDisjoint,
              BlocksAligned
<1>3. CASE UNCHANGED vars
  BY <1>3 DEF vars, IInv, TypeOK, ChunksOK, BlocksInUsedPart, BlocksDisjoint,
              BlocksAligned
<1> QED
  BY <1>1, <1>2, <1>3 DEF Next

\* arena_alloc_impl never hands out overlapping, misaligned or out-of-chunk
\* memory, whatever the chunk size and the mix of requests.
THEOREM ArenaSafety ==
    Spec => [](TypeOK /\ BlocksInUsedPart /\ BlocksDisjoint /\ BlocksAligned)
<1>1. IInv => TypeOK /\ BlocksInUsedPart /\ BlocksDisjoint /\ BlocksAligned
  BY DEF IInv
<1> QED
  BY InitIInv, StepIInv, <1>1, PTL DEF Spec

\* A block, as long as it was asked for, lies in the part of its chunk that is
\* counted as used, so a later request cannot reach it.
THEOREM ArenaInside == Spec => []BlocksInUsedPart
BY ArenaSafety, PTL

\* Every block starts at a multiple of the alignment it was asked for with,
\* also behind blocks of other alignments and in a chunk of its own.
THEOREM ArenaAligned == Spec => []BlocksAligned
BY ArenaSafety, PTL
=============================================================================
