----------------------------- MODULE BufferPool -----------------------------
(***************************************************************************)
(* The free list of a pool of I/O buffers (libdriver, dma/BufferPool.cpp): *)
(* blocks of free memory in the order of their offsets.  The unit of       *)
(* memory is a page, which is a sector and an extent too.                  *)
(***************************************************************************)
EXTENDS Integers, Sequences, SequencesExt, FiniteSetsExt

Block(offset, length) == [offset |-> offset, length |-> length]

\* getBuffer(): the first block that is large enough is cut.
LargeEnough(freeList, length) == {i \in DOMAIN freeList : freeList[i].length >= length}
Offset(freeList, length) == freeList[Min(LargeEnough(freeList, length))].offset
Cut(freeList, length) ==
    LET i == Min(LargeEnough(freeList, length))
        b == freeList[i]
    IN  IF b.length = length THEN RemoveAt(freeList, i)
        ELSE [freeList EXCEPT ![i] = Block(b.offset + length, b.length - length)]

\* defragFreeList(): neighbours become one block.
DefragOnce(freeList) ==
    IF Len(freeList) > 1 /\ freeList[1].offset + freeList[1].length = freeList[2].offset
    THEN <<Block(freeList[1].offset, freeList[1].length + freeList[2].length)>>
         \o SubSeq(freeList, 3, Len(freeList))
    ELSE freeList
Defrag(freeList) ==
    FoldLeft(LAMBDA list, b :
                 LET n == Len(list) IN
                 IF n > 0 /\ list[n].offset + list[n].length = b.offset
                 THEN [list EXCEPT ![n].length = @ + b.length]
                 ELSE Append(list, b),
             <<>>, freeList)

\* freeRange(): back to its place in the list, which is then defragmented.
FreeRange(freeList, b) ==
    Defrag(SortSeq(<<b>> \o freeList, LAMBDA x, y : x.offset < y.offset))
=============================================================================
