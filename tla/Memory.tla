------------------------------- MODULE Memory -------------------------------
(***************************************************************************)
(* The allocators of src/common/memory, stacked as the database and the    *)
(* generated code stack them: a pool of equal blocks and a stack, both     *)
(* drawing their pages from one page allocator, and a client of its large  *)
(* pages.  The page allocator hands out small pages from the bottom of its *)
(* region and large ones from the top.  Page p is the p-th small page; a   *)
(* large page is named by the first small page it covers.  Bytes inside a  *)
(* page are counted in units.                                              *)
(*                                                                         *)
(* A step is one call: each allocator has a mutex that its calls hold from *)
(* beginning to end.                                                       *)
(***************************************************************************)
EXTENDS Integers, FiniteSets, Sequences, SequencesExt, FiniteSetsExt

CONSTANTS RegionSize,    \* small pages in the region
          LargeSize,     \* small pages in a large page
          PageSize,      \* units in a small page
          BlockSize,     \* units in a block of the pool
          FrameMax,      \* addresses that fit in a frame of the stack
          Sizes,         \* sizes asked from the stack
          PoolLive,      \* bound: blocks of the pool in use at a time
          StackLive      \* bound: blocks of the stack in use at a time

ASSUME MemoryAssumption ==
  /\ {RegionSize, LargeSize, PageSize, BlockSize, FrameMax, PoolLive, StackLive} \subseteq Nat \ {0}
  /\ RegionSize % LargeSize = 0 /\ 2 * BlockSize <= PageSize
  /\ Sizes \subseteq 1..PageSize

VARIABLES palloc,    \* the page allocator
          pool, poolLive,      \* the pool, and the blocks its clients hold
          salloc, stackLive,   \* the stack, and what its clients hold, oldest first
          largeLive,           \* the large pages in use
          taken                \* the pages the stack has taken and not given back

vars == <<palloc, pool, poolLive, salloc, stackLive, largeLive, taken>>

NULL == -1

---------------------------------------------------------------------------
(* fdb_page_alloc_t, without its counters.                                 *)

PageAllocInit ==
  [stop |-> 0, ltop |-> RegionSize - LargeSize, sfree |-> <<>>, lfree |-> <<>>]

\* The page an allocation returns.
NextSmall(p) == IF p.sfree = <<>> THEN p.stop ELSE Head(p.sfree)
NextLarge(p) == IF p.lfree = <<>> THEN p.ltop ELSE Head(p.lfree)
\* Mutant: the assertion compares with the end of the region only.
LargeFits_Touching(p) == p.lfree # <<>> \/ p.ltop >= 0

\* The asserted room for a page.
SmallFits(p) == p.sfree # <<>> \/ p.stop < p.ltop
LargeFits(p) == p.lfree # <<>> \/ p.ltop > p.stop + 1

TakeSmall(p) == IF p.sfree = <<>> THEN [p EXCEPT !.stop = @ + 1]
                                  ELSE [p EXCEPT !.sfree = Tail(@)]
TakeLarge(p) == IF p.lfree = <<>> THEN [p EXCEPT !.ltop = @ - LargeSize]
                                  ELSE [p EXCEPT !.lfree = Tail(@)]

\* fdb_page_alloc_free: below p_stop it is a small page.
Free(p, page) == IF page < p.stop THEN [p EXCEPT !.sfree = <<page>> \o @]
                                  ELSE [p EXCEPT !.lfree = <<page>> \o @]

FreeAll(p, pages) ==
  LET after[n \in 0..Len(pages)] == IF n = 0 THEN p ELSE Free(after[n - 1], pages[n])
  IN after[Len(pages)]

---------------------------------------------------------------------------
(* fdb_pool_alloc_t.  The first block of a page is its header, so the grow *)
(* offset is the size of a block; a block is a page and an offset in it.   *)

PoolInit == [chunks |-> <<>>, free |-> <<>>, next |-> 0]

\* Mutant: the last block may start at the very end of the page.
PoolHasRoom_PastEnd == pool.chunks # <<>> /\ pool.next <= PageSize

\* The three ways an allocation goes: a free block, room in the last page, a new page.
PoolHasFree == pool.free # <<>>
PoolHasRoom == pool.chunks # <<>> /\ pool.next + BlockSize <= PageSize

PoolTakes(block) == Cardinality(poolLive) < PoolLive /\ poolLive' = poolLive \cup {block}

PoolAlloc ==
  /\ UNCHANGED <<salloc, stackLive, largeLive, taken>>
  /\ \/ /\ PoolHasFree
        /\ PoolTakes(Head(pool.free))
        /\ pool' = [pool EXCEPT !.free = Tail(@)]
        /\ UNCHANGED palloc
     \/ /\ ~PoolHasFree /\ PoolHasRoom
        /\ PoolTakes([page |-> Last(pool.chunks), offset |-> pool.next])
        /\ pool' = [pool EXCEPT !.next = @ + BlockSize]
        /\ UNCHANGED palloc
     \/ /\ ~PoolHasFree /\ ~PoolHasRoom /\ SmallFits(palloc)
        /\ PoolTakes([page |-> NextSmall(palloc), offset |-> BlockSize])
        /\ pool' = [pool EXCEPT !.chunks = Append(@, NextSmall(palloc)), !.next = 2 * BlockSize]
        /\ palloc' = TakeSmall(palloc)

PoolFree(block) ==
  /\ pool' = [pool EXCEPT !.free = <<block>> \o @]
  /\ poolLive' = poolLive \ {block}
  /\ UNCHANGED <<palloc, salloc, stackLive, largeLive, taken>>

\* Mutant: the walk over the list of pages stops at its last one.
PagesOfPool_ButLast == Front(pool.chunks)

\* The pages fdb_pool_alloc_flush walks over.
PagesOfPool == pool.chunks

\* fdb_pool_alloc_release, which flushes the pages, and the next fdb_pool_alloc_init.
PoolRelease ==
  /\ pool.chunks # <<>>
  /\ palloc' = FreeAll(palloc, PagesOfPool)
  /\ pool' = PoolInit
  /\ poolLive' = {}
  /\ UNCHANGED <<salloc, stackLive, largeLive, taken>>

---------------------------------------------------------------------------
(* fdb_stack_alloc_t.  Frames are pages of their own that list the         *)
(* addresses handed out; a list may be empty after a pop.                  *)

StackInit == [page |-> NULL, offset |-> 0, frames |-> <<>>]

\* The stack with a fresh data page, and with a fresh frame.
WithPage(a) == [p |-> TakeSmall(a.p), got |-> a.got \cup {NextSmall(a.p)},
                s |-> [a.s EXCEPT !.page = NextSmall(a.p), !.offset = 0]]
WithFrame(a) == [p |-> TakeSmall(a.p), got |-> a.got \cup {NextSmall(a.p)},
                 s |-> [a.s EXCEPT !.frames = Append(@, [page |-> NextSmall(a.p), entries |-> <<>>])]]

LastFrame(s) == s.frames[Len(s.frames)]
NeedsFrame(s) == s.frames = <<>> \/ Len(LastFrame(s).entries) = FrameMax

\* Mutant: the size of the block is left out.
NeedsPage_NoSize(s, size) == s.page = NULL \/ s.offset >= PageSize

NeedsPage(s, size) == s.page = NULL \/ s.offset + size >= PageSize

Push(a, size) ==
  LET addr == [page |-> a.s.page, offset |-> a.s.offset]
  IN [a EXCEPT !.s.frames[Len(a.s.frames)].entries = Append(@, addr), !.s.offset = @ + size]

\* fdb_stack_alloc_alloc: a new page when the block would not end before the end of this
\* one, a new frame when the last is full, and a new page at once when the block ends it.
StackAllocated(size) ==
  LET a0 == [p |-> palloc, s |-> salloc, got |-> {}]
      a1 == IF NeedsPage(salloc, size) THEN WithPage(a0) ELSE a0
      a2 == IF NeedsFrame(a1.s) THEN WithFrame(a1) ELSE a1
      a3 == Push(a2, size)
  IN IF a3.s.offset = PageSize THEN WithPage(a3) ELSE a3

StackAlloc(size) ==
  LET a == StackAllocated(size)
      addr == Last(LastFrame(a.s).entries)
  IN /\ Len(stackLive) < StackLive
     /\ Len(palloc.sfree) + palloc.ltop - palloc.stop >= 3   \* room for the pages it may take
     /\ palloc' = a.p
     /\ salloc' = a.s
     /\ taken' = taken \cup a.got
     /\ stackLive' = Append(stackLive, [page |-> addr.page, offset |-> addr.offset, size |-> size])
     /\ UNCHANGED <<pool, poolLive, largeLive>>

\* An empty frame goes back before the pop looks at the one before it.
WithoutEmptyFrame(a) ==
  IF LastFrame(a.s).entries # <<>> THEN a
  ELSE [p |-> Free(a.p, LastFrame(a.s).page), got |-> a.got \cup {LastFrame(a.s).page},
        s |-> [a.s EXCEPT !.frames = Front(@)]]

\* fdb_stack_alloc_pop: the place after the last block becomes the block that is popped; the
\* current page goes back when the block is not in it.
StackPopped ==
  LET a == WithoutEmptyFrame([p |-> palloc, s |-> salloc, got |-> {}])
      addr == Last(LastFrame(a.s).entries)
      popped == [a.s EXCEPT !.frames[Len(a.s.frames)].entries = Front(@),
                            !.page = addr.page, !.offset = addr.offset]
  IN IF a.s.page = addr.page THEN [a EXCEPT !.s = popped]
     ELSE [p |-> Free(a.p, a.s.page), got |-> a.got \cup {a.s.page}, s |-> popped]

StackPop ==
  /\ stackLive # <<>>
  /\ palloc' = StackPopped.p
  /\ salloc' = StackPopped.s
  /\ taken' = taken \ StackPopped.got
  /\ stackLive' = Front(stackLive)
  /\ UNCHANGED <<pool, poolLive, largeLive>>

\* The pages a walk frees that compares each with the last one observed.
Observed(pages) ==
  LET upto[n \in 0..Len(pages)] ==
        IF n = 0 THEN <<>>
        ELSE IF n > 1 /\ pages[n] = pages[n - 1] THEN upto[n - 1] ELSE Append(upto[n - 1], pages[n])
  IN upto[Len(pages)]

\* fdb_stack_alloc_flush: the walk over the frames, from the last, reads only the last
\* address of each; the page of that address goes back, and then the frames.
Flushed ==
  LET frames == IF salloc.frames # <<>> /\ LastFrame(salloc).entries = <<>>
                  THEN Front(salloc.frames) ELSE salloc.frames
  IN Observed(Reverse([i \in DOMAIN frames |-> Last(frames[i].entries).page]))
     \o Reverse([i \in DOMAIN salloc.frames |-> salloc.frames[i].page])

\* fdb_stack_alloc_release, and the next fdb_stack_alloc_init.
StackRelease ==
  /\ salloc.frames # <<>>
  /\ palloc' = FreeAll(palloc, Flushed)
  /\ salloc' = StackInit
  /\ stackLive' = <<>>
  /\ taken' = taken \ Range(Flushed)
  /\ UNCHANGED <<pool, poolLive, largeLive>>

---------------------------------------------------------------------------
LargeAlloc ==
  /\ LargeFits(palloc)
  /\ palloc' = TakeLarge(palloc)
  /\ largeLive' = largeLive \cup {NextLarge(palloc)}
  /\ UNCHANGED <<pool, poolLive, salloc, stackLive, taken>>

LargeFree(page) ==
  /\ palloc' = Free(palloc, page)
  /\ largeLive' = largeLive \ {page}
  /\ UNCHANGED <<pool, poolLive, salloc, stackLive, taken>>

Init ==
  /\ palloc = PageAllocInit
  /\ pool = PoolInit /\ poolLive = {}
  /\ salloc = StackInit /\ stackLive = <<>>
  /\ largeLive = {} /\ taken = {}

Next ==
  \/ PoolAlloc
  \/ \E block \in poolLive : PoolFree(block)
  \/ PoolRelease
  \/ \E size \in Sizes : StackAlloc(size)
  \/ StackPop
  \/ StackRelease
  \/ LargeAlloc
  \/ \E page \in largeLive : LargeFree(page)

Spec == Init /\ [][Next]_vars

---------------------------------------------------------------------------
Pages == 0..(RegionSize - 1)
Units(page) == page..(page + LargeSize - 1)

MemoryTypeOK ==
  /\ palloc.stop \in 0..RegionSize /\ palloc.ltop \in (-LargeSize)..RegionSize
  /\ Range(palloc.sfree) \cup Range(pool.chunks) \cup taken \subseteq Pages
  /\ largeLive \subseteq Pages
  /\ salloc.page \in Pages \cup {NULL} /\ salloc.offset \in 0..PageSize

\* No page serves two purposes: free small pages, the pool's, the stack's and the large
\* ones, in use or free, are all different parts of the region, and no list holds one twice.
PagesDisjoint ==
  LET large == largeLive \cup Range(palloc.lfree)
  IN /\ IsInjective(palloc.sfree) /\ IsInjective(palloc.lfree) /\ IsInjective(pool.chunks)
     /\ Range(palloc.sfree) \cap (Range(pool.chunks) \cup taken) = {}
     /\ Range(pool.chunks) \cap taken = {}
     /\ largeLive \cap Range(palloc.lfree) = {}
     /\ \A p \in large, q \in large : p = q \/ Units(p) \cap Units(q) = {}
     /\ \A p \in large : Units(p) \subseteq palloc.stop..(RegionSize - 1)

\* Every small page that was ever handed out is with the pool, with the stack or free:
\* releasing a pool gives back each of its pages.
NoPageLost ==
  Range(palloc.sfree) \cup Range(pool.chunks) \cup taken = 0..(palloc.stop - 1)

\* Every page has one owner, for as long as the program runs.
PagesSound == PagesDisjoint /\ NoPageLost

\* The pool's blocks lie whole inside its pages, behind the header, and what a client
\* holds is neither free nor handed to another.
PoolBlocksSound ==
  /\ \A b \in poolLive \cup Range(pool.free) :
       /\ b.page \in Range(pool.chunks)
       /\ b.offset >= BlockSize /\ b.offset % BlockSize = 0 /\ b.offset + BlockSize <= PageSize
  /\ poolLive \cap Range(pool.free) = {} /\ IsInjective(pool.free)
  /\ pool.chunks # <<>> =>
       Cardinality(poolLive) + Len(pool.free)
         = (Len(pool.chunks) - 1) * (PageSize \div BlockSize - 1) + (pool.next \div BlockSize - 1)

\* What the stack's clients hold never overlaps, lies inside pages of the stack, and is
\* what the frames list; after any allocations and pops the next block goes behind it.
StackBlocksSound ==
  LET listed == FlattenSeq([i \in DOMAIN salloc.frames |-> salloc.frames[i].entries])
  IN /\ [i \in DOMAIN stackLive |-> [page |-> stackLive[i].page, offset |-> stackLive[i].offset]] = listed
     /\ \A i \in DOMAIN stackLive : LET b == stackLive[i] IN
          /\ b.page \in taken /\ b.offset + b.size <= PageSize
          /\ \A j \in 1..(i - 1) : stackLive[j].page = b.page =>
               stackLive[j].offset + stackLive[j].size <= b.offset
          /\ b.page = salloc.page => b.offset + b.size <= salloc.offset
     /\ \A i \in DOMAIN salloc.frames : Len(salloc.frames[i].entries) <= FrameMax

\* stack_allocator.c of fdb_stack_alloc_flush: flushes all data allocated with the stack
\* allocator; a released stack has given back all its pages.
FlushReturnsAll == salloc = StackInit => taken = {}
===========================================================================
