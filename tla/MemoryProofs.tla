---------------------------- MODULE MemoryProofs ----------------------------
(***************************************************************************)
(* The allocators keep their pages and blocks apart, for any sizes and any *)
(* sequence of calls.  The pages do on their own: a page is taken that     *)
(* nobody has and given back by its owner (SmallSound, LargeSound).  What  *)
(* the pool owes is that blocks at the end of its last page were never     *)
(* handed out; what the stack owes is that its blocks change pages in the  *)
(* order they were allocated and never return to one, which is why a pop   *)
(* may give back the current page and a flush frees no page twice.         *)
(***************************************************************************)
EXTENDS Memory, FiniteSetTheorems, SequenceTheorems, WellFoundedInduction, TLAPS

PageAllocs == [stop : 0..RegionSize, ltop : Int, sfree : Seq(Pages), lfree : Seq(Pages)]
Places == [page : Pages, offset : 0..PageSize]
Frames == [page : Pages, entries : Seq(Places)]
Stacks == [page : Pages \cup {NULL}, offset : 0..PageSize, frames : Seq(Frames)]
Stacked == [page : Pages, offset : 0..PageSize, size : 1..PageSize]

\* The shape of the values; NULL is no page.
ShapeInv ==
  /\ palloc \in PageAllocs
  /\ pool \in [chunks : Seq(Pages), free : Seq(Places), next : Nat]
  /\ poolLive \in SUBSET Places /\ IsFiniteSet(poolLive)
  /\ salloc \in Stacks /\ stackLive \in Seq(Stacked)
  /\ largeLive \in SUBSET Pages /\ taken \in SUBSET Pages

\* Below p_stop lie the small pages: those in use and, once each, the free ones.
SmallSound(p, inUse) ==
  /\ IsInjective(p.sfree) /\ Range(p.sfree) \cap inUse = {}
  /\ Range(p.sfree) \cup inUse = 0..(p.stop - 1)

\* Above p_ltop lie the large ones, apart from each other.
LargeSound(p, live) ==
  /\ p.stop <= p.ltop + LargeSize /\ p.ltop + LargeSize <= RegionSize
  /\ IsInjective(p.lfree) /\ Range(p.lfree) \cap live = {}
  /\ \A page \in live \cup Range(p.lfree) :
       page >= p.ltop + LargeSize /\ page + LargeSize <= RegionSize
  /\ \A page, other \in live \cup Range(p.lfree) :
       page < other => page + LargeSize <= other

PageInv ==
  /\ SmallSound(palloc, Range(pool.chunks) \cup taken)
  /\ LargeSound(palloc, largeLive)
  /\ IsInjective(pool.chunks) /\ Range(pool.chunks) \cap taken = {}

\* Nothing at or behind m_next_free of the last page was ever handed out.
PoolInv ==
  /\ PoolBlocksSound
  /\ pool.chunks # <<>> =>
       /\ pool.next \in 0..PageSize /\ pool.next >= 2 * BlockSize /\ pool.next % BlockSize = 0
       /\ \A b \in poolLive \cup Range(pool.free) : b.page = Last(pool.chunks) => b.offset < pool.next

\* Where a block lies, as a frame lists it.
Place(b) == [page |-> b.page, offset |-> b.offset]

\* The addresses of one frame are those of the blocks behind the first so many.
Covers(entries, live, first) == \A j \in 1..Len(entries) : entries[j] = Place(live[first + j])

\* at says how many blocks are listed up to each frame.
Starts(at, frames, live) ==
  /\ at[0] = 0 /\ at[Len(frames)] = Len(live)
  /\ \A i \in 1..Len(frames) :
       at[i] = at[i - 1] + Len(frames[i].entries) /\ Covers(frames[i].entries, live, at[i - 1])

\* The frames list, one after the other, the places of the blocks in use.
Lists(frames, live) == \E at \in [0..Len(frames) -> 0..Len(live)] : Starts(at, frames, live)

\* Frames are pages of their own, and only the last may be empty.
FramesSound(s, live, pages) ==
  /\ Lists(s.frames, live)
  /\ s.page \in pages \cup {NULL} /\ (s.frames # <<>> => s.page # NULL)
  /\ \A i \in 1..Len(s.frames) :
       /\ s.frames[i].page \in pages /\ s.frames[i].page # s.page
       /\ Len(s.frames[i].entries) <= FrameMax
       /\ i < Len(s.frames) => s.frames[i].entries # <<>>
       /\ \A k \in 1..Len(live) : live[k].page # s.frames[i].page
       /\ \A k \in 1..Len(s.frames) : s.frames[k].page = s.frames[i].page => k = i

\* A page that was left is not returned to, and blocks lie in it one behind the other.
BlocksSound(s, live, pages) ==
  /\ \A i \in 1..Len(live) :
       /\ live[i].page \in pages
       /\ live[i].offset + live[i].size <= PageSize
       /\ live[i].page = s.page => live[i].offset + live[i].size <= s.offset
  /\ \A i, k \in 1..Len(live) : i < k =>
       /\ live[i].page = s.page => live[k].page = s.page
       /\ live[i].page = live[k].page =>
            /\ live[i].offset + live[i].size <= live[k].offset
            /\ \A j \in i..k : live[j].page = live[i].page

StackInv == FramesSound(salloc, stackLive, taken) /\ BlocksSound(salloc, stackLive, taken)

MemoryInv == ShapeInv /\ PageInv /\ PoolInv /\ StackInv

\* A set of numbers that is not empty has a least one.
LEMMA LeastNumber ==
  ASSUME NEW S \in SUBSET Nat, S # {}
  PROVE  \E n \in S : \A m \in S : n <= m
<1>1. PICK n \in S : \A m \in S : <<m, n>> \notin OpToRel(<, Nat)
  BY WFMin, NatLessThanWellFounded
<1>2. \A m \in S : ~(m < n)
  BY <1>1 DEF OpToRel
<1>3. QED
  BY <1>2

\* A set of numbers that holds zero and with a number the next one, up to last, holds all.
LEMMA CountingUp ==
  ASSUME NEW last \in Nat, NEW G, 0 \in G, \A n \in 0..(last - 1) : n \in G => n + 1 \in G
  PROVE  0..last \subseteq G
<1> SUFFICES ASSUME NEW n0 \in 0..last, n0 \notin G PROVE FALSE
  OBVIOUS
<1> DEFINE Bad == {n \in 0..last : n \notin G}
<1>1. PICK n \in Bad : \A m \in Bad : n <= m
  <2>1. Bad \in SUBSET Nat /\ Bad # {}
    OBVIOUS
  <2> HIDE DEF Bad
  <2>2. QED
    BY <2>1, LeastNumber
<1>2. n \in 0..last /\ n # 0 /\ n \notin G
  BY <1>1
<1>3. n - 1 \in 0..(last - 1) /\ n - 1 \notin Bad /\ (n - 1) + 1 = n
  BY <1>1, <1>2
<1>4. QED
  BY <1>2, <1>3

\* f is computed in steps from base.
Computes(f, base, step, last) == f[0] = base /\ \A i \in 1..last : f[i] = step[i][f[i - 1]]

\* What is computed step by step has a value after every number of steps.
LEMMA StepByStep ==
  ASSUME NEW last \in Nat, NEW S, NEW base \in S, NEW step \in [1..last -> [S -> S]]
  PROVE  \E f \in [0..last -> S] : Computes(f, base, step, last)
<1> DEFINE G == {n \in 0..last : \E f \in [0..n -> S] : Computes(f, base, step, n)}
<1>1. 0 \in G
  <2> DEFINE g == [i \in 0..0 |-> base]
  <2>1. g \in [0..0 -> S] /\ g[0] = base /\ 1..0 = {}
    OBVIOUS
  <2> HIDE DEF g
  <2>2. Computes(g, base, step, 0)
    BY <2>1 DEF Computes
  <2>3. QED
    BY <2>1, <2>2
<1>2. ASSUME NEW n \in 0..(last - 1), n \in G PROVE n + 1 \in G
  <2>1. PICK f \in [0..n -> S] : Computes(f, base, step, n)
    BY <1>2
  <2> DEFINE g == [i \in 0..(n + 1) |-> IF i <= n THEN f[i] ELSE step[n + 1][f[n]]]
  <2>2. step[n + 1][f[n]] \in S
    OBVIOUS
  <2>3. g \in [0..(n + 1) -> S]
    BY <2>2
  <2>4. g[0] = base
    BY <2>1 DEF Computes
  <2>5. ASSUME NEW i \in 1..(n + 1) PROVE g[i] = step[i][g[i - 1]]
    <3>1. i - 1 \in 0..n /\ g[i - 1] = f[i - 1]
      OBVIOUS
    <3>2. CASE i <= n
      BY <2>1, <3>1, <3>2 DEF Computes
    <3>3. CASE i = n + 1
      BY <3>1, <3>3
    <3>4. QED
      BY <3>2, <3>3
  <2>6. n + 1 \in 0..last
    OBVIOUS
  <2> HIDE DEF g
  <2>7. Computes(g, base, step, n + 1)
    BY <2>4, <2>5 DEF Computes
  <2>8. QED
    BY <2>3, <2>6, <2>7
<1>3. 0..last \subseteq G
  <2> HIDE DEF G
  <2>1. QED
    BY <1>1, <1>2, CountingUp
<1>4. QED
  BY <1>3

---------------------------------------------------------------------------
(* Lists of pages and blocks that hold nothing twice.                      *)

\* What is taken from the front of a free list is no longer in it.
LEMMA TakenFromFront ==
  ASSUME NEW S, NEW s \in Seq(S), s # <<>>, IsInjective(s)
  PROVE  /\ Head(s) \in S /\ Head(s) \in Range(s)
         /\ Tail(s) \in Seq(S) /\ IsInjective(Tail(s)) /\ Range(Tail(s)) = Range(s) \ {Head(s)}
<1>1. /\ Len(s) \in Nat \ {0} /\ DOMAIN s = 1..Len(s) /\ Head(s) = s[1]
      /\ Tail(s) \in Seq(S) /\ DOMAIN Tail(s) = 1..(Len(s) - 1)
      /\ \A i \in 1..(Len(s) - 1) : Tail(s)[i] = s[i + 1]
  OBVIOUS
<1>2. IsInjective(Tail(s))
  BY <1>1 DEF IsInjective
<1>3. Head(s) \in S /\ Head(s) \in Range(s)
  BY <1>1 DEF Range
<1>4. ASSUME NEW x \in Range(Tail(s)) PROVE x \in Range(s) \ {Head(s)}
  BY <1>1 DEF Range, IsInjective
<1>5. ASSUME NEW x \in Range(s) \ {Head(s)} PROVE x \in Range(Tail(s))
  <2>1. PICK i \in 1..Len(s) : x = s[i]
    BY <1>1 DEF Range
  <2>2. i - 1 \in 1..(Len(s) - 1) /\ Tail(s)[i - 1] = x
    BY <1>1, <1>5, <2>1
  <2>3. QED
    BY <1>1, <2>2 DEF Range
<1>6. QED
  BY <1>1, <1>2, <1>3, <1>4, <1>5

\* What is put in front of a free list was not in it.
LEMMA PutInFront ==
  ASSUME NEW S, NEW s \in Seq(S), NEW x \in S
  PROVE  /\ <<x>> \o s \in Seq(S) /\ Len(<<x>> \o s) = Len(s) + 1
         /\ Range(<<x>> \o s) = Range(s) \cup {x}
         /\ IsInjective(s) /\ x \notin Range(s) => IsInjective(<<x>> \o s)
<1> DEFINE z == <<x>> \o s
<1>1. /\ z \in Seq(S) /\ Len(z) = Len(s) + 1 /\ Len(s) \in Nat
      /\ DOMAIN z = 1..(Len(s) + 1) /\ DOMAIN s = 1..Len(s)
      /\ z[1] = x /\ \A i \in 1..Len(s) : z[i + 1] = s[i]
  OBVIOUS
<1> HIDE DEF z
<1>2. ASSUME NEW i \in 1..(Len(s) + 1), i # 1
      PROVE  i - 1 \in 1..Len(s) /\ z[i] = s[i - 1]
  BY <1>1, <1>2
<1>3. Range(z) = Range(s) \cup {x}
  <2>1. ASSUME NEW y \in Range(z) PROVE y \in Range(s) \cup {x}
    <3>1. PICK i \in 1..(Len(s) + 1) : y = z[i]
      BY <1>1 DEF Range
    <3>2. QED
      BY <1>1, <1>2, <3>1 DEF Range
  <2>2. ASSUME NEW y \in Range(s) \cup {x} PROVE y \in Range(z)
    BY <1>1 DEF Range
  <2>3. QED
    BY <2>1, <2>2
<1>4. ASSUME IsInjective(s), x \notin Range(s)
      PROVE  IsInjective(z)
  <2> SUFFICES ASSUME NEW i \in 1..(Len(s) + 1), NEW k \in 1..(Len(s) + 1), z[i] = z[k], i < k
               PROVE  FALSE
    BY <1>1 DEF IsInjective
  <2>1. k - 1 \in 1..Len(s) /\ z[k] = s[k - 1]
    BY <1>2
  <2>2. CASE i = 1
    BY <1>1, <1>4, <2>1, <2>2 DEF Range
  <2>3. CASE i # 1
    BY <1>1, <1>2, <1>4, <2>1, <2>3 DEF IsInjective
  <2>4. QED
    BY <2>2, <2>3
<1>5. QED
  BY <1>1, <1>3, <1>4 DEF z

\* What is added at the end of a list.
LEMMA PutAtEnd ==
  ASSUME NEW S, NEW s \in Seq(S), NEW x \in S
  PROVE  /\ Append(s, x) \in Seq(S) /\ Append(s, x) # <<>> /\ Last(Append(s, x)) = x
         /\ Len(Append(s, x)) = Len(s) + 1 /\ Range(Append(s, x)) = Range(s) \cup {x}
         /\ IsInjective(s) /\ x \notin Range(s) => IsInjective(Append(s, x))
<1> DEFINE z == Append(s, x)
<1>1. /\ z \in Seq(S) /\ Len(z) = Len(s) + 1 /\ Len(s) \in Nat
      /\ DOMAIN z = 1..(Len(s) + 1) /\ DOMAIN s = 1..Len(s)
      /\ z[Len(s) + 1] = x /\ \A i \in 1..Len(s) : z[i] = s[i]
  OBVIOUS
<1> HIDE DEF z
<1>2. Range(z) = Range(s) \cup {x}
  <2>1. ASSUME NEW y \in Range(z) PROVE y \in Range(s) \cup {x}
    BY <1>1 DEF Range
  <2>2. ASSUME NEW y \in Range(s) \cup {x} PROVE y \in Range(z)
    BY <1>1 DEF Range
  <2>3. QED
    BY <2>1, <2>2
<1>3. ASSUME IsInjective(s), x \notin Range(s)
      PROVE  IsInjective(z)
  BY <1>1, <1>3 DEF IsInjective, Range
<1>4. z # <<>> /\ Last(z) = x
  BY <1>1 DEF Last
<1>5. QED
  BY <1>1, <1>2, <1>3, <1>4 DEF z

\* Reading a list backwards.
LEMMA ReadBackwards ==
  ASSUME NEW S, NEW s \in Seq(S)
  PROVE  /\ Reverse(s) \in Seq(S) /\ Len(Reverse(s)) = Len(s) /\ Range(Reverse(s)) = Range(s)
         /\ \A i \in 1..Len(s) : Reverse(s)[i] = s[Len(s) - i + 1]
         /\ IsInjective(s) => IsInjective(Reverse(s))
<1> DEFINE z == Reverse(s)
<1>1. Len(s) \in Nat /\ DOMAIN s = 1..Len(s)
  OBVIOUS
<1>2. z = [i \in 1..Len(s) |-> s[(Len(s) - i) + 1]]
  BY DEF Reverse
<1>3. \A i \in 1..Len(s) : (Len(s) - i) + 1 \in 1..Len(s)
  BY <1>1
<1>4. z \in Seq(S) /\ Len(z) = Len(s) /\ DOMAIN z = 1..Len(s)
  BY <1>1, <1>2, <1>3
<1>5. \A i \in 1..Len(s) : z[i] = s[(Len(s) - i) + 1]
  BY <1>2
<1> HIDE DEF z
<1>6. Range(z) = Range(s)
  <2>1. ASSUME NEW y \in Range(z) PROVE y \in Range(s)
    BY <1>1, <1>3, <1>4, <1>5 DEF Range
  <2>2. ASSUME NEW y \in Range(s) PROVE y \in Range(z)
    <3>1. PICK i \in 1..Len(s) : y = s[i]
      BY <1>1 DEF Range
    <3>2. (Len(s) - i) + 1 \in 1..Len(s) /\ (Len(s) - ((Len(s) - i) + 1)) + 1 = i
      BY <1>1
    <3>3. QED
      BY <1>4, <1>5, <3>1, <3>2 DEF Range
  <2>3. QED
    BY <2>1, <2>2
<1>7. IsInjective(s) => IsInjective(z)
  BY <1>1, <1>3, <1>4, <1>5 DEF IsInjective
<1>8. QED
  BY <1>4, <1>5, <1>6, <1>7 DEF z

\* One list behind another.
LEMMA PutTogether ==
  ASSUME NEW S, NEW s \in Seq(S), NEW t \in Seq(S)
  PROVE  /\ s \o t \in Seq(S) /\ Range(s \o t) = Range(s) \cup Range(t)
         /\ IsInjective(s) /\ IsInjective(t) /\ Range(s) \cap Range(t) = {} => IsInjective(s \o t)
<1> DEFINE z == s \o t
<1>1. /\ z \in Seq(S) /\ Len(s) \in Nat /\ Len(t) \in Nat
      /\ DOMAIN z = 1..(Len(s) + Len(t)) /\ DOMAIN s = 1..Len(s) /\ DOMAIN t = 1..Len(t)
      /\ \A i \in 1..Len(s) : z[i] = s[i]
      /\ \A i \in (Len(s) + 1)..(Len(s) + Len(t)) : z[i] = t[i - Len(s)]
  OBVIOUS
<1>2. Range(z) = Range(s) \cup Range(t)
  BY RangeConcatenation
<1> HIDE DEF z
<1>3. ASSUME IsInjective(s), IsInjective(t), Range(s) \cap Range(t) = {}
      PROVE  IsInjective(z)
  <2> SUFFICES ASSUME NEW i \in 1..(Len(s) + Len(t)), NEW k \in 1..(Len(s) + Len(t)),
                      z[i] = z[k], i < k
               PROVE  FALSE
    BY <1>1 DEF IsInjective
  <2>1. CASE k <= Len(s)
    <3>1. i \in 1..Len(s) /\ k \in 1..Len(s) /\ i # k
      BY <1>1, <2>1
    <3>2. s[i] = s[k]
      BY <1>1, <3>1
    <3>3. QED
      BY <1>1, <1>3, <3>1, <3>2 DEF IsInjective
  <2>2. CASE i > Len(s)
    <3>1. i - Len(s) \in 1..Len(t) /\ k - Len(s) \in 1..Len(t) /\ i - Len(s) # k - Len(s)
      BY <1>1, <2>2
    <3>2. z[i] = t[i - Len(s)] /\ z[k] = t[k - Len(s)]
      BY <1>1, <2>2
    <3>3. QED
      BY <1>1, <1>3, <3>1, <3>2 DEF IsInjective
  <2>3. CASE i <= Len(s) /\ k > Len(s)
    <3>1. z[i] \in Range(s)
      BY <1>1, <2>3 DEF Range
    <3>2. k - Len(s) \in 1..Len(t) /\ z[k] = t[k - Len(s)]
      BY <1>1, <2>3
    <3>3. z[k] \in Range(t)
      BY <1>1, <3>2 DEF Range
    <3>4. QED
      BY <1>3, <3>1, <3>3
  <2>4. QED
    BY <1>1, <2>1, <2>2, <2>3
<1>4. QED
  BY <1>1, <1>2, <1>3 DEF z

---------------------------------------------------------------------------
(* The page allocator: what the others owe it and what it gives.           *)

\* The sizes are positive numbers.
LEMMA SizesArePositive ==
  /\ RegionSize \in Nat \ {0} /\ LargeSize \in Nat \ {0} /\ PageSize \in Nat \ {0}
  /\ BlockSize \in Nat \ {0} /\ FrameMax \in Nat \ {0}
  /\ 2 * BlockSize <= PageSize /\ Sizes \subseteq 1..PageSize
BY MemoryAssumption

\* Small pages that can still be taken.
Room(p) == Len(p.sfree) + p.ltop - p.stop

\* A small page that is taken was nobody's: not in use, and no part of a large page.
LEMMA TakesSmall ==
  ASSUME NEW p \in PageAllocs, NEW inUse, NEW live,
         SmallSound(p, inUse), LargeSound(p, live), SmallFits(p)
  PROVE  /\ NextSmall(p) \in Pages /\ NextSmall(p) \notin inUse
         /\ TakeSmall(p) \in PageAllocs
         /\ SmallSound(TakeSmall(p), inUse \cup {NextSmall(p)}) /\ LargeSound(TakeSmall(p), live)
         /\ Room(TakeSmall(p)) = Room(p) - 1
<1> USE SizesArePositive
<1>1. /\ p.stop \in 0..RegionSize /\ p.ltop \in Int /\ p.sfree \in Seq(Pages) /\ p.lfree \in Seq(Pages)
      /\ p.ltop <= RegionSize
  BY DEF PageAllocs, LargeSound
<1>2. CASE p.sfree = <<>>
  <2>1. p.stop < p.ltop /\ NextSmall(p) = p.stop /\ TakeSmall(p) = [p EXCEPT !.stop = p.stop + 1]
    BY <1>2 DEF SmallFits, NextSmall, TakeSmall
  <2>2. /\ TakeSmall(p) \in PageAllocs /\ p.stop \in Pages
        /\ TakeSmall(p).stop = p.stop + 1 /\ TakeSmall(p).ltop = p.ltop
        /\ TakeSmall(p).sfree = <<>> /\ TakeSmall(p).lfree = p.lfree
    <3>1. p.stop + 1 \in 0..RegionSize /\ p.stop \in Pages
      BY <1>1, <2>1, SMTT(30) DEF Pages
    <3>2. QED
      BY <1>2, <2>1, <3>1 DEF PageAllocs
  <2>3. Range(p.sfree) = {} /\ IsInjective(p.sfree)
    BY <1>2 DEF Range, IsInjective
  <2>4. inUse = 0..(p.stop - 1)
    BY <2>3 DEF SmallSound
  <2>5. SmallSound(TakeSmall(p), inUse \cup {p.stop})
    BY <1>1, <1>2, <2>2, <2>3, <2>4 DEF SmallSound
  <2>6. LargeSound(TakeSmall(p), live)
    BY <1>1, <2>1, <2>2, SMTT(30) DEF LargeSound
  <2>7. Room(TakeSmall(p)) = Room(p) - 1
    <3>1. TakeSmall(p).sfree = p.sfree /\ Len(p.sfree) \in Nat
      BY <1>1, <1>2, <2>2
    <3>2. QED
      BY <1>1, <2>2, <3>1 DEF Room
  <2>8. p.stop \notin inUse
    BY <1>1, <2>4
  <2>9. QED
    BY <2>1, <2>2, <2>5, <2>6, <2>7, <2>8
<1>3. CASE p.sfree # <<>>
  <2>1. NextSmall(p) = Head(p.sfree) /\ TakeSmall(p) = [p EXCEPT !.sfree = Tail(p.sfree)]
    BY <1>3 DEF NextSmall, TakeSmall
  <2>2. /\ Head(p.sfree) \in Pages /\ Head(p.sfree) \in Range(p.sfree) /\ Tail(p.sfree) \in Seq(Pages)
        /\ IsInjective(Tail(p.sfree)) /\ Range(Tail(p.sfree)) = Range(p.sfree) \ {Head(p.sfree)}
    BY <1>1, <1>3, TakenFromFront DEF SmallSound
  <2>3. /\ TakeSmall(p) \in PageAllocs
        /\ TakeSmall(p).stop = p.stop /\ TakeSmall(p).ltop = p.ltop
        /\ TakeSmall(p).sfree = Tail(p.sfree) /\ TakeSmall(p).lfree = p.lfree
    BY <2>1, <2>2 DEF PageAllocs
  <2>4. SmallSound(TakeSmall(p), inUse \cup {Head(p.sfree)})
    BY <2>2, <2>3 DEF SmallSound
  <2>5. LargeSound(TakeSmall(p), live)
    BY <2>3 DEF LargeSound
  <2>6. Len(Tail(p.sfree)) = Len(p.sfree) - 1 /\ Len(p.sfree) \in Nat
    BY <1>1, <1>3
  <2>7. Room(TakeSmall(p)) = Room(p) - 1
    BY <1>1, <2>3, <2>6 DEF Room
  <2>8. Head(p.sfree) \notin inUse
    BY <2>2 DEF SmallSound
  <2>9. QED
    BY <2>1, <2>2, <2>3, <2>4, <2>5, <2>7, <2>8
<1>4. QED
  BY <1>2, <1>3

\* There is room as long as the free pages and those between the two sides count.
LEMMA RoomFits ==
  ASSUME NEW p \in PageAllocs, Room(p) >= 1
  PROVE  SmallFits(p)
<1>1. p.sfree = <<>> => Len(p.sfree) = 0
  OBVIOUS
<1>2. QED
  BY <1>1 DEF SmallFits, Room, PageAllocs

\* A small page that is given back by its owner becomes a free small page.
LEMMA FreesSmall ==
  ASSUME NEW p \in PageAllocs, NEW inUse, NEW live, NEW page \in inUse,
         SmallSound(p, inUse), LargeSound(p, live)
  PROVE  /\ Free(p, page) \in PageAllocs
         /\ SmallSound(Free(p, page), inUse \ {page}) /\ LargeSound(Free(p, page), live)
<1> USE SizesArePositive
<1>1. /\ p.stop \in 0..RegionSize /\ p.ltop \in Int /\ p.sfree \in Seq(Pages) /\ p.lfree \in Seq(Pages)
  BY DEF PageAllocs
<1>2. page \in 0..(p.stop - 1) /\ page \notin Range(p.sfree)
  BY DEF SmallSound
<1>3. page \in Pages /\ page < p.stop
  BY <1>1, <1>2 DEF Pages
<1>4. Free(p, page) = [p EXCEPT !.sfree = <<page>> \o p.sfree]
  BY <1>3 DEF Free
<1>5. /\ <<page>> \o p.sfree \in Seq(Pages) /\ IsInjective(<<page>> \o p.sfree)
      /\ Range(<<page>> \o p.sfree) = Range(p.sfree) \cup {page}
  BY <1>1, <1>2, <1>3, PutInFront DEF SmallSound
<1>6. /\ Free(p, page) \in PageAllocs
      /\ Free(p, page).stop = p.stop /\ Free(p, page).ltop = p.ltop
      /\ Free(p, page).sfree = <<page>> \o p.sfree /\ Free(p, page).lfree = p.lfree
  BY <1>4, <1>5 DEF PageAllocs
<1>7. SmallSound(Free(p, page), inUse \ {page})
  BY <1>5, <1>6 DEF SmallSound
<1>8. LargeSound(Free(p, page), live)
  BY <1>6 DEF LargeSound
<1>9. QED
  BY <1>6, <1>7, <1>8

\* Whatever the state of the allocator, a page that is freed is put in front of a list.
LEMMA FreeKeepsShape ==
  ASSUME NEW p \in PageAllocs, NEW page \in Pages
  PROVE  Free(p, page) \in PageAllocs
<1>1. <<page>> \o p.sfree \in Seq(Pages) /\ <<page>> \o p.lfree \in Seq(Pages)
  BY PutInFront DEF PageAllocs
<1>2. QED
  BY <1>1 DEF Free, PageAllocs

\* The pages of a list are given back one after the other.
LEMMA FreeAllUnfolds ==
  ASSUME NEW p \in PageAllocs, NEW pages \in Seq(Pages)
  PROVE  \E f \in [0..Len(pages) -> PageAllocs] :
           /\ f[0] = p /\ \A i \in 1..Len(pages) : f[i] = Free(f[i - 1], pages[i])
           /\ FreeAll(p, pages) = f[Len(pages)]
<1> DEFINE last == Len(pages)
           Unfolds(g) == g = [n \in 0..last |-> IF n = 0 THEN p ELSE Free(g[n - 1], pages[n])]
           f == CHOOSE g : Unfolds(g)
           step == [i \in 1..last |-> [q \in PageAllocs |-> Free(q, pages[i])]]
<1>1. last \in Nat /\ \A i \in 1..last : pages[i] \in Pages
  OBVIOUS
<1> HIDE DEF last
<1>2. step \in [1..last -> [PageAllocs -> PageAllocs]]
  BY <1>1, FreeKeepsShape
<1>3. PICK h \in [0..last -> PageAllocs] : h[0] = p /\ \A i \in 1..last : h[i] = step[i][h[i - 1]]
  <2> HIDE DEF step
  <2>1. \E h \in [0..last -> PageAllocs] : Computes(h, p, step, last)
    BY <1>1, <1>2, StepByStep
  <2>2. QED
    BY <2>1 DEF Computes
<1>4. Unfolds(h)
  <2>1. ASSUME NEW n \in 0..last PROVE h[n] = IF n = 0 THEN p ELSE Free(h[n - 1], pages[n])
    <3>1. CASE n = 0
      BY <1>3, <3>1
    <3>2. CASE n # 0
      <4>1. n \in 1..last /\ n - 1 \in 0..last
        BY <1>1, <3>2
      <4>2. h[n - 1] \in PageAllocs
        BY <1>3, <4>1
      <4>3. QED
        BY <1>3, <3>2, <4>1, <4>2
    <3>3. QED
      BY <3>1, <3>2
  <2>2. h = [n \in 0..last |-> h[n]]
    BY <1>3
  <2>3. QED
    BY <2>1, <2>2, Zenon
<1>5. Unfolds(f)
  BY <1>4, Zenon
<1>6. FreeAll(p, pages) = f[last]
  BY Zenon DEF FreeAll, last
<1>7. f = [n \in 0..last |-> IF n = 0 THEN p ELSE Free(f[n - 1], pages[n])]
  BY <1>5
<1> HIDE DEF f, Unfolds
<1>8. /\ f[0] = p /\ \A i \in 1..last : f[i] = Free(f[i - 1], pages[i])
  BY <1>1, <1>7
<1>9. 0..last \subseteq {n \in 0..last : f[n] \in PageAllocs}
  <2>1. \A n \in 0..(last - 1) : f[n] \in PageAllocs => f[n + 1] \in PageAllocs
    BY <1>1, <1>8, FreeKeepsShape
  <2> DEFINE G == {n \in 0..last : f[n] \in PageAllocs}
  <2>2. 0 \in G /\ \A n \in 0..(last - 1) : n \in G => n + 1 \in G
    BY <1>1, <1>8, <2>1
  <2> HIDE DEF G
  <2>3. 0..last \subseteq G
    BY <1>1, <2>2, CountingUp
  <2>4. QED
    BY <2>3 DEF G
<1>10. f \in [0..last -> PageAllocs]
  BY <1>7, <1>9
<1>11. QED
  BY <1>6, <1>8, <1>10 DEF last

\* A list of small pages in use, each once, is given back whole: fdb_pool_alloc_flush and
\* fdb_stack_alloc_flush.
LEMMA FreesAll ==
  ASSUME NEW p \in PageAllocs, NEW inUse \in SUBSET Pages, NEW live,
         NEW pages \in Seq(inUse), IsInjective(pages),
         SmallSound(p, inUse), LargeSound(p, live)
  PROVE  /\ FreeAll(p, pages) \in PageAllocs
         /\ SmallSound(FreeAll(p, pages), inUse \ Range(pages))
         /\ LargeSound(FreeAll(p, pages), live)
<1> DEFINE last == Len(pages)
           Given(n) == {pages[i] : i \in 1..n}
<1>1. last \in Nat /\ DOMAIN pages = 1..last /\ pages \in Seq(Pages) /\ \A i \in 1..last : pages[i] \in inUse
  OBVIOUS
<1>2. PICK f \in [0..Len(pages) -> PageAllocs] :
        /\ f[0] = p /\ \A i \in 1..Len(pages) : f[i] = Free(f[i - 1], pages[i])
        /\ FreeAll(p, pages) = f[Len(pages)]
  BY <1>1, FreeAllUnfolds
<1> DEFINE G == {n \in 0..last : SmallSound(f[n], inUse \ Given(n)) /\ LargeSound(f[n], live)}
<1>3. 0 \in G
  <2>1. Given(0) = {}
    OBVIOUS
  <2>2. inUse \ Given(0) = inUse
    BY <2>1
  <2> HIDE DEF Given
  <2>3. f[0] = p /\ 0 \in 0..last
    BY <1>1, <1>2
  <2>4. QED
    BY <2>2, <2>3
<1>4. ASSUME NEW n \in 0..(last - 1), n \in G PROVE n + 1 \in G
  <2>1. n + 1 \in 1..last /\ n \in 0..last /\ n + 1 \in 0..last /\ (n + 1) - 1 = n
    BY <1>1
  <2>2. Given(n + 1) = Given(n) \cup {pages[n + 1]} /\ pages[n + 1] \notin Given(n)
    BY <1>1, <2>1 DEF IsInjective
  <2>3. pages[n + 1] \in inUse \ Given(n) /\ inUse \ Given(n + 1) = (inUse \ Given(n)) \ {pages[n + 1]}
    BY <1>1, <2>1, <2>2
  <2>4. f[n] \in PageAllocs /\ f[n + 1] = Free(f[n], pages[n + 1])
    BY <1>2, <2>1
  <2>5. SmallSound(f[n], inUse \ Given(n)) /\ LargeSound(f[n], live)
    BY <1>4
  <2> HIDE DEF Given
  <2>6. SmallSound(f[n + 1], inUse \ Given(n + 1)) /\ LargeSound(f[n + 1], live)
    BY <2>3, <2>4, <2>5, FreesSmall
  <2>7. QED
    BY <2>1, <2>6
<1>5. last \in G
  <2> HIDE DEF G, last
  <2>1. 0..last \subseteq G
    BY <1>1, <1>3, <1>4, CountingUp
  <2>2. QED
    BY <1>1, <2>1
<1>6. Given(last) = Range(pages)
  BY <1>1 DEF Range
<1>7. QED
  BY <1>1, <1>2, <1>5, <1>6

\* A large page that is taken overlaps no other and no small page.
LEMMA TakesLarge ==
  ASSUME NEW p \in PageAllocs, NEW inUse, NEW live \in SUBSET Pages,
         SmallSound(p, inUse), LargeSound(p, live), LargeFits(p)
  PROVE  /\ NextLarge(p) \in Pages /\ TakeLarge(p) \in PageAllocs
         /\ SmallSound(TakeLarge(p), inUse) /\ LargeSound(TakeLarge(p), live \cup {NextLarge(p)})
<1> USE SizesArePositive
<1>1. /\ p.stop \in 0..RegionSize /\ p.ltop \in Int /\ p.sfree \in Seq(Pages) /\ p.lfree \in Seq(Pages)
  BY DEF PageAllocs
<1>2. Range(p.lfree) \subseteq Pages
  BY <1>1, RangeOfSeq
<1>3. CASE p.lfree = <<>>
  <2>1. p.ltop > p.stop + 1 /\ NextLarge(p) = p.ltop /\ TakeLarge(p) = [p EXCEPT !.ltop = p.ltop - LargeSize]
    BY <1>3 DEF LargeFits, NextLarge, TakeLarge
  <2>2. p.ltop \in Pages
    <3>1. p.ltop + LargeSize <= RegionSize
      BY DEF LargeSound
    <3>2. p.ltop >= 0 /\ p.ltop <= RegionSize - 1
      BY <1>1, <2>1, <3>1, SMTT(30)
    <3>3. p.ltop \in 0..(RegionSize - 1)
      BY <1>1, <3>2
    <3>4. QED
      BY <3>3 DEF Pages
  <2>3. /\ TakeLarge(p) \in PageAllocs
        /\ TakeLarge(p).stop = p.stop /\ TakeLarge(p).ltop = p.ltop - LargeSize
        /\ TakeLarge(p).sfree = p.sfree /\ TakeLarge(p).lfree = p.lfree
    <3>1. p.ltop - LargeSize \in Int
      BY <1>1
    <3>2. QED
      BY <2>1, <3>1 DEF PageAllocs
  <2>4. SmallSound(TakeLarge(p), inUse)
    BY <2>3 DEF SmallSound
  <2>5. Range(p.lfree) = {} /\ IsInjective(p.lfree)
    BY <1>3 DEF Range, IsInjective
  <2>6. ASSUME NEW page \in live \cup {p.ltop}
        PROVE  page \in Int /\ page >= p.ltop /\ page + LargeSize <= RegionSize
    BY <1>1, <2>6 DEF LargeSound, Pages
  <2>7. ASSUME NEW page \in live \cup {p.ltop}, NEW other \in live \cup {p.ltop}, page < other
        PROVE  page + LargeSize <= other
    <3>1. CASE page \in live
      BY <1>1, <2>6, <2>7, <3>1 DEF LargeSound
    <3>2. CASE page = p.ltop
      <4>1. other \in live
        BY <1>1, <2>7, <3>2
      <4>2. QED
        BY <3>2, <4>1 DEF LargeSound
    <3>3. QED
      BY <3>1, <3>2
  <2>8. LargeSound(TakeLarge(p), live \cup {p.ltop})
    <3>1. p.stop <= (p.ltop - LargeSize) + LargeSize /\ (p.ltop - LargeSize) + LargeSize <= RegionSize
      BY <1>1, <2>1, <2>2, SMTT(30) DEF Pages
    <3>2. (p.ltop - LargeSize) + LargeSize = p.ltop
      BY <1>1
    <3>3. QED
      BY <2>3, <2>5, <2>6, <2>7, <3>1, <3>2 DEF LargeSound
  <2>9. QED
    BY <2>1, <2>2, <2>3, <2>4, <2>8
<1>4. CASE p.lfree # <<>>
  <2>1. NextLarge(p) = Head(p.lfree) /\ TakeLarge(p) = [p EXCEPT !.lfree = Tail(p.lfree)]
    BY <1>4 DEF NextLarge, TakeLarge
  <2>2. /\ Head(p.lfree) \in Pages /\ Head(p.lfree) \in Range(p.lfree) /\ Tail(p.lfree) \in Seq(Pages)
        /\ IsInjective(Tail(p.lfree)) /\ Range(Tail(p.lfree)) = Range(p.lfree) \ {Head(p.lfree)}
    BY <1>1, <1>4, TakenFromFront DEF LargeSound
  <2>3. /\ TakeLarge(p) \in PageAllocs
        /\ TakeLarge(p).stop = p.stop /\ TakeLarge(p).ltop = p.ltop
        /\ TakeLarge(p).sfree = p.sfree /\ TakeLarge(p).lfree = Tail(p.lfree)
    BY <2>1, <2>2 DEF PageAllocs
  <2>4. SmallSound(TakeLarge(p), inUse)
    BY <2>3 DEF SmallSound
  <2>5. (live \cup {Head(p.lfree)}) \cup Range(Tail(p.lfree)) = live \cup Range(p.lfree)
    BY <2>2
  <2>6. LargeSound(TakeLarge(p), live \cup {Head(p.lfree)})
    BY <2>2, <2>3, <2>5 DEF LargeSound
  <2>7. QED
    BY <2>1, <2>2, <2>3, <2>4, <2>6
<1>5. QED
  BY <1>3, <1>4

\* A large page that is given back is told from the small ones by its address.
LEMMA FreesLarge ==
  ASSUME NEW p \in PageAllocs, NEW inUse, NEW live \in SUBSET Pages, NEW page \in live,
         SmallSound(p, inUse), LargeSound(p, live)
  PROVE  /\ Free(p, page) \in PageAllocs
         /\ SmallSound(Free(p, page), inUse) /\ LargeSound(Free(p, page), live \ {page})
<1> USE SizesArePositive
<1>1. /\ p.stop \in 0..RegionSize /\ p.ltop \in Int /\ p.sfree \in Seq(Pages) /\ p.lfree \in Seq(Pages)
      /\ page \in Pages /\ page \in Int
  BY DEF PageAllocs, Pages
<1>2. page >= p.stop
  BY <1>1 DEF LargeSound
<1>3. Free(p, page) = [p EXCEPT !.lfree = <<page>> \o p.lfree]
  BY <1>1, <1>2 DEF Free
<1>4. /\ <<page>> \o p.lfree \in Seq(Pages) /\ IsInjective(<<page>> \o p.lfree)
      /\ Range(<<page>> \o p.lfree) = Range(p.lfree) \cup {page}
  BY <1>1, PutInFront DEF LargeSound
<1>5. /\ Free(p, page) \in PageAllocs
      /\ Free(p, page).stop = p.stop /\ Free(p, page).ltop = p.ltop
      /\ Free(p, page).sfree = p.sfree /\ Free(p, page).lfree = <<page>> \o p.lfree
  BY <1>3, <1>4 DEF PageAllocs
<1>6. SmallSound(Free(p, page), inUse)
  BY <1>5 DEF SmallSound
<1>7. (live \ {page}) \cup Range(<<page>> \o p.lfree) = live \cup Range(p.lfree)
  BY <1>4
<1>8. Range(<<page>> \o p.lfree) \cap (live \ {page}) = {}
  BY <1>4 DEF LargeSound
<1>9. LargeSound(Free(p, page), live \ {page})
  BY <1>4, <1>5, <1>7, <1>8 DEF LargeSound
<1>10. QED
  BY <1>5, <1>6, <1>9

---------------------------------------------------------------------------
(* The walk of fdb_stack_alloc_flush.                                      *)

\* The list of observed pages grows step by step.
LEMMA ObservedUnfolds ==
  ASSUME NEW T, NEW pages \in Seq(T)
  PROVE  \E f : /\ f[0] = <<>> /\ Observed(pages) = f[Len(pages)]
               /\ \A i \in 1..Len(pages) :
                    f[i] = IF i > 1 /\ pages[i] = pages[i - 1] THEN f[i - 1]
                           ELSE Append(f[i - 1], pages[i])
<1> DEFINE last == Len(pages)
           Next1(q, i) == IF i > 1 /\ pages[i] = pages[i - 1] THEN q ELSE Append(q, pages[i])
           Unfolds(g) == g = [n \in 0..last |->
                                IF n = 0 THEN <<>>
                                ELSE IF n > 1 /\ pages[n] = pages[n - 1] THEN g[n - 1]
                                     ELSE Append(g[n - 1], pages[n])]
           f == CHOOSE g : Unfolds(g)
           step == [i \in 1..last |-> [q \in Seq(T) |-> Next1(q, i)]]
<1>1. last \in Nat /\ \A i \in 1..last : pages[i] \in T
  OBVIOUS
<1> HIDE DEF last
<1>2. \A i \in 1..last : \A q \in Seq(T) : Next1(q, i) \in Seq(T)
  BY <1>1
<1>3. step \in [1..last -> [Seq(T) -> Seq(T)]]
  BY <1>2
<1>4. PICK h \in [0..last -> Seq(T)] : h[0] = <<>> /\ \A i \in 1..last : h[i] = step[i][h[i - 1]]
  <2> HIDE DEF step
  <2>1. <<>> \in Seq(T)
    OBVIOUS
  <2>2. \E h \in [0..last -> Seq(T)] : Computes(h, <<>>, step, last)
    BY <1>1, <1>3, <2>1, StepByStep
  <2>3. QED
    BY <2>2 DEF Computes
<1>5. Unfolds(h)
  <2>1. ASSUME NEW n \in 0..last
        PROVE  h[n] = IF n = 0 THEN <<>>
                      ELSE IF n > 1 /\ pages[n] = pages[n - 1] THEN h[n - 1]
                           ELSE Append(h[n - 1], pages[n])
    <3>1. CASE n = 0
      BY <1>4, <3>1
    <3>2. CASE n # 0
      <4>1. n \in 1..last /\ n - 1 \in 0..last
        BY <1>1, <3>2
      <4>2. h[n - 1] \in Seq(T)
        BY <1>4, <4>1
      <4>3. h[n] = Next1(h[n - 1], n)
        BY <1>4, <4>1, <4>2
      <4>4. QED
        BY <3>2, <4>3
    <3>3. QED
      BY <3>1, <3>2
  <2>2. h = [n \in 0..last |-> h[n]]
    BY <1>4
  <2>3. QED
    BY <2>1, <2>2, Zenon
<1>6. Unfolds(f)
  BY <1>5, Zenon
<1>7. Observed(pages) = f[last]
  BY ZenonT(30) DEF Observed, last
<1>8. f = [n \in 0..last |-> IF n = 0 THEN <<>>
                           ELSE IF n > 1 /\ pages[n] = pages[n - 1] THEN f[n - 1]
                                ELSE Append(f[n - 1], pages[n])]
  BY <1>6
<1> HIDE DEF f, Unfolds
<1>9. f[0] = <<>> /\ \A i \in 1..last :
        f[i] = IF i > 1 /\ pages[i] = pages[i - 1] THEN f[i - 1] ELSE Append(f[i - 1], pages[i])
  <2>1. f[0] = <<>>
    BY <1>1, <1>8
  <2>2. ASSUME NEW i \in 1..last
        PROVE  f[i] = IF i > 1 /\ pages[i] = pages[i - 1] THEN f[i - 1] ELSE Append(f[i - 1], pages[i])
    <3>1. i \in 0..last /\ i # 0
      BY <1>1
    <3>2. QED
      BY <1>8, <3>1
  <2>3. QED
    BY <2>1, <2>2
<1>10. QED
  BY <1>7, <1>9 DEF last

\* No page that was left is returned to.
Grouped(pages) ==
  \A i, j, k \in 1..Len(pages) : i < j /\ j < k /\ pages[i] = pages[k] => pages[j] = pages[i]

\* So that comparing with the last one observed is enough to free each page once.
LEMMA ObservesOnce ==
  ASSUME NEW T, NEW pages \in Seq(T), Grouped(pages)
  PROVE  /\ Observed(pages) \in Seq(T) /\ IsInjective(Observed(pages))
         /\ Range(Observed(pages)) = Range(pages)
<1> DEFINE last == Len(pages)
           Upto(n) == {pages[i] : i \in 1..n}
<1>1. last \in Nat /\ DOMAIN pages = 1..last /\ \A i \in 1..last : pages[i] \in T
  OBVIOUS
<1>2. PICK f : /\ f[0] = <<>> /\ Observed(pages) = f[last]
               /\ \A i \in 1..last :
                    f[i] = IF i > 1 /\ pages[i] = pages[i - 1] THEN f[i - 1]
                           ELSE Append(f[i - 1], pages[i])
  BY ObservedUnfolds
<1> DEFINE Right(n) == f[n] \in Seq(T) /\ IsInjective(f[n]) /\ Range(f[n]) = Upto(n)
           G == {n \in 0..last : Right(n)}
<1>3. 0 \in G
  <2>1. Upto(0) = {} /\ Range(<<>>) = {} /\ IsInjective(<<>>) /\ <<>> \in Seq(T)
    BY DEF Range, IsInjective
  <2> HIDE DEF Upto
  <2>2. f[0] = <<>> /\ 0 \in 0..last
    BY <1>1, <1>2
  <2>3. Right(0)
    BY <2>1, <2>2
  <2>4. QED
    BY <2>2, <2>3
<1>4. ASSUME NEW n \in 0..(last - 1), n \in G PROVE n + 1 \in G
  <2>1. n + 1 \in 1..last /\ n + 1 \in 0..last /\ (n + 1) - 1 = n
    BY <1>1
  <2>2. Upto(n + 1) = Upto(n) \cup {pages[n + 1]}
    BY <1>1, <2>1
  <2>3. Right(n) /\ pages[n + 1] \in T
    BY <1>1, <1>4, <2>1
  <2>4. CASE n + 1 > 1 /\ pages[n + 1] = pages[n]
    <3>1. f[n + 1] = f[n]
      BY <1>2, <2>1, <2>4
    <3>2. pages[n + 1] \in Upto(n)
      BY <2>4
    <3> HIDE DEF Upto
    <3>3. QED
      BY <2>1, <2>2, <2>3, <3>1, <3>2
  <2>5. CASE ~(n + 1 > 1 /\ pages[n + 1] = pages[n])
    <3>1. f[n + 1] = Append(f[n], pages[n + 1])
      BY <1>2, <2>1, <2>5
    <3>2. pages[n + 1] \notin Upto(n)
      <4> SUFFICES ASSUME NEW i \in 1..n, pages[i] = pages[n + 1] PROVE FALSE
        OBVIOUS
      <4>1. i # n /\ i < n /\ n < n + 1 /\ i \in 1..last /\ n \in 1..last
        BY <1>1, <2>1, <2>5
      <4>2. QED
        BY <2>1, <2>5, <4>1 DEF Grouped
    <3> HIDE DEF Upto
    <3>3. f[n] \in Seq(T) /\ IsInjective(f[n]) /\ Range(f[n]) = Upto(n) /\ pages[n + 1] \notin Range(f[n])
      BY <2>3, <3>2
    <3>4. /\ Append(f[n], pages[n + 1]) \in Seq(T) /\ IsInjective(Append(f[n], pages[n + 1]))
          /\ Range(Append(f[n], pages[n + 1])) = Upto(n) \cup {pages[n + 1]}
      BY <2>3, <3>3, PutAtEnd
    <3>5. Right(n + 1)
      BY <2>2, <3>1, <3>4
    <3>6. QED
      BY <2>1, <3>5
  <2>6. QED
    BY <2>4, <2>5
<1>5. last \in G
  <2> HIDE DEF G, last
  <2>1. 0..last \subseteq G
    BY <1>1, <1>3, <1>4, CountingUp
  <2>2. QED
    BY <1>1, <2>1
<1>6. Upto(last) = Range(pages)
  BY <1>1 DEF Range
<1>7. QED
  BY <1>2, <1>5, <1>6

---------------------------------------------------------------------------
(* The pool.                                                               *)

\* Quotient and remainder are unique.
LEMMA DivisionUnique ==
  ASSUME NEW s \in Nat \ {0}, NEW q \in Nat, NEW r \in 0..(s - 1)
  PROVE  (s * q + r) \div s = q /\ (s * q + r) % s = r
OBVIOUS

\* Dividing a natural number leaves a quotient and a remainder.
LEMMA Division ==
  ASSUME NEW s \in Nat \ {0}, NEW a \in Nat
  PROVE  a \div s \in Nat /\ a % s \in 0..(s - 1) /\ a = s * (a \div s) + (a % s)
OBVIOUS

\* Multiples of the size of a block.
LEMMA Multiples ==
  ASSUME NEW s \in Nat \ {0}, NEW a \in Nat, a % s = 0
  PROVE  (a + s) % s = 0 /\ (a + s) \div s = a \div s + 1 /\ a \div s \in Nat
<1> DEFINE q == a \div s
<1>1. q \in Nat /\ a = s * q
  BY Division
<1> HIDE DEF q
<1>2. a + s = s * (q + 1) + 0
  BY <1>1
<1>3. q + 1 \in Nat /\ 0 \in 0..(s - 1)
  BY <1>1
<1>4. (s * (q + 1) + 0) \div s = q + 1 /\ (s * (q + 1) + 0) % s = 0
  BY <1>3, DivisionUnique
<1>5. QED
  BY <1>1, <1>2, <1>4 DEF q

\* A page holds no more blocks than up to the last multiple in it.
LEMMA LastMultiple ==
  ASSUME NEW s \in Nat \ {0}, NEW a \in Nat, a % s = 0, NEW size \in Nat, a <= size, size < a + s
  PROVE  size \div s = a \div s
OBVIOUS

\* The header and the first block.
LEMMA SmallMultiples ==
  ASSUME NEW s \in Nat \ {0}
  PROVE  s % s = 0 /\ (2 * s) % s = 0 /\ (2 * s) \div s = 2
OBVIOUS

\* What only the pool reads.
LEMMA PoolUntouched == PoolInv /\ UNCHANGED <<pool, poolLive>> => PoolInv'
  BY DEF PoolInv, PoolBlocksSound

\* What only the stack reads.
LEMMA StackUntouched == StackInv /\ UNCHANGED <<salloc, stackLive, taken>> => StackInv'
  BY DEF StackInv

\* A free block is handed out again.
LEMMA PoolAllocFree ==
  ASSUME MemoryInv, PoolHasFree, PoolTakes(Head(pool.free)),
         pool' = [pool EXCEPT !.free = Tail(@)],
         UNCHANGED <<palloc, salloc, stackLive, largeLive, taken>>
  PROVE  MemoryInv'
<1> DEFINE b == Head(pool.free)
<1>1. /\ ShapeInv /\ PageInv /\ PoolInv /\ StackInv
      /\ pool.free \in Seq(Places) /\ pool.free # <<>> /\ pool.chunks \in Seq(Pages) /\ pool.next \in Nat
  BY DEF MemoryInv, ShapeInv, PoolHasFree
<1>2. /\ b \in Places /\ b \in Range(pool.free) /\ Tail(pool.free) \in Seq(Places)
      /\ IsInjective(Tail(pool.free)) /\ Range(Tail(pool.free)) = Range(pool.free) \ {b}
      /\ Len(Tail(pool.free)) = Len(pool.free) - 1 /\ Len(pool.free) \in Nat
  BY <1>1, TakenFromFront DEF PoolInv, PoolBlocksSound
<1>3. /\ pool'.chunks = pool.chunks /\ pool'.next = pool.next /\ pool'.free = Tail(pool.free)
      /\ poolLive' = poolLive \cup {b}
      /\ pool' \in [chunks : Seq(Pages), free : Seq(Places), next : Nat]
  BY <1>1, <1>2 DEF ShapeInv, PoolTakes
<1>4. b \notin poolLive /\ IsFiniteSet(poolLive) /\ poolLive \subseteq Places
  BY <1>1, <1>2 DEF PoolInv, PoolBlocksSound, ShapeInv
<1>5. IsFiniteSet(poolLive') /\ Cardinality(poolLive') = Cardinality(poolLive) + 1 /\ Cardinality(poolLive) \in Nat
  BY <1>3, <1>4, FS_AddElement, FS_CardinalityType
<1>6. ShapeInv'
  BY <1>1, <1>2, <1>3, <1>4, <1>5 DEF ShapeInv
<1>7. PageInv'
  BY <1>1, <1>3 DEF PageInv
<1>8. poolLive' \cup Range(pool'.free) = poolLive \cup Range(pool.free)
  BY <1>2, <1>3
<1>9. PoolInv'
  <2>1. poolLive' \cap Range(pool'.free) = {}
    BY <1>1, <1>2, <1>3 DEF PoolInv, PoolBlocksSound
  <2>2. Cardinality(poolLive') + Len(pool'.free) = Cardinality(poolLive) + Len(pool.free)
    BY <1>2, <1>3, <1>5
  <2>3. PoolBlocksSound'
    BY <1>1, <1>2, <1>3, <1>8, <2>1, <2>2 DEF PoolInv, PoolBlocksSound
  <2>4. QED
    BY <1>1, <1>3, <1>8, <2>3 DEF PoolInv
<1>10. StackInv'
  BY <1>1, StackUntouched
<1>11. QED
  BY <1>6, <1>7, <1>9, <1>10 DEF MemoryInv

\* The next block of the last page was never handed out.
LEMMA PoolAllocNext ==
  ASSUME MemoryInv, ~PoolHasFree, PoolHasRoom,
         PoolTakes([page |-> Last(pool.chunks), offset |-> pool.next]),
         pool' = [pool EXCEPT !.next = @ + BlockSize],
         UNCHANGED <<palloc, salloc, stackLive, largeLive, taken>>
  PROVE  MemoryInv'
<1> USE SizesArePositive
<1> DEFINE b == [page |-> Last(pool.chunks), offset |-> pool.next]
<1>1. /\ ShapeInv /\ PageInv /\ PoolInv /\ StackInv
      /\ pool.free = <<>> /\ pool.chunks \in Seq(Pages) /\ pool.chunks # <<>>
      /\ pool.next \in Nat /\ pool.next + BlockSize <= PageSize
      /\ IsFiniteSet(poolLive) /\ poolLive \subseteq Places
  BY DEF MemoryInv, ShapeInv, PoolHasFree, PoolHasRoom
<1>2. /\ pool'.chunks = pool.chunks /\ pool'.next = pool.next + BlockSize /\ pool'.free = pool.free
      /\ poolLive' = poolLive \cup {b}
      /\ pool' \in [chunks : Seq(Pages), free : Seq(Places), next : Nat]
  <2>1. pool.next + BlockSize \in Nat
    BY <1>1
  <2>2. QED
    BY <1>1, <2>1 DEF ShapeInv, PoolTakes
<1>3. Last(pool.chunks) \in Range(pool.chunks) /\ Last(pool.chunks) \in Pages
  <2>1. Len(pool.chunks) \in 1..Len(pool.chunks) /\ DOMAIN pool.chunks = 1..Len(pool.chunks)
    BY <1>1
  <2>2. QED
    BY <1>1, <2>1 DEF Last, Range
<1>4. /\ b \in Places /\ b.page = Last(pool.chunks) /\ b.offset = pool.next
  <2>1. pool.next \in 0..PageSize
    BY <1>1
  <2>2. QED
    BY <1>3, <2>1 DEF Places
<1>5. /\ pool.next >= 2 * BlockSize /\ pool.next % BlockSize = 0
      /\ \A x \in poolLive \cup Range(pool.free) : x.page = Last(pool.chunks) => x.offset < pool.next
  BY <1>1 DEF PoolInv
<1> HIDE DEF b
<1>6. b \notin poolLive \cup Range(pool.free)
  BY <1>1, <1>4, <1>5
<1>7. IsFiniteSet(poolLive') /\ Cardinality(poolLive') = Cardinality(poolLive) + 1 /\ Cardinality(poolLive) \in Nat
  BY <1>1, <1>2, <1>6, FS_AddElement, FS_CardinalityType
<1>8. ShapeInv'
  BY <1>1, <1>2, <1>4, <1>7 DEF ShapeInv
<1>9. PageInv'
  BY <1>1, <1>2 DEF PageInv
<1>10. Range(pool.free) = {}
  BY <1>1 DEF Range
<1>11. PoolBlocksSound'
  <2>1. ASSUME NEW x \in poolLive' \cup Range(pool'.free)
        PROVE  /\ x.page \in Range(pool.chunks)
               /\ x.offset >= BlockSize /\ x.offset % BlockSize = 0 /\ x.offset + BlockSize <= PageSize
    <3>1. CASE x = b
      BY <1>1, <1>3, <1>4, <1>5, <3>1
    <3>2. CASE x # b
      BY <1>1, <1>2, <3>2 DEF PoolInv, PoolBlocksSound
    <3>3. QED
      BY <3>1, <3>2
  <2>2. poolLive' \cap Range(pool'.free) = {}
    BY <1>2, <1>10
  <2>3. (pool.next + BlockSize) \div BlockSize = pool.next \div BlockSize + 1 /\ pool.next \div BlockSize \in Nat
    BY <1>1, <1>5, Multiples
  <2>4. Cardinality(poolLive) + Len(pool.free)
          = (Len(pool.chunks) - 1) * (PageSize \div BlockSize - 1) + (pool.next \div BlockSize - 1)
    BY <1>1 DEF PoolInv, PoolBlocksSound
  <2>5. Cardinality(poolLive') + Len(pool'.free)
          = (Len(pool'.chunks) - 1) * (PageSize \div BlockSize - 1) + (pool'.next \div BlockSize - 1)
    <3> DEFINE full == (Len(pool.chunks) - 1) * (PageSize \div BlockSize - 1)
    <3>1. full \in Int
      <4>1. Len(pool.chunks) \in Nat /\ PageSize \div BlockSize \in Nat
        <5>1. BlockSize \in Nat \ {0} /\ PageSize \in Nat /\ Len(pool.chunks) \in Nat
          BY <1>1
        <5>2. QED
          BY <5>1, Division
      <4>2. QED
        BY <4>1
    <3> HIDE DEF full
    <3>2. Cardinality(poolLive') + Len(pool'.free) = full + (pool'.next \div BlockSize - 1)
      <4>1. Len(pool.free) = 0
        BY <1>1
      <4>2. Cardinality(poolLive) + Len(pool.free) = full + (pool.next \div BlockSize - 1)
        BY <2>4 DEF full
      <4>3. QED
        BY <1>2, <1>7, <2>3, <3>1, <4>1, <4>2, SMTT(30)
    <3>3. QED
      BY <1>2, <3>2 DEF full
  <2>6. IsInjective(pool'.free)
    BY <1>1, <1>2 DEF PoolInv, PoolBlocksSound
  <2>7. QED
    BY <1>2, <2>1, <2>2, <2>5, <2>6 DEF PoolBlocksSound
<1>12. PoolInv'
  <2>1. pool'.next \in 0..PageSize /\ pool'.next >= 2 * BlockSize /\ pool'.next % BlockSize = 0
    BY <1>1, <1>2, <1>5, Multiples
  <2>2. ASSUME NEW x \in poolLive' \cup Range(pool'.free), x.page = Last(pool.chunks)
        PROVE  x.offset < pool'.next
    <3>1. CASE x = b
      BY <1>1, <1>2, <1>4, <3>1
    <3>2. CASE x # b
      <4>1. x \in poolLive /\ x.offset < pool.next /\ x.offset \in Int
        BY <1>1, <1>2, <1>5, <1>10, <2>2, <3>2 DEF Places
      <4>2. QED
        BY <1>1, <1>2, <4>1
    <3>3. QED
      BY <3>1, <3>2
  <2>3. QED
    BY <1>2, <1>11, <2>1, <2>2 DEF PoolInv
<1>13. StackInv'
  BY <1>1, StackUntouched
<1>14. QED
  BY <1>8, <1>9, <1>12, <1>13 DEF MemoryInv

\* A new page is nobody's, so that its blocks are new; the pages before it are full.
LEMMA PoolAllocPage ==
  ASSUME MemoryInv, ~PoolHasFree, ~PoolHasRoom, SmallFits(palloc),
         PoolTakes([page |-> NextSmall(palloc), offset |-> BlockSize]),
         pool' = [pool EXCEPT !.chunks = Append(@, NextSmall(palloc)), !.next = 2 * BlockSize],
         palloc' = TakeSmall(palloc),
         UNCHANGED <<salloc, stackLive, largeLive, taken>>
  PROVE  MemoryInv'
<1> USE SizesArePositive
<1> DEFINE page == NextSmall(palloc)
           b == [page |-> page, offset |-> BlockSize]
           chunks == Append(pool.chunks, page)
<1>1. /\ ShapeInv /\ PageInv /\ PoolInv /\ StackInv
      /\ pool.free = <<>> /\ pool.chunks \in Seq(Pages)
      /\ pool.next \in Nat /\ (pool.chunks # <<>> => pool.next + BlockSize > PageSize)
      /\ IsFiniteSet(poolLive) /\ poolLive \subseteq Places /\ palloc \in PageAllocs
  BY DEF MemoryInv, ShapeInv, PoolHasFree, PoolHasRoom
<1>2. /\ page \in Pages /\ page \notin Range(pool.chunks) \cup taken /\ palloc' \in PageAllocs
      /\ SmallSound(palloc', (Range(pool.chunks) \cup taken) \cup {page}) /\ LargeSound(palloc', largeLive)
  BY <1>1, TakesSmall DEF PageInv
<1> HIDE DEF page
<1>3. /\ chunks \in Seq(Pages) /\ chunks # <<>> /\ Last(chunks) = page /\ Len(chunks) = Len(pool.chunks) + 1
      /\ Range(chunks) = Range(pool.chunks) \cup {page} /\ IsInjective(chunks)
  BY <1>1, <1>2, PutAtEnd, SMTT(30) DEF PageInv
<1> HIDE DEF chunks
<1>4. /\ pool'.chunks = chunks /\ pool'.next = 2 * BlockSize /\ pool'.free = <<>>
      /\ poolLive' = poolLive \cup {b}
      /\ pool' \in [chunks : Seq(Pages), free : Seq(Places), next : Nat]
  <2>1. 2 * BlockSize \in Nat /\ pool.free \in Seq(Places)
    BY <1>1 DEF ShapeInv
  <2>2. pool' = [pool EXCEPT !.chunks = chunks, !.next = 2 * BlockSize]
    BY DEF chunks, page
  <2>3. poolLive' = poolLive \cup {b}
    BY DEF PoolTakes, page
  <2>4. QED
    BY <1>1, <1>3, <2>1, <2>2, <2>3 DEF ShapeInv
<1>5. b \in Places /\ b.page = page /\ b.offset = BlockSize
  BY <1>2 DEF Places
<1> HIDE DEF b
<1>6. \A x \in poolLive : x.page \in Range(pool.chunks)
  BY <1>1 DEF PoolInv, PoolBlocksSound
<1>7. b \notin poolLive
  BY <1>2, <1>5, <1>6
<1>8. IsFiniteSet(poolLive') /\ Cardinality(poolLive') = Cardinality(poolLive) + 1 /\ Cardinality(poolLive) \in Nat
  BY <1>1, <1>4, <1>7, FS_AddElement, FS_CardinalityType
<1>9. ShapeInv'
  BY <1>1, <1>2, <1>4, <1>5, <1>8 DEF ShapeInv
<1>10. PageInv'
  <2>1. (Range(pool.chunks) \cup taken) \cup {page} = Range(pool'.chunks) \cup taken'
    BY <1>3, <1>4
  <2>2. Range(pool'.chunks) \cap taken' = {}
    BY <1>1, <1>2, <1>3, <1>4 DEF PageInv
  <2>3. QED
    BY <1>2, <1>3, <1>4, <2>1, <2>2 DEF PageInv
<1>11. Range(pool'.free) = {} /\ IsInjective(pool'.free) /\ Len(pool'.free) = 0
  BY <1>4 DEF Range, IsInjective
<1>12. PoolBlocksSound'
  <2>1. ASSUME NEW x \in poolLive' \cup Range(pool'.free)
        PROVE  /\ x.page \in Range(pool'.chunks)
               /\ x.offset >= BlockSize /\ x.offset % BlockSize = 0 /\ x.offset + BlockSize <= PageSize
    <3>1. CASE x = b
      <4>1. BlockSize \in Nat \ {0} /\ BlockSize >= BlockSize /\ BlockSize + BlockSize <= PageSize
        OBVIOUS
      <4>2. BlockSize % BlockSize = 0
        BY <4>1, SmallMultiples
      <4>3. QED
        BY <1>3, <1>4, <1>5, <3>1, <4>1, <4>2
    <3>2. CASE x # b
      <4>1. x \in poolLive
        BY <1>4, <1>11, <3>2
      <4>2. QED
        BY <1>1, <1>3, <1>4, <4>1 DEF PoolInv, PoolBlocksSound
    <3>3. QED
      BY <3>1, <3>2
  <2>2. poolLive' \cap Range(pool'.free) = {}
    BY <1>11
  <2>3. Cardinality(poolLive') = (Len(chunks) - 1) * (PageSize \div BlockSize - 1) + ((2 * BlockSize) \div BlockSize - 1)
    <3> DEFINE full == PageSize \div BlockSize - 1
    <3>1. full \in Int /\ (2 * BlockSize) \div BlockSize = 2
      <4>1. PageSize \in Nat /\ BlockSize \in Nat \ {0}
        OBVIOUS
      <4>2. QED
        BY <4>1, Division, SmallMultiples
    <3>2. Len(pool.chunks) \in Nat /\ Len(chunks) - 1 = Len(pool.chunks)
      BY <1>1, <1>3
    <3>3. Cardinality(poolLive) = Len(pool.chunks) * full
      <4>1. CASE pool.chunks = <<>>
        <5>1. Range(pool.chunks) = {} /\ Len(pool.chunks) = 0
          BY <4>1 DEF Range
        <5>2. poolLive = {}
          BY <1>6, <5>1
        <5>3. Cardinality(poolLive) = 0
          BY <5>2, FS_EmptySet
        <5> HIDE DEF full
        <5>4. QED
          BY <3>1, <5>1, <5>3
      <4>2. CASE pool.chunks # <<>>
        <5>1. pool.next % BlockSize = 0 /\ pool.next <= PageSize /\ PageSize < pool.next + BlockSize
          BY <1>1, <4>2 DEF PoolInv
        <5>2. PageSize \div BlockSize = pool.next \div BlockSize
          <6>1. PageSize \in Nat /\ BlockSize \in Nat \ {0} /\ pool.next \in Nat
            BY <1>1
          <6>2. QED
            BY <5>1, <6>1, LastMultiple
        <5>3. Cardinality(poolLive) + Len(pool.free) = (Len(pool.chunks) - 1) * full + (pool.next \div BlockSize - 1)
          BY <1>1, <4>2 DEF PoolInv, PoolBlocksSound
        <5>4. Len(pool.free) = 0 /\ pool.next \div BlockSize - 1 = full
          BY <1>1, <5>2
        <5> HIDE DEF full
        <5>5. (Len(pool.chunks) - 1) * full + full = Len(pool.chunks) * full
          BY <3>1, <3>2
        <5>6. QED
          BY <1>8, <5>3, <5>4, <5>5
      <4>3. QED
        BY <4>1, <4>2
    <3>4. Cardinality(poolLive') = Len(pool.chunks) * full + (2 - 1)
      BY <1>8, <3>3
    <3>5. QED
      BY <3>1, <3>2, <3>4
  <2>4. Cardinality(poolLive') + Len(pool'.free) = Cardinality(poolLive')
    BY <1>8, <1>11
  <2>5. QED
    BY <1>4, <1>11, <2>1, <2>2, <2>3, <2>4 DEF PoolBlocksSound
<1>13. PoolInv'
  <2>1. pool'.next \in 0..PageSize /\ pool'.next >= 2 * BlockSize /\ pool'.next % BlockSize = 0
    BY <1>4, SmallMultiples
  <2>2. ASSUME NEW x \in poolLive' \cup Range(pool'.free), x.page = Last(pool'.chunks)
        PROVE  x.offset < pool'.next
    <3>1. x = b
      BY <1>2, <1>3, <1>4, <1>6, <1>11, <2>2
    <3>2. QED
      BY <1>4, <1>5, <3>1
  <2>3. QED
    BY <1>12, <2>1, <2>2 DEF PoolInv
<1>14. StackInv'
  BY <1>1, StackUntouched
<1>15. QED
  BY <1>9, <1>10, <1>13, <1>14 DEF MemoryInv

\* fdb_pool_alloc_alloc.
LEMMA PoolAllocStep == MemoryInv /\ PoolAlloc => MemoryInv'
<1> SUFFICES ASSUME MemoryInv, PoolAlloc PROVE MemoryInv'
  OBVIOUS
<1>1. CASE PoolHasFree
  BY <1>1, PoolAllocFree DEF PoolAlloc
<1>2. CASE ~PoolHasFree /\ PoolHasRoom
  BY <1>2, PoolAllocNext DEF PoolAlloc
<1>3. CASE ~PoolHasFree /\ ~PoolHasRoom
  BY <1>3, PoolAllocPage DEF PoolAlloc
<1>4. QED
  BY <1>1, <1>2, <1>3

\* fdb_pool_alloc_free: what a client gives back is not in the list.
LEMMA PoolFreeStep ==
  ASSUME MemoryInv, NEW block \in poolLive, PoolFree(block)
  PROVE  MemoryInv'
<1> DEFINE free == <<block>> \o pool.free
<1>1. /\ ShapeInv /\ PageInv /\ PoolInv /\ StackInv
      /\ pool.free \in Seq(Places) /\ pool.chunks \in Seq(Pages) /\ pool.next \in Nat
      /\ IsFiniteSet(poolLive) /\ poolLive \subseteq Places /\ block \in Places
  BY DEF MemoryInv, ShapeInv
<1>2. block \notin Range(pool.free)
  BY <1>1 DEF PoolInv, PoolBlocksSound
<1>3. /\ free \in Seq(Places) /\ Len(free) = Len(pool.free) + 1 /\ Len(pool.free) \in Nat
      /\ Range(free) = Range(pool.free) \cup {block} /\ IsInjective(free)
  BY <1>1, <1>2, PutInFront DEF PoolInv, PoolBlocksSound
<1> HIDE DEF free
<1>4. /\ pool'.chunks = pool.chunks /\ pool'.next = pool.next /\ pool'.free = free
      /\ poolLive' = poolLive \ {block}
      /\ pool' \in [chunks : Seq(Pages), free : Seq(Places), next : Nat]
      /\ UNCHANGED <<palloc, salloc, stackLive, largeLive, taken>>
  BY <1>1, <1>3 DEF ShapeInv, PoolFree, free
<1>5. /\ IsFiniteSet(poolLive') /\ Cardinality(poolLive') = Cardinality(poolLive) - 1
      /\ Cardinality(poolLive) \in Nat
  BY <1>1, <1>4, FS_RemoveElement, FS_CardinalityType
<1>6. ShapeInv'
  BY <1>1, <1>3, <1>4, <1>5 DEF ShapeInv
<1>7. PageInv'
  BY <1>1, <1>4 DEF PageInv
<1>8. poolLive' \cup Range(pool'.free) = poolLive \cup Range(pool.free)
  BY <1>3, <1>4
<1>9. poolLive' \cap Range(pool'.free) = {}
  BY <1>1, <1>3, <1>4 DEF PoolInv, PoolBlocksSound
<1>10. Cardinality(poolLive') + Len(pool'.free) = Cardinality(poolLive) + Len(pool.free)
  BY <1>3, <1>4, <1>5
<1>11. PoolBlocksSound'
  BY <1>1, <1>3, <1>4, <1>8, <1>9, <1>10 DEF PoolInv, PoolBlocksSound
<1>12. PoolInv'
  BY <1>1, <1>4, <1>8, <1>11 DEF PoolInv
<1>13. StackInv'
  BY <1>1, <1>4, StackUntouched
<1>14. QED
  BY <1>6, <1>7, <1>12, <1>13 DEF MemoryInv

\* fdb_pool_alloc_release: every page of the pool goes back.
LEMMA PoolReleaseStep == MemoryInv /\ PoolRelease => MemoryInv'
<1> SUFFICES ASSUME MemoryInv, PoolRelease PROVE MemoryInv'
  OBVIOUS
<1>1. /\ ShapeInv /\ PageInv /\ PoolInv /\ StackInv
      /\ pool.chunks \in Seq(Pages) /\ palloc \in PageAllocs /\ taken \in SUBSET Pages
      /\ IsInjective(pool.chunks) /\ Range(pool.chunks) \cap taken = {}
      /\ SmallSound(palloc, Range(pool.chunks) \cup taken) /\ LargeSound(palloc, largeLive)
  BY DEF MemoryInv, ShapeInv, PageInv
<1>2. /\ palloc' = FreeAll(palloc, pool.chunks) /\ pool' = PoolInit /\ poolLive' = {}
      /\ UNCHANGED <<salloc, stackLive, largeLive, taken>>
  BY DEF PoolRelease, PagesOfPool
<1>3. /\ pool.chunks \in Seq(Range(pool.chunks) \cup taken)
      /\ Range(pool.chunks) \cup taken \in SUBSET Pages
  BY <1>1, RangeOfSeq, SeqOfRange, SeqMonotonic
<1>4. /\ palloc' \in PageAllocs /\ LargeSound(palloc', largeLive)
      /\ SmallSound(palloc', (Range(pool.chunks) \cup taken) \ Range(pool.chunks))
  BY <1>1, <1>2, <1>3, FreesAll
<1>5. (Range(pool.chunks) \cup taken) \ Range(pool.chunks) = taken
  BY <1>1
<1>6. pool'.chunks = <<>> /\ pool'.free = <<>> /\ pool'.next = 0
  BY <1>2 DEF PoolInit
<1>7. Range(<<>>) = {} /\ IsInjective(<<>>) /\ Cardinality({}) = 0 /\ IsFiniteSet({})
  BY FS_EmptySet DEF Range, IsInjective
<1>8. ShapeInv'
  <2>1. pool' \in [chunks : Seq(Pages), free : Seq(Places), next : Nat]
    BY <1>2 DEF PoolInit
  <2>2. QED
    BY <1>1, <1>2, <1>4, <1>7, <2>1 DEF ShapeInv
<1>9. PageInv'
  BY <1>2, <1>4, <1>5, <1>6, <1>7 DEF PageInv
<1>10. PoolInv'
  BY <1>2, <1>6, <1>7 DEF PoolInv, PoolBlocksSound
<1>11. StackInv'
  BY <1>1, <1>2, StackUntouched
<1>12. QED
  BY <1>8, <1>9, <1>10, <1>11 DEF MemoryInv

\* A client of large pages.
LEMMA LargeStep ==
  MemoryInv /\ (LargeAlloc \/ \E page \in largeLive : LargeFree(page)) => MemoryInv'
<1> SUFFICES ASSUME MemoryInv, LargeAlloc \/ \E page \in largeLive : LargeFree(page) PROVE MemoryInv'
  OBVIOUS
<1>1. /\ ShapeInv /\ PageInv /\ PoolInv /\ StackInv
      /\ palloc \in PageAllocs /\ largeLive \in SUBSET Pages
      /\ SmallSound(palloc, Range(pool.chunks) \cup taken) /\ LargeSound(palloc, largeLive)
  BY DEF MemoryInv, ShapeInv, PageInv
<1>2. /\ UNCHANGED <<pool, poolLive, salloc, stackLive, taken>>
      /\ palloc' \in PageAllocs /\ largeLive' \in SUBSET Pages
      /\ SmallSound(palloc', Range(pool.chunks) \cup taken) /\ LargeSound(palloc', largeLive')
  <2>1. CASE LargeAlloc
    BY <1>1, <2>1, TakesLarge DEF LargeAlloc
  <2>2. ASSUME NEW page \in largeLive, LargeFree(page)
        PROVE  /\ UNCHANGED <<pool, poolLive, salloc, stackLive, taken>>
               /\ palloc' \in PageAllocs /\ largeLive' \in SUBSET Pages
               /\ SmallSound(palloc', Range(pool.chunks) \cup taken) /\ LargeSound(palloc', largeLive')
    BY <1>1, <2>2, FreesLarge DEF LargeFree
  <2>3. QED
    BY <2>1, <2>2
<1>3. ShapeInv' /\ PageInv'
  BY <1>1, <1>2 DEF ShapeInv, PageInv
<1>4. PoolInv' /\ StackInv'
  BY <1>1, <1>2, PoolUntouched, StackUntouched
<1>5. QED
  BY <1>3, <1>4 DEF MemoryInv

---------------------------------------------------------------------------
(* What the frames list, as blocks come and go at the end.                 *)

\* A frame lists places.
LEMMA EntriesArePlaces ==
  ASSUME NEW frames \in Seq(Frames), NEW i \in 1..Len(frames)
  PROVE  frames[i].entries \in Seq(Places) /\ Len(frames[i].entries) \in Nat
<1>1. frames[i] \in Frames
  OBVIOUS
<1>2. frames[i].entries \in Seq(Places)
  BY <1>1 DEF Frames
<1>3. QED
  BY <1>2

\* A new frame lists nothing.
LEMMA ListsFrame ==
  ASSUME NEW frames \in Seq(Frames), NEW live \in Seq(Stacked), NEW frame \in Frames,
         frame.entries = <<>>, Lists(frames, live)
  PROVE  Lists(Append(frames, frame), live)
<1> DEFINE more == Append(frames, frame)
<1>1. PICK n \in Nat, m \in Nat : n = Len(frames) /\ m = Len(live)
  OBVIOUS
<1>2. /\ Len(more) = n + 1 /\ more[n + 1] = frame /\ \A i \in 1..n : more[i] = frames[i]
  BY <1>1
<1> HIDE DEF more
<1>3. PICK at \in [0..n -> 0..m] : Starts(at, frames, live)
  BY <1>1 DEF Lists
<1>4. at[0] = 0 /\ at[n] = m
  BY <1>1, <1>3 DEF Starts
<1> DEFINE to == [i \in 0..(n + 1) |-> IF i <= n THEN at[i] ELSE m]
<1>5. to \in [0..(n + 1) -> 0..m] /\ to[n + 1] = m /\ \A i \in 0..n : to[i] = at[i]
  BY <1>1, <1>3
<1> HIDE DEF to
<1>6. ASSUME NEW i \in 1..(n + 1)
      PROVE  to[i] = to[i - 1] + Len(more[i].entries) /\ Covers(more[i].entries, live, to[i - 1])
  <2>1. CASE i \in 1..n
    <3>1. i - 1 \in 0..n /\ i \in 0..n
      BY <2>1
    <3>2. to[i] = at[i] /\ to[i - 1] = at[i - 1] /\ more[i] = frames[i]
      BY <1>2, <1>5, <2>1, <3>1
    <3>3. QED
      BY <1>1, <1>3, <2>1, <3>2 DEF Starts
  <2>2. CASE i = n + 1
    <3>1. i - 1 = n /\ n \in 0..n
      BY <1>1, <2>2
    <3>2. to[i - 1] = m /\ to[i] = m /\ more[i].entries = <<>>
      BY <1>2, <1>4, <1>5, <2>2, <3>1
    <3>3. Len(<<>>) = 0 /\ Covers(<<>>, live, m)
      BY DEF Covers
    <3>4. QED
      BY <1>1, <3>2, <3>3
  <2>3. QED
    BY <1>1, <2>1, <2>2
<1>7. 0 \in 0..n /\ to[0] = 0
  BY <1>1, <1>4, <1>5
<1>8. Starts(to, more, live)
  BY <1>1, <1>2, <1>5, <1>6, <1>7 DEF Starts
<1>9. QED
  BY <1>1, <1>2, <1>5, <1>8 DEF Lists, more

\* A block that is pushed comes last in both.
LEMMA ListsPush ==
  ASSUME NEW frames \in Seq(Frames), frames # <<>>, NEW live \in Seq(Stacked), NEW b \in Stacked,
         Lists(frames, live), NEW more \in Seq(Frames), Len(more) = Len(frames),
         \A i \in 1..(Len(frames) - 1) : more[i] = frames[i],
         more[Len(frames)].entries = Append(frames[Len(frames)].entries, Place(b))
  PROVE  Lists(more, Append(live, b))
<1> DEFINE longer == Append(live, b)
<1>1. PICK n \in Nat \ {0}, m \in Nat : n = Len(frames) /\ m = Len(live)
  OBVIOUS
<1>2. PICK e \in Seq(Places) : e = frames[n].entries
  <2>1. n \in 1..n
    BY <1>1
  <2>2. frames[n] \in Frames
    BY <1>1, <2>1
  <2>3. frames[n].entries \in Seq(Places)
    BY <2>2 DEF Frames
  <2>4. QED
    BY <2>3
<1>3. Len(longer) = m + 1 /\ longer[m + 1] = b /\ \A i \in 1..m : longer[i] = live[i]
  BY <1>1
<1> HIDE DEF longer
<1>4. Place(b) \in Places
  BY DEF Place, Places, Stacked
<1>5. /\ Len(e) \in Nat /\ Len(Append(e, Place(b))) = Len(e) + 1
      /\ Append(e, Place(b))[Len(e) + 1] = Place(b)
      /\ \A j \in 1..Len(e) : Append(e, Place(b))[j] = e[j]
  BY <1>4
<1>6. PICK at \in [0..n -> 0..m] : Starts(at, frames, live)
  BY <1>1 DEF Lists
<1>7. at[0] = 0 /\ at[n] = m
  BY <1>1, <1>6 DEF Starts
<1> DEFINE to == [i \in 0..n |-> IF i < n THEN at[i] ELSE m + 1]
<1>8. to \in [0..n -> 0..(m + 1)] /\ to[n] = m + 1 /\ \A i \in 0..(n - 1) : to[i] = at[i]
  <2>1. 0..m \subseteq 0..(m + 1) /\ m + 1 \in 0..(m + 1)
    BY <1>1
  <2>2. ASSUME NEW i \in 0..n PROVE at[i] \in 0..(m + 1)
    BY <1>6, <2>1
  <2>3. to \in [0..n -> 0..(m + 1)]
    BY <2>1, <2>2
  <2>4. n \in 0..n /\ \A i \in 0..(n - 1) : i \in 0..n /\ i < n
    BY <1>1
  <2>5. to[n] = m + 1
    BY <1>1, <2>4
  <2>6. ASSUME NEW i \in 0..(n - 1) PROVE to[i] = at[i]
    BY <1>1, <2>4
  <2>7. QED
    BY <2>3, <2>5, <2>6
<1> HIDE DEF to
<1>9. ASSUME NEW i \in 1..n
      PROVE  to[i] = to[i - 1] + Len(more[i].entries) /\ Covers(more[i].entries, longer, to[i - 1])
  <2>1. PICK a \in 0..m, k \in Nat, f \in Seq(Places) :
           /\ f = frames[i].entries /\ k = Len(f) /\ a = at[i - 1]
           /\ at[i] = a + k /\ a + k \in 0..m /\ Covers(f, live, a)
    <3>1. i - 1 \in 0..n /\ i \in 0..n
      OBVIOUS
    <3>2. at[i - 1] \in 0..m /\ at[i] \in 0..m
      BY <1>6, <3>1
    <3>3. frames[i].entries \in Seq(Places) /\ Len(frames[i].entries) \in Nat
      BY <1>1, EntriesArePlaces
    <3>4. at[i] = at[i - 1] + Len(frames[i].entries) /\ Covers(frames[i].entries, live, at[i - 1])
      BY <1>1, <1>6 DEF Starts
    <3>5. QED
      BY <3>2, <3>3, <3>4
  <2>2. to[i - 1] = a
    <3>1. i - 1 \in 0..(n - 1)
      BY <1>1
    <3>2. QED
      BY <1>8, <2>1, <3>1
  <2>3. ASSUME NEW j \in 1..k PROVE f[j] = Place(longer[a + j])
    <3>1. a + j \in 1..m
      BY <1>1, <2>1, SMTT(30)
    <3>2. QED
      BY <1>3, <2>1, <3>1 DEF Covers
  <2>4. CASE i < n
    <3>1. i \in 0..(n - 1) /\ i \in 1..(n - 1)
      BY <1>1, <2>4
    <3>4. to[i] = at[i] /\ more[i].entries = f
      BY <1>1, <1>8, <2>1, <3>1
    <3>2. Covers(f, longer, a)
      BY <2>1, <2>3 DEF Covers
    <3>3. QED
      BY <2>1, <2>2, <3>4, <3>2
  <2>5. CASE i = n
    <3>1. f = e /\ a + k = m /\ to[i] = m + 1 /\ more[i].entries = Append(e, Place(b))
      BY <1>1, <1>2, <1>7, <1>8, <2>1, <2>5
    <3>2. ASSUME NEW j \in 1..(k + 1)
          PROVE  Append(e, Place(b))[j] = Place(longer[a + j])
      <4>1. CASE j = k + 1
        <5>1. a + j = m + 1
          <6>1. a \in Int /\ k \in Int /\ m \in Int
            BY <1>1, <2>1
          <6>2. QED
            BY <3>1, <4>1, <6>1
        <5>2. QED
          BY <1>3, <1>5, <2>1, <3>1, <4>1, <5>1
      <4>2. CASE j # k + 1
        <5>1. j \in 1..k
          <6>1. k \in Int
            BY <2>1
          <6>2. QED
            BY <4>2, <6>1
        <5>2. QED
          <6>1. f[j] = Place(longer[a + j])
            BY <2>3, <5>1
          <6>2. j \in 1..Len(e)
            BY <2>1, <3>1, <5>1
          <6>3. Append(e, Place(b))[j] = e[j]
            BY <1>5, <6>2
          <6>4. QED
            BY <3>1, <6>1, <6>3
      <4>3. QED
        BY <4>1, <4>2
    <3>3. Len(Append(e, Place(b))) = k + 1
      BY <1>5, <2>1, <3>1
    <3>4. Covers(Append(e, Place(b)), longer, a)
      BY <3>2, <3>3 DEF Covers
    <3>5. m + 1 = a + (k + 1)
      BY <1>1, <2>1, <3>1, SMTT(30)
    <3>6. QED
      BY <2>2, <3>1, <3>3, <3>4, <3>5
  <2>6. QED
    BY <1>1, <2>4, <2>5
<1>10. 0 \in 0..(n - 1) /\ to[0] = 0
  BY <1>1, <1>7, <1>8
<1>11. Starts(to, more, longer)
  BY <1>1, <1>3, <1>8, <1>9, <1>10 DEF Starts
<1>12. QED
  BY <1>1, <1>3, <1>8, <1>11 DEF Lists, longer

\* An empty last frame lists nothing.
LEMMA ListsDrop ==
  ASSUME NEW frames \in Seq(Frames), frames # <<>>, NEW live \in Seq(Stacked),
         Last(frames).entries = <<>>, Lists(frames, live)
  PROVE  /\ Front(frames) \in Seq(Frames) /\ Len(Front(frames)) = Len(frames) - 1
         /\ \A i \in 1..(Len(frames) - 1) : Front(frames)[i] = frames[i]
         /\ Lists(Front(frames), live) /\ (live # <<>> => Front(frames) # <<>>)
<1> DEFINE front == Front(frames)
<1>1. PICK n \in Nat \ {0}, m \in Nat : n = Len(frames) /\ m = Len(live)
  OBVIOUS
<1>2. front \in Seq(Frames) /\ Len(front) = n - 1 /\ \A i \in 1..(n - 1) : front[i] = frames[i]
  <2>1. front = SubSeq(frames, 1, n - 1) /\ 0..(n - 1) \subseteq 0..n
    BY <1>1 DEF Front
  <2>2. \A i \in 1..(n - 1) : frames[i] \in Frames
    BY <1>1
  <2> HIDE DEF front
  <2>3. QED
    BY <1>1, <2>1, <2>2, SubSeqProperties
<1> HIDE DEF front
<1>3. PICK at \in [0..n -> 0..m] : Starts(at, frames, live)
  BY <1>1 DEF Lists
<1>4. at[0] = 0 /\ at[n] = m
  BY <1>1, <1>3 DEF Starts
<1>5. at[n - 1] = m
  <2>1. n \in 1..n /\ frames[n].entries = <<>> /\ Len(<<>>) = 0
    BY <1>1 DEF Last
  <2>2. n - 1 \in 0..n /\ at[n] = at[n - 1] + Len(frames[n].entries)
    BY <1>1, <1>3, <2>1 DEF Starts
  <2>3. at[n - 1] \in 0..m
    BY <1>3, <2>2
  <2>4. QED
    BY <1>1, <1>4, <2>1, <2>2, <2>3
<1> DEFINE to == [i \in 0..(n - 1) |-> at[i]]
<1>6. to \in [0..(n - 1) -> 0..m] /\ \A i \in 0..(n - 1) : to[i] = at[i]
  BY <1>1, <1>3
<1> HIDE DEF to
<1>7. ASSUME NEW i \in 1..(n - 1)
      PROVE  to[i] = to[i - 1] + Len(front[i].entries) /\ Covers(front[i].entries, live, to[i - 1])
  <2>1. i - 1 \in 0..(n - 1) /\ i \in 0..(n - 1) /\ i \in 1..n
    BY <1>1
  <2>2. to[i] = at[i] /\ to[i - 1] = at[i - 1] /\ front[i] = frames[i]
    BY <1>2, <1>6, <2>1
  <2>3. QED
    BY <1>1, <1>3, <2>1, <2>2 DEF Starts
<1>8. 0 \in 0..(n - 1) /\ n - 1 \in 0..(n - 1)
  BY <1>1
<1>9. Starts(to, front, live)
  BY <1>1, <1>2, <1>4, <1>5, <1>6, <1>7, <1>8 DEF Starts
<1>10. Lists(front, live)
  BY <1>1, <1>2, <1>6, <1>9 DEF Lists
<1>11. live # <<>> => front # <<>>
  <2>1. ASSUME front = <<>> PROVE live = <<>>
    <3>1. Len(front) = 0
      BY <2>1
    <3>2. n - 1 = 0
      BY <1>1, <1>2, <3>1
    <3>3. m = 0
      BY <1>4, <1>5, <3>2
    <3>4. QED
      BY <1>1, <3>3
  <2>2. QED
    BY <2>1
<1>12. QED
  BY <1>1, <1>2, <1>10, <1>11 DEF front

\* A position in a part of a list, counted from the start of the list.
LEMMA PositionInPart ==
  ASSUME NEW first \in Nat, NEW l \in Nat, NEW last \in Nat, first + l \in 0..last, NEW j \in 1..l
  PROVE  first + j \in 1..last
OBVIOUS

\* Later frames start later.
LEMMA StartsGrow ==
  ASSUME NEW frames \in Seq(Frames), NEW live \in Seq(Stacked),
         NEW at \in [0..Len(frames) -> 0..Len(live)], Starts(at, frames, live),
         NEW i \in 0..Len(frames), NEW k \in 0..Len(frames), i <= k
  PROVE  at[i] <= at[k]
<1>1. PICK n \in Nat, m \in Nat : n = Len(frames) /\ m = Len(live)
  OBVIOUS
<1>2. at \in [0..n -> 0..m] /\ i \in 0..n /\ k \in 0..n
  BY <1>1
<1> DEFINE G == {d \in 0..(k - i) : at[i] <= at[i + d]}
<1>3. 0 \in G
  BY <1>1, <1>2
<1>4. ASSUME NEW d \in 0..(k - i - 1), d \in G
      PROVE  d + 1 \in G
  <2>1. i + d + 1 \in 1..n /\ (i + d + 1) - 1 = i + d /\ i + d \in 0..n /\ i + d + 1 \in 0..n
    BY <1>1, <1>2
  <2>2. at[i + d + 1] = at[i + d] + Len(frames[i + d + 1].entries)
    BY <1>1, <2>1 DEF Starts
  <2>3. Len(frames[i + d + 1].entries) \in Nat
    BY <1>1, <2>1, EntriesArePlaces
  <2>4. at[i] \in Int /\ at[i + d] \in Int /\ at[i] <= at[i + d]
    BY <1>2, <1>4, <2>1
  <2>5. at[i] <= at[i + d + 1]
    BY <2>2, <2>3, <2>4
  <2>6. i + (d + 1) = i + d + 1 /\ d + 1 \in 0..(k - i)
    BY <1>2
  <2>7. QED
    BY <2>5, <2>6
<1>5. k - i \in G
  <2>1. k - i \in Nat /\ k - i \in 0..(k - i)
    BY <1>2
  <2> HIDE DEF G
  <2>2. 0..(k - i) \subseteq G
    BY <1>3, <1>4, <2>1, CountingUp
  <2>3. QED
    BY <2>1, <2>2
<1>6. i + (k - i) = k
  BY <1>2
<1>7. QED
  BY <1>5, <1>6

\* A list without its last.
LEMMA Fronts ==
  ASSUME NEW S, NEW s \in Seq(S), s # <<>>
  PROVE  /\ Front(s) \in Seq(S) /\ Len(Front(s)) = Len(s) - 1 /\ Len(s) \in Nat \ {0}
         /\ \A i \in 1..(Len(s) - 1) : Front(s)[i] = s[i]
         /\ Last(s) \in S /\ Last(s) = s[Len(s)] /\ Len(s) \in 1..Len(s)
<1>1. PICK n \in Nat \ {0} : n = Len(s)
  OBVIOUS
<1>2. Front(s) = SubSeq(s, 1, n - 1) /\ Last(s) = s[n]
  BY <1>1 DEF Front, Last
<1>3. \A i \in 1..n : s[i] \in S
  BY <1>1
<1>4. \A i \in 1..(n - 1) : i \in 1..n
  BY <1>1
<1>5. n \in 1..n
  BY <1>1
<1>6. Front(s) \in Seq(S) /\ Len(Front(s)) = n - 1 /\ \A i \in 1..(n - 1) : Front(s)[i] = s[i]
  BY <1>1, <1>2, <1>3, <1>4, SubSeqProperties, SMTT(30)
<1>7. QED
  BY <1>1, <1>2, <1>3, <1>5, <1>6

\* The last address listed is that of the last block, and they go together.
LEMMA ListsPop ==
  ASSUME NEW frames \in Seq(Frames), frames # <<>>, NEW live \in Seq(Stacked),
         frames[Len(frames)].entries # <<>>, Lists(frames, live)
  PROVE  /\ live # <<>> /\ Last(frames[Len(frames)].entries) = Place(Last(live))
         /\ \A less \in Seq(Frames) :
              /\ Len(less) = Len(frames) /\ \A i \in 1..(Len(frames) - 1) : less[i] = frames[i]
              /\ less[Len(frames)].entries = Front(frames[Len(frames)].entries)
              => Lists(less, Front(live))
<1>1. PICK n \in Nat \ {0}, m \in Nat : n = Len(frames) /\ m = Len(live)
  OBVIOUS
<1>2. PICK e \in Seq(Places), k \in Nat \ {0} : e = frames[n].entries /\ k = Len(e)
  <2>1. n \in 1..Len(frames)
    BY <1>1
  <2>2. frames[n].entries \in Seq(Places) /\ frames[n].entries # <<>>
    BY <1>1, <2>1, EntriesArePlaces
  <2>3. QED
    BY <2>2
<1>3. PICK at \in [0..n -> 0..m] : Starts(at, frames, live)
  BY <1>1 DEF Lists
<1>4. at[0] = 0 /\ at[n] = m
  BY <1>1, <1>3 DEF Starts
<1>5. PICK a \in 0..m : a = at[n - 1] /\ m = a + k /\ Covers(e, live, a)
  <2>1. n \in 1..n /\ n - 1 \in 0..n
    BY <1>1
  <2>2. at[n - 1] \in 0..m
    BY <1>3, <2>1
  <2>3. at[n] = at[n - 1] + k /\ Covers(e, live, at[n - 1])
    BY <1>1, <1>2, <1>3, <2>1 DEF Starts
  <2>4. QED
    BY <1>4, <2>2, <2>3
<1>6. live # <<>> /\ m \in Nat \ {0} /\ m - 1 \in Nat
  <2>1. m \in Nat \ {0}
    <3>1. a \in Nat /\ m = a + k
      BY <1>5
    <3>2. QED
      BY <1>2, <3>1
  <2>2. QED
    BY <1>1, <2>1
<1>7. Last(e) = Place(Last(live))
  <2>1. e # <<>> /\ k \in 1..k
    BY <1>2
  <2>2. e[k] = Place(live[a + k])
    BY <1>2, <1>5, <2>1 DEF Covers
  <2>3. QED
    BY <1>1, <1>2, <1>5, <2>2 DEF Last
<1>8. ASSUME NEW less \in Seq(Frames), Len(less) = n, \A i \in 1..(n - 1) : less[i] = frames[i],
             less[n].entries = Front(e)
      PROVE  Lists(less, Front(live))
  <2> DEFINE fewer == Front(live)
  <2>1. Len(fewer) = m - 1 /\ \A i \in 1..(m - 1) : fewer[i] = live[i]
    BY <1>1, <1>6, Fronts
  <2> HIDE DEF fewer
  <2>2. Len(Front(e)) = k - 1 /\ \A j \in 1..(k - 1) : Front(e)[j] = e[j]
    <3>1. e # <<>>
      BY <1>2
    <3>2. QED
      BY <1>2, <3>1, Fronts
  <2> DEFINE to == [i \in 0..n |-> IF i < n THEN at[i] ELSE m - 1]
  <2>3. ASSUME NEW i \in 0..(n - 1) PROVE i \in 0..n /\ i < n /\ at[i] \in 0..(m - 1)
    <3>1. i \in 0..n /\ n - 1 \in 0..n /\ i <= n - 1 /\ i < n
      BY <1>1
    <3>2. at[i] <= a
      BY <1>1, <1>3, <1>5, <3>1, StartsGrow
    <3>3. at[i] \in 0..m
      BY <1>3, <3>1
    <3>4. QED
      BY <1>1, <1>2, <1>5, <3>1, <3>2, <3>3, SMTT(30)
  <2>4. n \in 0..n /\ m - 1 \in 0..(m - 1) /\ \A i \in 0..n : i < n => i \in 0..(n - 1)
    BY <1>1, <1>6
  <2>5. to \in [0..n -> 0..(m - 1)] /\ to[n] = m - 1
    BY <1>1, <2>3, <2>4, SMTT(30)
  <2>6. \A i \in 0..(n - 1) : to[i] = at[i]
    BY <2>3
  <2> HIDE DEF to
  <2>7. ASSUME NEW i \in 1..n
        PROVE  to[i] = to[i - 1] + Len(less[i].entries) /\ Covers(less[i].entries, fewer, to[i - 1])
    <3>1. i - 1 \in 0..(n - 1) /\ i - 1 \in 0..n /\ i \in 0..n
      BY <1>1
    <3>2. to[i - 1] = at[i - 1] /\ at[i - 1] \in 0..m
      BY <1>3, <2>6, <3>1
    <3>3. CASE i < n
      <4>1. i \in 1..(n - 1) /\ i \in 0..(n - 1)
        BY <1>1, <3>3
      <4>2. to[i] = at[i] /\ less[i] = frames[i] /\ at[i] \in 0..(m - 1)
        BY <1>8, <2>3, <2>6, <4>1
      <4>3. at[i] = at[i - 1] + Len(frames[i].entries) /\ Covers(frames[i].entries, live, at[i - 1])
        BY <1>1, <1>3 DEF Starts
      <4>4. Len(frames[i].entries) \in Nat
        BY <1>1, EntriesArePlaces
      <4>5. ASSUME NEW j \in 1..Len(frames[i].entries)
            PROVE  frames[i].entries[j] = Place(fewer[at[i - 1] + j])
        <5>1. at[i - 1] + j \in 1..(m - 1)
          <6>1. PICK c \in Nat, l \in Nat : c = at[i - 1] /\ l = Len(frames[i].entries)
            BY <3>2, <4>4
          <6>2. c + l \in 0..(m - 1)
            BY <4>2, <4>3, <6>1
          <6>3. j \in 1..l
            BY <6>1
          <6>7. c + j \in 1..(m - 1)
            BY <1>6, <6>2, <6>3, PositionInPart
          <6>4. QED
            BY <6>1, <6>7
        <5>2. QED
          BY <2>1, <4>3, <5>1 DEF Covers
      <4>6. Covers(frames[i].entries, fewer, at[i - 1])
        BY <4>5 DEF Covers
      <4>7. QED
        BY <3>2, <4>2, <4>3, <4>6
    <3>4. CASE i = n
      <4>1. to[i] = m - 1 /\ to[i - 1] = a /\ less[i].entries = Front(e)
        BY <1>5, <1>8, <2>5, <3>2, <3>4
      <4>2. m - 1 = a + (k - 1)
        BY <1>1, <1>2, <1>5, SMTT(30)
      <4>3. ASSUME NEW j \in 1..(k - 1) PROVE Front(e)[j] = Place(fewer[a + j])
        <5>1. a + j \in 1..(m - 1) /\ j \in 1..k
          <6>1. a \in Nat /\ m = a + k
            BY <1>5
          <6>2. QED
            BY <1>2, <6>1
        <5>2. QED
          BY <1>2, <1>5, <2>1, <2>2, <5>1 DEF Covers
      <4>4. Covers(Front(e), fewer, a)
        BY <2>2, <4>3 DEF Covers
      <4>5. QED
        BY <2>2, <4>1, <4>2, <4>4
    <3>5. QED
      BY <1>1, <3>3, <3>4
  <2>8. 0 \in 0..(n - 1) /\ to[0] = 0
    BY <1>1, <1>4, <2>6
  <2>9. Starts(to, less, fewer)
    BY <1>1, <1>8, <2>1, <2>5, <2>7, <2>8 DEF Starts
  <2>10. QED
    BY <1>1, <1>8, <2>1, <2>5, <2>9 DEF Lists, fewer
<1>9. QED
  BY <1>1, <1>2, <1>6, <1>7, <1>8

---------------------------------------------------------------------------
(* The stack, one move at a time: the allocations and pops make several.   *)

\* What a move has to keep, of the page allocator and the stack it leaves.
StackSound(p, s, live, pages) ==
  /\ p \in PageAllocs /\ s \in Stacks /\ live \in Seq(Stacked) /\ pages \in SUBSET Pages
  /\ Range(pool.chunks) \cap pages = {}
  /\ SmallSound(p, Range(pool.chunks) \cup pages) /\ LargeSound(p, largeLive)
  /\ FramesSound(s, live, pages) /\ BlocksSound(s, live, pages)

\* A page is taken that neither the stack nor the pool has.
LEMMA TakesNewPage ==
  ASSUME NEW p, NEW s, NEW live, NEW pages, StackSound(p, s, live, pages), Room(p) >= 1
  PROVE  LET page == NextSmall(p)
         IN /\ page \in Pages /\ page # NULL /\ page \notin pages
            /\ TakeSmall(p) \in PageAllocs /\ Room(TakeSmall(p)) = Room(p) - 1
            /\ pages \cup {page} \in SUBSET Pages /\ Range(pool.chunks) \cap (pages \cup {page}) = {}
            /\ SmallSound(TakeSmall(p), Range(pool.chunks) \cup (pages \cup {page}))
            /\ LargeSound(TakeSmall(p), largeLive)
<1>1. p \in PageAllocs /\ SmallFits(p)
  BY RoomFits DEF StackSound
<1> DEFINE used == Range(pool.chunks) \cup pages
           page == NextSmall(p)
<1>2. SmallSound(p, used) /\ LargeSound(p, largeLive) /\ pages \subseteq Pages /\ Range(pool.chunks) \cap pages = {}
  BY DEF StackSound
<1>3. /\ page \in Pages /\ page \notin used /\ TakeSmall(p) \in PageAllocs
      /\ SmallSound(TakeSmall(p), used \cup {page}) /\ LargeSound(TakeSmall(p), largeLive)
      /\ Room(TakeSmall(p)) = Room(p) - 1
  BY <1>1, <1>2, TakesSmall
<1>4. page # NULL
  BY <1>3, SizesArePositive DEF Pages, NULL
<1> HIDE DEF page
<1>5. used \cup {page} = Range(pool.chunks) \cup (pages \cup {page})
  OBVIOUS
<1>6. Range(pool.chunks) \cap (pages \cup {page}) = {}
  BY <1>2, <1>3
<1>7. pages \cup {page} \in SUBSET Pages
  BY <1>2, <1>3
<1>8. QED
  BY <1>3, <1>4, <1>5, <1>6, <1>7 DEF page

\* A fresh data page.
LEMMA WithPageSound ==
  ASSUME NEW p, NEW s, NEW live, NEW pages, StackSound(p, s, live, pages), Room(p) >= 1
  PROVE  LET page == NextSmall(p)
             s2 == [s EXCEPT !.page = page, !.offset = 0]
         IN /\ StackSound(TakeSmall(p), s2, live, pages \cup {page})
            /\ s2.page = page /\ page # NULL /\ s2.offset = 0 /\ s2.frames = s.frames
            /\ Room(TakeSmall(p)) = Room(p) - 1
<1> DEFINE page == NextSmall(p)
           s2 == [s EXCEPT !.page = page, !.offset = 0]
<1>1. /\ page \in Pages /\ page # NULL /\ page \notin pages
      /\ TakeSmall(p) \in PageAllocs /\ Room(TakeSmall(p)) = Room(p) - 1
      /\ pages \cup {page} \in SUBSET Pages /\ Range(pool.chunks) \cap (pages \cup {page}) = {}
      /\ SmallSound(TakeSmall(p), Range(pool.chunks) \cup (pages \cup {page}))
      /\ LargeSound(TakeSmall(p), largeLive)
  BY TakesNewPage
<1> HIDE DEF page
<1>2. s \in Stacks /\ live \in Seq(Stacked) /\ FramesSound(s, live, pages) /\ BlocksSound(s, live, pages)
  BY DEF StackSound
<1>3. s2 \in Stacks /\ s2.page = page /\ s2.offset = 0 /\ s2.frames = s.frames
  <2>1. 0 \in 0..PageSize
    BY SizesArePositive
  <2>2. QED
    BY <1>1, <1>2, <2>1 DEF Stacks
<1> HIDE DEF s2
<1>4. FramesSound(s2, live, pages \cup {page})
  BY <1>1, <1>2, <1>3 DEF FramesSound
<1>5. BlocksSound(s2, live, pages \cup {page})
  BY <1>1, <1>2, <1>3 DEF BlocksSound
<1>6. StackSound(TakeSmall(p), s2, live, pages \cup {page})
  BY <1>1, <1>2, <1>3, <1>4, <1>5 DEF StackSound
<1>7. QED
  BY <1>1, <1>3, <1>6 DEF page, s2

\* A fresh frame: the one before it is full.
LEMMA WithFrameSound ==
  ASSUME NEW p, NEW s, NEW live, NEW pages, StackSound(p, s, live, pages), Room(p) >= 1,
         NeedsFrame(s), s.page # NULL
  PROVE  LET page == NextSmall(p)
             s2 == [s EXCEPT !.frames = Append(@, [page |-> page, entries |-> <<>>])]
         IN /\ StackSound(TakeSmall(p), s2, live, pages \cup {page})
            /\ s2.page = s.page /\ s2.offset = s.offset
            /\ s2.frames # <<>> /\ s2.frames[Len(s2.frames)].entries = <<>>
            /\ Room(TakeSmall(p)) = Room(p) - 1
<1> DEFINE page == NextSmall(p)
           frame == [page |-> page, entries |-> <<>>]
           more == Append(s.frames, frame)
           s2 == [s EXCEPT !.frames = Append(@, [page |-> page, entries |-> <<>>])]
<1>1. /\ page \in Pages /\ page # NULL /\ page \notin pages
      /\ TakeSmall(p) \in PageAllocs /\ Room(TakeSmall(p)) = Room(p) - 1
      /\ pages \cup {page} \in SUBSET Pages /\ Range(pool.chunks) \cap (pages \cup {page}) = {}
      /\ SmallSound(TakeSmall(p), Range(pool.chunks) \cup (pages \cup {page}))
      /\ LargeSound(TakeSmall(p), largeLive)
  BY TakesNewPage
<1> HIDE DEF page
<1>2. s \in Stacks /\ live \in Seq(Stacked) /\ FramesSound(s, live, pages) /\ BlocksSound(s, live, pages)
  BY DEF StackSound
<1>3. s.frames \in Seq(Frames) /\ frame \in Frames /\ frame.page = page /\ frame.entries = <<>>
  BY <1>1, <1>2 DEF Stacks, Frames
<1>4. more \in Seq(Frames)
  BY <1>3
<1>5. s2 \in Stacks /\ s2.page = s.page /\ s2.offset = s.offset /\ s2.frames = more
  BY <1>2, <1>4 DEF Stacks
<1> HIDE DEF s2
<1>6. Lists(more, live)
  <2>1. Lists(s.frames, live)
    BY <1>2 DEF FramesSound
  <2> HIDE DEF frame
  <2>2. QED
    BY <1>2, <1>3, <2>1, ListsFrame
<1>7. PICK n \in Nat : n = Len(s.frames)
  BY <1>3
<1>8. /\ Len(more) = n + 1 /\ more[n + 1] = frame /\ more # <<>>
      /\ \A i \in 1..n : more[i] = s.frames[i]
  BY <1>3, <1>7
<1> HIDE DEF more, frame
<1>9. \A i \in 1..n : s.frames[i].entries # <<>>
  <2>1. ASSUME NEW i \in 1..n, i < n PROVE s.frames[i].entries # <<>>
    BY <1>2, <1>7, <2>1 DEF FramesSound
  <2>2. ASSUME n \in 1..n PROVE s.frames[n].entries # <<>>
    <3>1. s.frames # <<>>
      BY <1>7, <2>2
    <3>2. Len(s.frames[n].entries) = FrameMax
      BY <1>7, <3>1 DEF NeedsFrame, LastFrame
    <3>3. QED
      BY <3>2, SizesArePositive
  <2>3. QED
    BY <1>7, <2>1, <2>2
<1>10. FramesSound(s2, live, pages \cup {page})
  <2>1. s2.page \in (pages \cup {page}) \cup {NULL} /\ s2.page # NULL /\ s2.page # page
    BY <1>1, <1>2, <1>5 DEF FramesSound
  <2>2. \A k \in 1..Len(live) : live[k].page \in pages
    BY <1>2 DEF BlocksSound
  <2>3. ASSUME NEW i \in 1..(n + 1)
        PROVE  /\ more[i].page \in pages \cup {page} /\ more[i].page # s2.page
               /\ Len(more[i].entries) <= FrameMax
               /\ i < n + 1 => more[i].entries # <<>>
               /\ \A k \in 1..Len(live) : live[k].page # more[i].page
               /\ \A k \in 1..(n + 1) : more[k].page = more[i].page => k = i
    <3>1. CASE i = n + 1
      <4>1. Len(<<>>) <= FrameMax
        BY SizesArePositive
      <4>2. \A k \in 1..n : more[k].page \in pages
        BY <1>2, <1>7, <1>8 DEF FramesSound
      <4>3. \A k \in 1..(n + 1) : k # n + 1 => k \in 1..n
        BY <1>7
      <4>4. QED
        BY <1>1, <1>3, <1>8, <2>1, <2>2, <3>1, <4>1, <4>2, <4>3
    <3>2. CASE i # n + 1
      <4>1. i \in 1..n /\ more[i] = s.frames[i]
        BY <1>7, <1>8, <3>2
      <4>2. /\ more[i].page \in pages /\ more[i].page # s.page
            /\ Len(more[i].entries) <= FrameMax
            /\ \A k \in 1..Len(live) : live[k].page # more[i].page
            /\ \A k \in 1..n : s.frames[k].page = more[i].page => k = i
        BY <1>2, <1>7, <4>1 DEF FramesSound
      <4>3. ASSUME NEW k \in 1..(n + 1), more[k].page = more[i].page PROVE k = i
        <5>1. CASE k = n + 1
          BY <1>1, <1>3, <1>8, <4>2, <4>3, <5>1
        <5>2. CASE k # n + 1
          <6>1. k \in 1..n
            BY <1>7, <5>2
          <6>2. QED
            BY <1>8, <4>2, <4>3, <6>1
        <5>3. QED
          BY <5>1, <5>2
      <4>4. QED
        BY <1>5, <1>9, <4>1, <4>2, <4>3
    <3>3. QED
      BY <3>1, <3>2
  <2>4. QED
    BY <1>5, <1>6, <1>8, <2>1, <2>3 DEF FramesSound
<1>11. BlocksSound(s2, live, pages \cup {page})
  BY <1>2, <1>5 DEF BlocksSound
<1>12. StackSound(TakeSmall(p), s2, live, pages \cup {page})
  BY <1>1, <1>2, <1>5, <1>10, <1>11 DEF StackSound
<1>13. s2.frames # <<>> /\ s2.frames[Len(s2.frames)].entries = <<>>
  BY <1>3, <1>5, <1>8
<1>14. QED
  BY <1>1, <1>5, <1>12, <1>13 DEF page, s2

\* The next block of the current page is listed in the last frame; the blocks that are
\* in other pages stay behind it, as do those in this one.
LEMMA PushSound ==
  ASSUME NEW p, NEW s, NEW live, NEW pages, StackSound(p, s, live, pages), NEW size \in 1..PageSize,
         s.page # NULL, s.offset + size <= PageSize, s.frames # <<>>, ~NeedsFrame(s),
         NEW s2 \in Stacks, s2.page = s.page, s2.offset = s.offset + size,
         Len(s2.frames) = Len(s.frames),
         \A i \in 1..(Len(s.frames) - 1) : s2.frames[i] = s.frames[i],
         s2.frames[Len(s.frames)].page = s.frames[Len(s.frames)].page,
         s2.frames[Len(s.frames)].entries
           = Append(s.frames[Len(s.frames)].entries, [page |-> s.page, offset |-> s.offset])
  PROVE  StackSound(p, s2, Append(live, [page |-> s.page, offset |-> s.offset, size |-> size]), pages)
<1> DEFINE b == [page |-> s.page, offset |-> s.offset, size |-> size]
           longer == Append(live, b)
<1>1. /\ s \in Stacks /\ live \in Seq(Stacked) /\ pages \subseteq Pages
      /\ FramesSound(s, live, pages) /\ BlocksSound(s, live, pages)
  BY DEF StackSound
<1>2. s.page \in pages /\ s.page \in Pages /\ s.offset \in 0..PageSize
  BY <1>1 DEF FramesSound, Stacks
<1>3. /\ b \in Stacked /\ b.page = s.page /\ b.offset = s.offset /\ b.size = size
      /\ Place(b) = [page |-> s.page, offset |-> s.offset]
  BY <1>2 DEF Stacked, Place
<1>4. s.frames \in Seq(Frames) /\ s2.frames \in Seq(Frames)
  BY <1>1 DEF Stacks
<1> HIDE DEF b
<1>5. PICK n \in Nat \ {0}, m \in Nat : n = Len(s.frames) /\ m = Len(live)
  BY <1>1, <1>4
<1>6. longer \in Seq(Stacked) /\ Len(longer) = m + 1 /\ longer[m + 1] = b /\ \A i \in 1..m : longer[i] = live[i]
  BY <1>1, <1>3, <1>5, SMTT(30)
<1> HIDE DEF longer
<1>7. Lists(s2.frames, longer)
  <2>1. Lists(s.frames, live)
    BY <1>1 DEF FramesSound
  <2>2. s2.frames[Len(s.frames)].entries = Append(s.frames[Len(s.frames)].entries, Place(b))
    BY <1>3
  <2>3. QED
    BY <1>1, <1>3, <1>4, <2>1, <2>2, ListsPush DEF longer
<1>8. PICK e \in Seq(Places) : e = s.frames[n].entries /\ Len(e) \in Nat /\ Len(e) < FrameMax
  <2>1. n \in 1..n
    BY <1>5
  <2>2. s.frames[n].entries \in Seq(Places) /\ Len(s.frames[n].entries) \in Nat
    BY <1>4, <1>5, <2>1, EntriesArePlaces
  <2>3. Len(s.frames[n].entries) # FrameMax
    BY <1>5 DEF NeedsFrame, LastFrame
  <2>4. Len(s.frames[n].entries) <= FrameMax
    BY <1>1, <1>5, <2>1 DEF FramesSound
  <2>5. QED
    BY <2>2, <2>3, <2>4, SizesArePositive
<1>9. FramesSound(s2, longer, pages)
  <2>1. ASSUME NEW i \in 1..n
        PROVE  /\ s2.frames[i].page = s.frames[i].page
               /\ Len(s2.frames[i].entries) <= FrameMax
               /\ i < n => s2.frames[i].entries # <<>>
    <3>1. CASE i = n
      <4>1. Place(b) \in Places
        BY <1>3 DEF Place, Places, Stacked
      <4>2. s2.frames[n].entries = Append(e, Place(b))
        BY <1>3, <1>5, <1>8
      <4>3. Len(Append(e, Place(b))) = Len(e) + 1
        BY <4>1
      <4>4. Len(e) + 1 <= FrameMax
        BY <1>8, SizesArePositive
      <4>5. QED
        BY <1>5, <3>1, <4>2, <4>3, <4>4
    <3>2. CASE i # n
      <4>1. i \in 1..(n - 1) /\ i < n
        BY <1>5, <3>2
      <4>2. QED
        BY <1>1, <1>5, <4>1 DEF FramesSound
    <3>3. QED
      BY <3>1, <3>2
  <2>2. ASSUME NEW i \in 1..n, NEW k \in 1..(m + 1) PROVE longer[k].page # s.frames[i].page
    <3>1. CASE k = m + 1
      BY <1>1, <1>3, <1>5, <1>6, <3>1 DEF FramesSound
    <3>2. CASE k # m + 1
      <4>1. k \in 1..m
        BY <1>5, <3>2
      <4>2. QED
        BY <1>1, <1>5, <1>6, <4>1 DEF FramesSound
    <3>3. QED
      BY <3>1, <3>2
  <2>3. \A i \in 1..n : /\ s.frames[i].page \in pages /\ s.frames[i].page # s.page
                        /\ \A k \in 1..n : s.frames[k].page = s.frames[i].page => k = i
    BY <1>1, <1>5 DEF FramesSound
  <2>4. Len(s2.frames) = n /\ Len(longer) = m + 1
    BY <1>5, <1>6
  <2>5. ASSUME NEW i \in 1..Len(s2.frames)
        PROVE  /\ s2.frames[i].page \in pages /\ s2.frames[i].page # s2.page
               /\ Len(s2.frames[i].entries) <= FrameMax
               /\ i < Len(s2.frames) => s2.frames[i].entries # <<>>
               /\ \A k \in 1..Len(longer) : longer[k].page # s2.frames[i].page
               /\ \A k \in 1..Len(s2.frames) : s2.frames[k].page = s2.frames[i].page => k = i
    BY <2>1, <2>2, <2>3, <2>4
  <2>6. s2.page \in pages \cup {NULL} /\ s2.page # NULL
    BY <1>2
  <2>7. QED
    BY <1>7, <2>5, <2>6 DEF FramesSound
<1>10. BlocksSound(s2, longer, pages)
  <2>1. ASSUME NEW i \in 1..m
        PROVE  /\ live[i].page \in pages /\ live[i].offset + live[i].size <= PageSize
               /\ live[i].page = s.page => live[i].offset + live[i].size <= s.offset
               /\ live[i].offset + live[i].size \in Int
    <3>1. live[i] \in Stacked
      BY <1>1, <1>5
    <3>2. live[i].offset + live[i].size \in Int
      BY <3>1 DEF Stacked
    <3>3. QED
      BY <1>1, <1>5, <3>2 DEF BlocksSound
  <2>2. ASSUME NEW i \in 1..(m + 1)
        PROVE  /\ longer[i].page \in pages
               /\ longer[i].offset + longer[i].size <= PageSize
               /\ longer[i].page = s2.page => longer[i].offset + longer[i].size <= s2.offset
    <3>1. CASE i = m + 1
      BY <1>2, <1>3, <1>6, <3>1
    <3>2. CASE i # m + 1
      <4>1. i \in 1..m
        BY <1>5, <3>2
      <4>2. s.offset <= s2.offset
        BY <1>2, SizesArePositive
      <4>3. s.offset \in Int /\ s2.offset \in Int
        BY <1>2, SizesArePositive
      <4>4. longer[i] = live[i]
        BY <1>6, <4>1
      <4>5. ASSUME live[i].page = s.page PROVE live[i].offset + live[i].size <= s2.offset
        <5>1. PICK end \in Int : end = live[i].offset + live[i].size
          BY <2>1, <4>1
        <5>2. end <= s.offset
          BY <2>1, <4>1, <4>5, <5>1
        <5>3. QED
          BY <4>2, <4>3, <5>1, <5>2
      <4>6. QED
        BY <2>1, <4>1, <4>4, <4>5
    <3>3. QED
      BY <3>1, <3>2
  <2>3. ASSUME NEW i \in 1..(m + 1), NEW k \in 1..(m + 1), i < k
        PROVE  /\ longer[i].page = s2.page => longer[k].page = s2.page
               /\ longer[i].page = longer[k].page =>
                    /\ longer[i].offset + longer[i].size <= longer[k].offset
                    /\ \A j \in i..k : longer[j].page = longer[i].page
    <3>1. i \in 1..m /\ longer[i] = live[i]
      <4>1. i \in 1..m
        BY <1>5, <2>3
      <4>2. QED
        BY <1>6, <4>1
    <3>2. CASE k = m + 1
      <4>1. longer[k].page = s.page /\ longer[k].offset = s.offset
        BY <1>3, <1>6, <3>2
      <4>2. ASSUME longer[i].page = s.page, NEW j \in i..k PROVE longer[j].page = longer[i].page
        <5>1. CASE j = m + 1
          BY <1>3, <1>6, <4>2, <5>1
        <5>2. CASE j = i
          BY <5>2
        <5>3. CASE j # m + 1 /\ j # i
          <6>1. j \in 1..m /\ i < j
            BY <1>5, <3>1, <3>2, <5>3
          <6>2. live[j].page = s.page
            BY <1>1, <1>5, <3>1, <4>2, <6>1 DEF BlocksSound
          <6>3. QED
            BY <1>6, <4>2, <6>1, <6>2
        <5>4. QED
          BY <5>1, <5>2, <5>3
      <4>3. QED
        BY <2>1, <3>1, <4>1, <4>2
    <3>3. CASE k # m + 1
      <4>1. k \in 1..m /\ longer[k] = live[k]
        <5>1. k \in 1..m
          BY <1>5, <3>3
        <5>2. QED
          BY <1>6, <5>1
      <4>2. \A j \in i..k : j \in 1..m /\ longer[j] = live[j]
        <5>1. \A j \in i..k : j \in 1..m
          BY <1>5, <3>1, <4>1
        <5>2. QED
          BY <1>6, <5>1
      <4>3. /\ live[i].page = s.page => live[k].page = s.page
            /\ live[i].page = live[k].page =>
                 /\ live[i].offset + live[i].size <= live[k].offset
                 /\ \A j \in i..k : live[j].page = live[i].page
        BY <1>1, <1>5, <2>3, <3>1, <4>1 DEF BlocksSound
      <4>4. QED
        BY <3>1, <4>1, <4>2, <4>3
    <3>4. QED
      BY <3>2, <3>3
  <2>4. QED
    BY <1>6, <2>2, <2>3 DEF BlocksSound
<1>11. QED
  BY <1>6, <1>9, <1>10 DEF StackSound, longer, b

\* A page of the stack goes back.
LEMMA GivesPageBack ==
  ASSUME NEW p, NEW s, NEW live, NEW pages, StackSound(p, s, live, pages), NEW page \in pages
  PROVE  /\ Free(p, page) \in PageAllocs /\ pages \ {page} \in SUBSET Pages
         /\ Range(pool.chunks) \cap (pages \ {page}) = {}
         /\ SmallSound(Free(p, page), Range(pool.chunks) \cup (pages \ {page}))
         /\ LargeSound(Free(p, page), largeLive)
<1> DEFINE used == Range(pool.chunks) \cup pages
<1>1. /\ p \in PageAllocs /\ pages \subseteq Pages /\ Range(pool.chunks) \cap pages = {}
      /\ SmallSound(p, used) /\ LargeSound(p, largeLive) /\ page \in used
  BY DEF StackSound
<1>2. used \ {page} = Range(pool.chunks) \cup (pages \ {page})
  BY <1>1
<1> HIDE DEF used
<1>3. /\ Free(p, page) \in PageAllocs
      /\ SmallSound(Free(p, page), used \ {page}) /\ LargeSound(Free(p, page), largeLive)
  BY <1>1, FreesSmall
<1>4. QED
  BY <1>1, <1>2, <1>3

\* An empty last frame: no block lies in its page, and the frame before it is not empty.
LEMMA DropFrameSound ==
  ASSUME NEW p, NEW s, NEW live, NEW pages, StackSound(p, s, live, pages),
         live # <<>>, s.frames # <<>>, LastFrame(s).entries = <<>>
  PROVE  LET page == LastFrame(s).page
             s2 == [s EXCEPT !.frames = Front(@)]
         IN /\ page \in pages /\ StackSound(Free(p, page), s2, live, pages \ {page})
            /\ s2.page = s.page /\ s2.frames # <<>> /\ LastFrame(s2).entries # <<>>
<1> DEFINE page == LastFrame(s).page
           fewer == Front(s.frames)
           s2 == [s EXCEPT !.frames = Front(@)]
<1>1. /\ s \in Stacks /\ live \in Seq(Stacked) /\ pages \subseteq Pages
      /\ FramesSound(s, live, pages) /\ BlocksSound(s, live, pages)
  BY DEF StackSound
<1>2. s.frames \in Seq(Frames)
  BY <1>1 DEF Stacks
<1>3. PICK n \in Nat \ {0} : n = Len(s.frames)
  BY <1>2
<1>4. n \in 1..n /\ page = s.frames[n].page /\ Last(s.frames) = s.frames[n] /\ s.frames[n].entries = <<>>
  BY <1>2, <1>3 DEF LastFrame, Last
<1>5. page \in pages /\ page # s.page /\ \A k \in 1..Len(live) : live[k].page # page
  BY <1>1, <1>3, <1>4 DEF FramesSound
<1>6. /\ fewer \in Seq(Frames) /\ Len(fewer) = n - 1 /\ \A i \in 1..(n - 1) : fewer[i] = s.frames[i]
      /\ Lists(fewer, live) /\ fewer # <<>>
  <2>1. Lists(s.frames, live) /\ Last(s.frames).entries = <<>>
    BY <1>1, <1>4 DEF FramesSound
  <2>2. QED
    BY <1>1, <1>2, <1>3, <2>1, ListsDrop
<1> HIDE DEF page, fewer
<1>7. s2 \in Stacks /\ s2.page = s.page /\ s2.offset = s.offset /\ s2.frames = fewer
  BY <1>1, <1>6 DEF Stacks, fewer
<1> HIDE DEF s2
<1>8. n - 1 \in 1..(n - 1)
  BY <1>3, <1>6
<1>9. LastFrame(s2).entries # <<>>
  <2>1. LastFrame(s2) = s.frames[n - 1] /\ n - 1 \in 1..n /\ n - 1 < n
    BY <1>3, <1>6, <1>7, <1>8 DEF LastFrame
  <2>2. QED
    BY <1>1, <1>3, <2>1 DEF FramesSound
<1>10. FramesSound(s2, live, pages \ {page})
  <2>1. ASSUME NEW i \in 1..(n - 1)
        PROVE  /\ fewer[i].page \in pages \ {page} /\ fewer[i].page # s2.page
               /\ Len(fewer[i].entries) <= FrameMax
               /\ i < n - 1 => fewer[i].entries # <<>>
               /\ \A k \in 1..Len(live) : live[k].page # fewer[i].page
               /\ \A k \in 1..(n - 1) : fewer[k].page = fewer[i].page => k = i
    <3>1. i \in 1..n /\ i # n /\ i < n /\ fewer[i] = s.frames[i]
      BY <1>3, <1>6
    <3>2. \A k \in 1..(n - 1) : k \in 1..n /\ fewer[k] = s.frames[k]
      BY <1>3, <1>6
    <3>3. /\ s.frames[i].page \in pages /\ s.frames[i].page # s.page
          /\ Len(s.frames[i].entries) <= FrameMax /\ s.frames[i].entries # <<>>
          /\ \A k \in 1..Len(live) : live[k].page # s.frames[i].page
          /\ \A k \in 1..n : s.frames[k].page = s.frames[i].page => k = i
      BY <1>1, <1>3, <3>1 DEF FramesSound
    <3>4. s.frames[i].page # page
      BY <1>4, <3>1, <3>3 DEF page
    <3>5. QED
      BY <1>7, <3>1, <3>2, <3>3, <3>4
  <2>2. s2.page \in (pages \ {page}) \cup {NULL} /\ s2.page # NULL
    BY <1>1, <1>5, <1>7 DEF FramesSound
  <2>3. QED
    BY <1>6, <1>7, <2>1, <2>2 DEF FramesSound
<1>11. BlocksSound(s2, live, pages \ {page})
  BY <1>1, <1>5, <1>7 DEF BlocksSound
<1>12. StackSound(Free(p, page), s2, live, pages \ {page})
  BY <1>1, <1>5, <1>7, <1>10, <1>11, GivesPageBack DEF StackSound
<1>13. QED
  BY <1>5, <1>6, <1>7, <1>9, <1>12 DEF page, s2

\* The last block goes, and the current page with it when the block lies in another one:
\* no block that stays can lie in a page that comes after that of the last.
LEMMA PopSound ==
  ASSUME NEW p, NEW s, NEW live, NEW pages, StackSound(p, s, live, pages),
         s.frames # <<>>, LastFrame(s).entries # <<>>,
         NEW s2 \in Stacks, s2.page = Last(LastFrame(s).entries).page,
         s2.offset = Last(LastFrame(s).entries).offset,
         Len(s2.frames) = Len(s.frames),
         \A i \in 1..(Len(s.frames) - 1) : s2.frames[i] = s.frames[i],
         s2.frames[Len(s.frames)].page = s.frames[Len(s.frames)].page,
         s2.frames[Len(s.frames)].entries = Front(s.frames[Len(s.frames)].entries)
  PROVE  /\ s.page \in pages
         /\ IF s.page = s2.page THEN StackSound(p, s2, Front(live), pages)
            ELSE StackSound(Free(p, s.page), s2, Front(live), pages \ {s.page})
<1> DEFINE fewer == Front(live)
           rest == IF s.page = s2.page THEN pages ELSE pages \ {s.page}
<1>1. /\ s \in Stacks /\ live \in Seq(Stacked) /\ pages \subseteq Pages
      /\ FramesSound(s, live, pages) /\ BlocksSound(s, live, pages)
  BY DEF StackSound
<1>2. s.frames \in Seq(Frames) /\ s2.frames \in Seq(Frames) /\ s.page \in pages
  BY <1>1 DEF Stacks, FramesSound
<1>3. PICK n \in Nat \ {0} : n = Len(s.frames)
  BY <1>2
<1>4. LastFrame(s) = s.frames[n] /\ s.frames[n].entries # <<>> /\ n \in 1..n
  BY <1>3 DEF LastFrame
<1>5. /\ live # <<>> /\ Last(s.frames[n].entries) = Place(Last(live))
      /\ Lists(s2.frames, fewer)
  <2>1. Lists(s.frames, live)
    BY <1>1 DEF FramesSound
  <2>2. QED
    BY <1>1, <1>2, <1>3, <1>4, <2>1, ListsPop
<1>6. PICK m \in Nat \ {0} : m = Len(live)
  BY <1>1, <1>5
<1>7. /\ fewer \in Seq(Stacked) /\ Len(fewer) = m - 1 /\ Last(live) = live[m]
      /\ \A i \in 1..(m - 1) : fewer[i] = live[i] /\ i \in 1..m /\ i < m
  <2>1. /\ fewer \in Seq(Stacked) /\ Len(fewer) = m - 1 /\ Last(live) = live[m]
        /\ \A i \in 1..(m - 1) : fewer[i] = live[i]
    BY <1>1, <1>5, <1>6, Fronts
  <2>2. \A i \in 1..(m - 1) : i \in 1..m /\ i < m
    BY <1>6
  <2>3. QED
    BY <2>1, <2>2
<1> HIDE DEF fewer
<1>8. s2.page = live[m].page /\ s2.offset = live[m].offset /\ m \in 1..m
  BY <1>4, <1>5, <1>6, <1>7 DEF Place
<1>9. s2.page \in rest /\ s2.page # NULL
  <2>1. live[m].page \in pages
    BY <1>1, <1>6, <1>8 DEF BlocksSound
  <2>2. live[m].page \in Pages
    BY <1>1, <2>1
  <2>3. live[m].page # NULL
    BY <2>2, SizesArePositive DEF Pages, NULL
  <2>4. QED
    BY <1>8, <2>1, <2>3
<1>10. ASSUME NEW i \in 1..(m - 1)
       PROVE  /\ live[i].page \in rest /\ live[i].offset + live[i].size <= PageSize
              /\ live[i].page = s2.page => live[i].offset + live[i].size <= s2.offset
  <2>1. /\ live[i].page \in pages /\ live[i].offset + live[i].size <= PageSize
        /\ live[i].page = s.page => live[m].page = s.page
        /\ live[i].page = live[m].page => live[i].offset + live[i].size <= live[m].offset
    BY <1>1, <1>6, <1>7, <1>8 DEF BlocksSound
  <2>2. QED
    BY <1>8, <2>1
<1>11. FramesSound(s2, fewer, rest)
  <2>1. ASSUME NEW i \in 1..n
        PROVE  /\ s2.frames[i].page = s.frames[i].page
               /\ Len(s2.frames[i].entries) <= FrameMax
               /\ i < n => s2.frames[i].entries # <<>>
    <3>1. CASE i = n
      <4>1. s.frames[n].entries \in Seq(Places)
        BY <1>2, <1>3, EntriesArePlaces
      <4>2. PICK k \in Nat \ {0} : k = Len(s.frames[n].entries) /\ k <= FrameMax
        BY <1>1, <1>3, <1>4, <4>1 DEF FramesSound
      <4>3. s2.frames[n].entries = Front(s.frames[n].entries) /\ Len(s2.frames[n].entries) = k - 1
        BY <1>3, <1>4, <4>1, <4>2, Fronts
      <4>4. k - 1 <= FrameMax
        BY <4>2, SizesArePositive
      <4>5. QED
        BY <1>3, <3>1, <4>3, <4>4
    <3>2. CASE i # n
      <4>1. i \in 1..(n - 1) /\ i < n
        BY <1>3, <3>2
      <4>2. s2.frames[i] = s.frames[i]
        BY <1>3, <4>1
      <4>3. Len(s.frames[i].entries) <= FrameMax /\ s.frames[i].entries # <<>>
        BY <1>1, <1>3, <4>1 DEF FramesSound
      <4>4. QED
        BY <4>2, <4>3
    <3>3. QED
      BY <3>1, <3>2
  <2>2. \A i \in 1..n : /\ s.frames[i].page \in pages /\ s.frames[i].page # s.page
                        /\ \A k \in 1..m : live[k].page # s.frames[i].page
                        /\ \A k \in 1..n : s.frames[k].page = s.frames[i].page => k = i
    BY <1>1, <1>3, <1>6 DEF FramesSound
  <2>3. Len(s2.frames) = n
    BY <1>3
  <2>4. ASSUME NEW i \in 1..Len(s2.frames)
        PROVE  /\ s2.frames[i].page \in rest /\ s2.frames[i].page # s2.page
               /\ Len(s2.frames[i].entries) <= FrameMax
               /\ i < Len(s2.frames) => s2.frames[i].entries # <<>>
               /\ \A k \in 1..Len(fewer) : fewer[k].page # s2.frames[i].page
               /\ \A k \in 1..Len(s2.frames) : s2.frames[k].page = s2.frames[i].page => k = i
    BY <1>7, <1>8, <2>1, <2>2, <2>3
  <2>5. QED
    BY <1>5, <1>9, <2>4 DEF FramesSound
<1>12. BlocksSound(s2, fewer, rest)
  <2>1. ASSUME NEW i \in 1..(m - 1), NEW k \in 1..(m - 1), i < k
        PROVE  /\ fewer[i].page = s2.page => fewer[k].page = s2.page
               /\ fewer[i].page = fewer[k].page =>
                    /\ fewer[i].offset + fewer[i].size <= fewer[k].offset
                    /\ \A j \in i..k : fewer[j].page = fewer[i].page
    <3>1. k \in i..m /\ i \in 1..m /\ k \in 1..m /\ i < m
      BY <1>6, <2>1
    <3>2. live[i].page = live[m].page => live[k].page = live[i].page
      BY <1>1, <1>6, <1>8, <3>1 DEF BlocksSound
    <3>3. live[i].page = live[k].page =>
            /\ live[i].offset + live[i].size <= live[k].offset
            /\ \A j \in i..k : live[j].page = live[i].page
      BY <1>1, <1>6, <2>1, <3>1 DEF BlocksSound
    <3>4. \A j \in i..k : j \in 1..(m - 1)
      BY <1>6
    <3>5. QED
      BY <1>7, <1>8, <3>2, <3>3, <3>4
  <2> HIDE DEF rest
  <2>2. QED
    BY <1>7, <1>10, <2>1 DEF BlocksSound
<1>13. CASE s.page = s2.page
  BY <1>2, <1>7, <1>11, <1>12, <1>13 DEF StackSound, fewer
<1>14. CASE s.page # s2.page
  <2>1. /\ Free(p, s.page) \in PageAllocs /\ pages \ {s.page} \in SUBSET Pages
        /\ Range(pool.chunks) \cap (pages \ {s.page}) = {}
        /\ SmallSound(Free(p, s.page), Range(pool.chunks) \cup (pages \ {s.page}))
        /\ LargeSound(Free(p, s.page), largeLive)
    <3>1. PICK page \in pages : page = s.page
      BY <1>2
    <3>2. /\ Free(p, page) \in PageAllocs /\ pages \ {page} \in SUBSET Pages
          /\ Range(pool.chunks) \cap (pages \ {page}) = {}
          /\ SmallSound(Free(p, page), Range(pool.chunks) \cup (pages \ {page}))
          /\ LargeSound(Free(p, page), largeLive)
      BY GivesPageBack
    <3>3. QED
      BY <3>1, <3>2
  <2>2. rest = pages \ {s.page}
    BY <1>14
  <2> HIDE DEF rest
  <2>3. QED
    BY <1>2, <1>7, <1>11, <1>12, <1>14, <2>1, <2>2 DEF StackSound, fewer
<1>15. QED
  BY <1>2, <1>13, <1>14

\* The stack is sound before every call.
LEMMA StackIsSound == MemoryInv => StackSound(palloc, salloc, stackLive, taken)
  BY DEF MemoryInv, ShapeInv, PageInv, StackInv, StackSound

\* When only the stack moves, the rest of the invariant stays.
LEMMA StackMoves ==
  ASSUME MemoryInv, UNCHANGED <<pool, poolLive, largeLive>>,
         StackSound(palloc', salloc', stackLive', taken')
  PROVE  MemoryInv'
<1>1. ShapeInv /\ PageInv /\ PoolInv
  BY DEF MemoryInv
<1>2. ShapeInv'
  BY <1>1 DEF ShapeInv, StackSound
<1>3. PageInv'
  BY <1>1 DEF PageInv, StackSound
<1>4. PoolInv'
  BY <1>1, PoolUntouched
<1>5. StackInv'
  BY DEF StackInv, StackSound
<1>6. QED
  BY <1>2, <1>3, <1>4, <1>5 DEF MemoryInv

\* An allocation under way: where it has got to, and the pages it took.
Moves == [p : PageAllocs, s : Stacks, got : SUBSET Pages]
AllocSound(a, live) == a \in Moves /\ StackSound(a.p, a.s, live, taken \cup a.got)

\* The allocation takes a fresh data page.
LEMMA WithPageMove ==
  ASSUME NEW a, NEW live, AllocSound(a, live), Room(a.p) >= 1
  PROVE  /\ AllocSound(WithPage(a), live) /\ Room(WithPage(a).p) = Room(a.p) - 1
         /\ WithPage(a).s.page # NULL /\ WithPage(a).s.offset = 0
         /\ WithPage(a).s.frames = a.s.frames
<1> DEFINE page == NextSmall(a.p)
           s2 == [a.s EXCEPT !.page = page, !.offset = 0]
           pages == taken \cup a.got
<1>1. /\ StackSound(TakeSmall(a.p), s2, live, pages \cup {page})
      /\ s2.page = page /\ page # NULL /\ s2.offset = 0 /\ s2.frames = a.s.frames
      /\ Room(TakeSmall(a.p)) = Room(a.p) - 1
  BY WithPageSound DEF AllocSound
<1>2. /\ WithPage(a).p = TakeSmall(a.p) /\ WithPage(a).s = s2 /\ WithPage(a).got = a.got \cup {page}
      /\ WithPage(a) = [p |-> TakeSmall(a.p), got |-> a.got \cup {page}, s |-> s2]
  BY DEF WithPage
<1> HIDE DEF page, s2
<1>3. pages \cup {page} = taken \cup (a.got \cup {page})
  OBVIOUS
<1>4. TakeSmall(a.p) \in PageAllocs /\ s2 \in Stacks /\ a.got \cup {page} \in SUBSET Pages
  BY <1>1, <1>3 DEF StackSound
<1>5. WithPage(a) \in Moves
  BY <1>2, <1>4 DEF Moves
<1>6. QED
  BY <1>1, <1>2, <1>3, <1>5 DEF AllocSound

\* The allocation takes a fresh frame, which has room.
LEMMA WithFrameMove ==
  ASSUME NEW a, NEW live, AllocSound(a, live), Room(a.p) >= 1, NeedsFrame(a.s), a.s.page # NULL
  PROVE  /\ AllocSound(WithFrame(a), live) /\ Room(WithFrame(a).p) = Room(a.p) - 1
         /\ WithFrame(a).s.page = a.s.page /\ WithFrame(a).s.offset = a.s.offset
         /\ WithFrame(a).s.frames # <<>> /\ ~NeedsFrame(WithFrame(a).s)
<1> DEFINE page == NextSmall(a.p)
           s2 == [a.s EXCEPT !.frames = Append(@, [page |-> page, entries |-> <<>>])]
           pages == taken \cup a.got
<1>1. /\ StackSound(TakeSmall(a.p), s2, live, pages \cup {page})
      /\ s2.page = a.s.page /\ s2.offset = a.s.offset
      /\ s2.frames # <<>> /\ s2.frames[Len(s2.frames)].entries = <<>>
      /\ Room(TakeSmall(a.p)) = Room(a.p) - 1
  BY WithFrameSound DEF AllocSound
<1>2. /\ WithFrame(a).p = TakeSmall(a.p) /\ WithFrame(a).s = s2 /\ WithFrame(a).got = a.got \cup {page}
      /\ WithFrame(a) = [p |-> TakeSmall(a.p), got |-> a.got \cup {page}, s |-> s2]
  BY DEF WithFrame
<1> HIDE DEF page, s2
<1>3. pages \cup {page} = taken \cup (a.got \cup {page})
  OBVIOUS
<1>4. TakeSmall(a.p) \in PageAllocs /\ s2 \in Stacks /\ a.got \cup {page} \in SUBSET Pages
  BY <1>1, <1>3 DEF StackSound
<1>5. WithFrame(a) \in Moves
  BY <1>2, <1>4 DEF Moves
<1>6. ~NeedsFrame(s2)
  BY <1>1, SizesArePositive DEF NeedsFrame, LastFrame
<1>7. QED
  BY <1>1, <1>2, <1>3, <1>5, <1>6 DEF AllocSound

\* A frame with other addresses.
LEMMA EntriesReplaced ==
  ASSUME NEW frame \in Frames, NEW e
  PROVE  [frame EXCEPT !.entries = e] = [page |-> frame.page, entries |-> e]
  BY DEF Frames

\* The push writes the place of the block into the last frame and steps over the block.
LEMMA PushMove ==
  ASSUME NEW a, NEW live, AllocSound(a, live), NEW size \in 1..PageSize,
         a.s.page # NULL, a.s.offset + size <= PageSize, a.s.frames # <<>>, ~NeedsFrame(a.s)
  PROVE  LET place == [page |-> a.s.page, offset |-> a.s.offset]
         IN /\ AllocSound(Push(a, size), Append(live, [page |-> a.s.page, offset |-> a.s.offset, size |-> size]))
            /\ Push(a, size).p = a.p /\ Last(LastFrame(Push(a, size).s).entries) = place
<1> DEFINE z == Push(a, size)
<1>1. a \in Moves /\ StackSound(a.p, a.s, live, taken \cup a.got) /\ live \in Seq(Stacked)
  BY DEF AllocSound, StackSound
<1>2. a.s \in Stacks /\ a.s.frames \in Seq(Frames) /\ a.s.page \in Pages /\ a.s.offset \in 0..PageSize
  BY <1>1 DEF Moves, Stacks
<1>3. PICK n \in Nat \ {0} : n = Len(a.s.frames)
  BY <1>2
<1>4. PICK frame \in Frames : frame = a.s.frames[n]
  BY <1>2, <1>3
<1>5. PICK place \in Places : place = [page |-> a.s.page, offset |-> a.s.offset]
  BY <1>2 DEF Places
<1>16. frame.entries \in Seq(Places) /\ frame.page \in Pages
  BY <1>2, <1>4 DEF Places, Frames
<1>6. PICK e \in Seq(Places) : e = Append(frame.entries, place) /\ e # <<>> /\ Last(e) = place
  <2>1. /\ Append(frame.entries, place) \in Seq(Places) /\ Append(frame.entries, place) # <<>>
        /\ Last(Append(frame.entries, place)) = place
    BY <1>16, PutAtEnd
  <2>2. QED
    BY <2>1
<1> DEFINE last == [page |-> frame.page, entries |-> e]
           more == [a.s.frames EXCEPT ![n] = last]
           s2 == [a.s EXCEPT !.frames = more, !.offset = a.s.offset + size]
<1>7. z = [p |-> a.p, s |-> s2, got |-> a.got]
  <2>1. [a.s.frames[n] EXCEPT !.entries = Append(a.s.frames[n].entries, place)] = last
    <3>1. [frame EXCEPT !.entries = e] = last
      BY EntriesReplaced
    <3> HIDE DEF last
    <3>2. QED
      BY <1>4, <1>6, <3>1
  <2>2. [a.s.frames EXCEPT ![n].entries = Append(@, place)] = more
    <3>1. [a.s.frames EXCEPT ![n].entries = Append(@, place)]
            = [a.s.frames EXCEPT ![n] = [a.s.frames[n] EXCEPT !.entries = Append(a.s.frames[n].entries, place)]]
      OBVIOUS
    <3> HIDE DEF last
    <3>2. QED
      BY <2>1, <3>1
  <2> HIDE DEF more
  <2>3. [a.s EXCEPT !.frames[n].entries = Append(@, place), !.offset = @ + size] = s2
    <3>2. [a.s EXCEPT !.frames[n].entries = Append(@, place), !.offset = @ + size]
            = [a.s EXCEPT !.frames = [a.s.frames EXCEPT ![n].entries = Append(@, place)], !.offset = a.s.offset + size]
      OBVIOUS
    <3>3. QED
      BY <2>2, <3>2
  <2>4. [a EXCEPT !.s.frames[n].entries = Append(@, place), !.s.offset = @ + size]
          = [a EXCEPT !.s = [a.s EXCEPT !.frames[n].entries = Append(@, place), !.offset = @ + size]]
    BY <1>1 DEF Moves
  <2>5. QED
    <3>1. z = [a EXCEPT !.s.frames[n].entries = Append(@, place), !.s.offset = @ + size]
      BY <1>3, <1>5 DEF Push
    <3>2. a = [p |-> a.p, s |-> a.s, got |-> a.got]
      BY <1>1 DEF Moves
    <3> HIDE DEF z, s2
    <3>3. QED
      BY <2>3, <2>4, <3>1, <3>2
<1>8. last \in Frames /\ last.page = frame.page /\ last.entries = e
  BY <1>16 DEF Frames
<1> HIDE DEF last
<1>9. /\ more \in Seq(Frames) /\ Len(more) = n /\ more[n] = last
      /\ \A i \in 1..(n - 1) : more[i] = a.s.frames[i]
  BY <1>2, <1>3, <1>8
<1> HIDE DEF more
<1>10. s2 \in Stacks /\ s2.page = a.s.page /\ s2.offset = a.s.offset + size /\ s2.frames = more
  <2>1. a.s.offset + size \in 0..PageSize
    BY <1>2, SizesArePositive, SMTT(30)
  <2>2. QED
    BY <1>2, <1>9, <2>1 DEF Stacks
<1> HIDE DEF s2, z
<1>11. /\ Len(s2.frames) = Len(a.s.frames)
       /\ \A i \in 1..(Len(a.s.frames) - 1) : s2.frames[i] = a.s.frames[i]
       /\ s2.frames[Len(a.s.frames)].page = a.s.frames[Len(a.s.frames)].page
       /\ s2.frames[Len(a.s.frames)].entries = Append(a.s.frames[Len(a.s.frames)].entries, place)
  <2>1. Len(s2.frames) = n /\ \A i \in 1..(n - 1) : s2.frames[i] = a.s.frames[i]
    BY <1>9, <1>10
  <2>2. s2.frames[n].page = a.s.frames[n].page
    BY <1>4, <1>8, <1>9, <1>10
  <2>3. s2.frames[n].entries = Append(a.s.frames[n].entries, place)
    BY <1>4, <1>6, <1>8, <1>9, <1>10, SMTT(30)
  <2>4. QED
    BY <1>3, <1>5, <2>1, <2>2, <2>3
<1>12. StackSound(a.p, s2, Append(live, [page |-> a.s.page, offset |-> a.s.offset, size |-> size]), taken \cup a.got)
  BY <1>1, <1>5, <1>10, <1>11, PushSound
<1>13. z \in Moves /\ z.p = a.p /\ z.s = s2 /\ z.got = a.got
  BY <1>1, <1>7, <1>10 DEF Moves
<1>14. Last(LastFrame(s2).entries) = place
  BY <1>3, <1>6, <1>8, <1>9, <1>10 DEF LastFrame
<1>15. QED
  BY <1>5, <1>12, <1>13, <1>14 DEF AllocSound, z

\* fdb_stack_alloc_alloc: three pages are enough for every way through it.
LEMMA StackAllocStep ==
  ASSUME MemoryInv, NEW size \in Sizes, StackAlloc(size)
  PROVE  MemoryInv'
<1>1. size \in 1..PageSize /\ palloc \in PageAllocs /\ salloc \in Stacks
  BY SizesArePositive DEF MemoryInv, ShapeInv
<1>2. PICK room \in Int : room = Room(palloc) /\ room >= 3
  <2>1. Room(palloc) \in Int
    BY <1>1 DEF Room, PageAllocs
  <2>2. QED
    BY <2>1 DEF StackAlloc, Room
<1>3. PICK a0 : /\ a0 = [p |-> palloc, s |-> salloc, got |-> {}]
                /\ a0.p = palloc /\ a0.s = salloc /\ AllocSound(a0, stackLive)
  <2> DEFINE z == [p |-> palloc, s |-> salloc, got |-> {}]
  <2>1. z \in Moves /\ z.p = palloc /\ z.s = salloc /\ z.got = {} /\ taken \cup {} = taken
    BY <1>1 DEF Moves
  <2>2. AllocSound(z, stackLive)
    BY <2>1, StackIsSound DEF AllocSound
  <2>3. QED
    BY <2>1, <2>2
<1>4. PICK a1 : /\ a1 = IF NeedsPage(salloc, size) THEN WithPage(a0) ELSE a0
                /\ AllocSound(a1, stackLive) /\ Room(a1.p) \in {room, room - 1}
                /\ a1.s.page # NULL /\ a1.s.offset + size <= PageSize
  <2>1. CASE NeedsPage(salloc, size)
    <3>1. Room(a0.p) >= 1
      BY <1>2, <1>3
    <3>2. /\ AllocSound(WithPage(a0), stackLive) /\ Room(WithPage(a0).p) = room - 1
          /\ WithPage(a0).s.page # NULL /\ WithPage(a0).s.offset = 0
      BY <1>2, <1>3, <3>1, WithPageMove
    <3>3. WithPage(a0).s.offset + size <= PageSize
      BY <1>1, <3>2, SizesArePositive
    <3>4. QED
      BY <2>1, <3>2, <3>3
  <2>2. CASE ~NeedsPage(salloc, size)
    <3>1. salloc.page # NULL /\ salloc.offset + size <= PageSize
      <4>1. salloc.offset \in 0..PageSize
        BY <1>1 DEF Stacks
      <4>2. QED
        BY <1>1, <2>2, <4>1, SizesArePositive DEF NeedsPage
    <3>2. QED
      BY <1>2, <1>3, <2>2, <3>1
  <2>3. QED
    BY <2>1, <2>2
<1>5. PICK a2 : /\ a2 = IF NeedsFrame(a1.s) THEN WithFrame(a1) ELSE a1
                /\ AllocSound(a2, stackLive) /\ Room(a2.p) \in {room, room - 1, room - 2}
                /\ a2.s.page # NULL /\ a2.s.offset + size <= PageSize
                /\ a2.s.frames # <<>> /\ ~NeedsFrame(a2.s)
  <2>1. CASE NeedsFrame(a1.s)
    <3>1. Room(a1.p) >= 1
      BY <1>2, <1>4
    <3>2. /\ AllocSound(WithFrame(a1), stackLive) /\ Room(WithFrame(a1).p) = Room(a1.p) - 1
          /\ WithFrame(a1).s.page = a1.s.page /\ WithFrame(a1).s.offset = a1.s.offset
          /\ WithFrame(a1).s.frames # <<>> /\ ~NeedsFrame(WithFrame(a1).s)
      BY <1>4, <2>1, <3>1, WithFrameMove
    <3>3. Room(WithFrame(a1).p) \in {room - 1, room - 2}
      BY <1>2, <1>4, <3>2
    <3>4. QED
      BY <1>4, <2>1, <3>2, <3>3
  <2>2. CASE ~NeedsFrame(a1.s)
    <3>1. a1.s.frames # <<>>
      BY <2>2 DEF NeedsFrame
    <3>2. QED
      BY <1>4, <2>2, <3>1
  <2>3. QED
    BY <2>1, <2>2
<1>6. PICK b : b = [page |-> a2.s.page, offset |-> a2.s.offset, size |-> size]
  OBVIOUS
<1>7. PICK a3 : /\ a3 = Push(a2, size)
                /\ AllocSound(a3, Append(stackLive, b)) /\ Room(a3.p) >= 1
                /\ Last(LastFrame(a3.s).entries) = [page |-> a2.s.page, offset |-> a2.s.offset]
  <2>1. /\ AllocSound(Push(a2, size), Append(stackLive, b)) /\ Push(a2, size).p = a2.p
        /\ Last(LastFrame(Push(a2, size).s).entries) = [page |-> a2.s.page, offset |-> a2.s.offset]
    BY <1>1, <1>5, <1>6, PushMove
  <2>2. Room(a2.p) >= 1
    BY <1>2, <1>5
  <2>3. QED
    BY <2>1, <2>2
<1>8. PICK a4 : /\ a4 = IF a3.s.offset = PageSize THEN WithPage(a3) ELSE a3
                /\ AllocSound(a4, Append(stackLive, b)) /\ a4.s.frames = a3.s.frames
  BY <1>7, WithPageMove
<1>9. StackAllocated(size) = a4
  BY <1>3, <1>4, <1>5, <1>7, <1>8 DEF StackAllocated
<1>10. Last(LastFrame(a4.s).entries) = [page |-> a2.s.page, offset |-> a2.s.offset]
  BY <1>7, <1>8 DEF LastFrame
<1>11. /\ palloc' = a4.p /\ salloc' = a4.s /\ taken' = taken \cup a4.got
       /\ stackLive' = Append(stackLive, b) /\ UNCHANGED <<pool, poolLive, largeLive>>
  <2>1. /\ Last(LastFrame(a4.s).entries).page = a2.s.page
        /\ Last(LastFrame(a4.s).entries).offset = a2.s.offset
    BY <1>10
  <2>2. QED
    BY <1>6, <1>9, <2>1 DEF StackAlloc
<1>12. StackSound(palloc', salloc', stackLive', taken')
  BY <1>8, <1>11 DEF AllocSound
<1>13. QED
  BY <1>11, <1>12, StackMoves

\* Without frames there is no block.
LEMMA NothingListed ==
  ASSUME NEW frames \in Seq(Frames), NEW live \in Seq(Stacked), Lists(frames, live), live # <<>>
  PROVE  frames # <<>>
<1> SUFFICES ASSUME frames = <<>> PROVE FALSE
  OBVIOUS
<1>1. Len(frames) = 0
  OBVIOUS
<1>2. PICK at \in [0..0 -> 0..Len(live)] : Starts(at, frames, live)
  BY <1>1 DEF Lists
<1>3. Len(live) = 0
  BY <1>1, <1>2 DEF Starts
<1>4. QED
  BY <1>3

\* fdb_stack_alloc_pop.
LEMMA StackPopStep == MemoryInv /\ StackPop => MemoryInv'
<1> SUFFICES ASSUME MemoryInv, StackPop PROVE MemoryInv'
  OBVIOUS
<1>1. /\ palloc \in PageAllocs /\ salloc \in Stacks /\ stackLive # <<>> /\ stackLive \in Seq(Stacked)
      /\ taken \in SUBSET Pages /\ StackSound(palloc, salloc, stackLive, taken)
  BY StackIsSound DEF MemoryInv, ShapeInv, StackPop
<1>2. salloc.frames # <<>>
  BY <1>1, NothingListed DEF StackSound, FramesSound, Stacks
<1> DEFINE a0 == [p |-> palloc, s |-> salloc, got |-> {}]
<1>3. PICK a : /\ a = WithoutEmptyFrame(a0) /\ a = [p |-> a.p, s |-> a.s, got |-> a.got]
               /\ StackSound(a.p, a.s, stackLive, taken \ a.got)
               /\ a.s.frames # <<>> /\ LastFrame(a.s).entries # <<>>
  <2>1. a0.p = palloc /\ a0.s = salloc /\ a0.got = {} /\ taken \ {} = taken
    OBVIOUS
  <2>2. CASE LastFrame(salloc).entries # <<>>
    <3>1. WithoutEmptyFrame(a0) = a0
      BY <2>1, <2>2 DEF WithoutEmptyFrame
    <3>2. StackSound(a0.p, a0.s, stackLive, taken \ a0.got)
      BY <1>1, <2>1
    <3>3. a0 = [p |-> a0.p, s |-> a0.s, got |-> a0.got]
      BY <2>1
    <3>4. a0.s.frames # <<>> /\ LastFrame(a0.s).entries # <<>>
      BY <1>2, <2>1, <2>2
    <3> HIDE DEF a0
    <3>5. QED
      BY <3>1, <3>2, <3>3, <3>4
  <2>3. CASE LastFrame(salloc).entries = <<>>
    <3> DEFINE page == LastFrame(salloc).page
               s2 == [salloc EXCEPT !.frames = Front(@)]
               z == [p |-> Free(palloc, page), got |-> {page}, s |-> s2]
    <3>1. /\ StackSound(Free(palloc, page), s2, stackLive, taken \ {page})
          /\ s2.frames # <<>> /\ LastFrame(s2).entries # <<>>
      BY <1>1, <1>2, <2>3, DropFrameSound
    <3>2. WithoutEmptyFrame(a0) = z
      BY <2>1, <2>3 DEF WithoutEmptyFrame
    <3> HIDE DEF page, s2
    <3>3. z.p = Free(palloc, page) /\ z.s = s2 /\ z.got = {page} /\ z = [p |-> z.p, s |-> z.s, got |-> z.got]
      OBVIOUS
    <3> HIDE DEF z, a0
    <3>4. QED
      BY <3>1, <3>2, <3>3
  <2>4. QED
    BY <2>2, <2>3
<1> HIDE DEF a0
<1>4. a.s \in Stacks /\ a.s.frames \in Seq(Frames)
  BY <1>3 DEF StackSound, Stacks
<1>5. PICK n \in Nat \ {0} : n = Len(a.s.frames)
  BY <1>3, <1>4
<1>6. PICK frame \in Frames : frame = a.s.frames[n] /\ frame = LastFrame(a.s)
  BY <1>4, <1>5 DEF LastFrame
<1>7. PICK e \in Seq(Places) : e = frame.entries /\ e # <<>>
  BY <1>3, <1>6 DEF Frames
<1>8. PICK addr \in Places : addr = Last(e)
  BY <1>7, Fronts
<1>9. Front(e) \in Seq(Places) /\ addr.page \in Pages /\ addr.offset \in 0..PageSize /\ frame.page \in Pages
  BY <1>6, <1>7, <1>8, Fronts DEF Places, Frames
<1> DEFINE last == [page |-> frame.page, entries |-> Front(e)]
           more == [a.s.frames EXCEPT ![n] = last]
           s2 == [a.s EXCEPT !.frames = more, !.page = addr.page, !.offset = addr.offset]
           popped == [a.s EXCEPT !.frames[Len(a.s.frames)].entries = Front(@),
                                 !.page = addr.page, !.offset = addr.offset]
<1>10. popped = s2
  <2>1. [frame EXCEPT !.entries = Front(e)] = last
    BY EntriesReplaced
  <2> HIDE DEF last
  <2>2. [a.s.frames[n] EXCEPT !.entries = Front(a.s.frames[n].entries)] = last
    BY <1>6, <1>7, <2>1
  <2>3. [a.s.frames EXCEPT ![n].entries = Front(@)]
          = [a.s.frames EXCEPT ![n] = [a.s.frames[n] EXCEPT !.entries = Front(a.s.frames[n].entries)]]
    OBVIOUS
  <2>4. [a.s.frames EXCEPT ![n].entries = Front(@)] = more
    BY <2>2, <2>3
  <2> HIDE DEF more
  <2>5. popped = [a.s EXCEPT !.frames = [a.s.frames EXCEPT ![n].entries = Front(@)],
                             !.page = addr.page, !.offset = addr.offset]
    BY <1>5
  <2>6. QED
    BY <2>4, <2>5
<1>11. last \in Frames /\ last.page = frame.page /\ last.entries = Front(e)
  BY <1>9 DEF Frames
<1> HIDE DEF last, popped
<1>12. /\ more \in Seq(Frames) /\ Len(more) = n /\ more[n] = last
       /\ \A i \in 1..(n - 1) : more[i] = a.s.frames[i]
  BY <1>4, <1>5, <1>11
<1> HIDE DEF more
<1>13. s2 \in Stacks /\ s2.page = addr.page /\ s2.offset = addr.offset /\ s2.frames = more
  BY <1>4, <1>9, <1>12 DEF Stacks
<1> HIDE DEF s2
<1>14. /\ s2.page = Last(LastFrame(a.s).entries).page /\ s2.offset = Last(LastFrame(a.s).entries).offset
       /\ Len(s2.frames) = Len(a.s.frames)
       /\ \A i \in 1..(Len(a.s.frames) - 1) : s2.frames[i] = a.s.frames[i]
       /\ s2.frames[Len(a.s.frames)].page = a.s.frames[Len(a.s.frames)].page
       /\ s2.frames[Len(a.s.frames)].entries = Front(a.s.frames[Len(a.s.frames)].entries)
  BY <1>5, <1>6, <1>7, <1>8, <1>11, <1>12, <1>13
<1>15. PICK pages : pages = taken \ a.got
  OBVIOUS
<1>16. /\ a.s.page \in pages
       /\ IF a.s.page = s2.page THEN StackSound(a.p, s2, Front(stackLive), pages)
          ELSE StackSound(Free(a.p, a.s.page), s2, Front(stackLive), pages \ {a.s.page})
  <2>1. PICK q, s, live : q = a.p /\ s = a.s /\ live = stackLive
    OBVIOUS
  <2>2. StackSound(q, s, live, pages) /\ s.frames # <<>> /\ LastFrame(s).entries # <<>>
    BY <1>3, <1>15, <2>1
  <2>3. /\ s2.page = Last(LastFrame(s).entries).page /\ s2.offset = Last(LastFrame(s).entries).offset
        /\ Len(s2.frames) = Len(s.frames)
        /\ \A i \in 1..(Len(s.frames) - 1) : s2.frames[i] = s.frames[i]
        /\ s2.frames[Len(s.frames)].page = s.frames[Len(s.frames)].page
        /\ s2.frames[Len(s.frames)].entries = Front(s.frames[Len(s.frames)].entries)
    BY <1>14, <2>1
  <2>4. /\ s.page \in pages
        /\ IF s.page = s2.page THEN StackSound(q, s2, Front(live), pages)
           ELSE StackSound(Free(q, s.page), s2, Front(live), pages \ {s.page})
    BY <1>13, <2>2, <2>3, PopSound
  <2>5. QED
    BY <2>1, <2>4
<1>17. StackPopped = IF a.s.page = addr.page THEN [a EXCEPT !.s = s2]
                     ELSE [p |-> Free(a.p, a.s.page), got |-> a.got \cup {a.s.page}, s |-> s2]
  BY <1>3, <1>6, <1>7, <1>8, <1>10 DEF StackPopped, a0, popped
<1>18. StackSound(StackPopped.p, StackPopped.s, Front(stackLive), taken \ StackPopped.got)
  <2>1. CASE a.s.page = addr.page
    <3>1. StackPopped.p = a.p /\ StackPopped.s = s2 /\ StackPopped.got = a.got
      BY <1>3, <1>17, <2>1
    <3>2. QED
      BY <1>13, <1>15, <1>16, <2>1, <3>1
  <2>2. CASE a.s.page # addr.page
    <3>1. /\ StackPopped.p = Free(a.p, a.s.page) /\ StackPopped.s = s2
          /\ StackPopped.got = a.got \cup {a.s.page}
      BY <1>17, <2>2
    <3>2. taken \ StackPopped.got = pages \ {a.s.page}
      BY <1>15, <3>1
    <3>3. QED
      BY <1>13, <1>16, <2>2, <3>1, <3>2
  <2>3. QED
    BY <2>1, <2>2
<1>19. /\ palloc' = StackPopped.p /\ salloc' = StackPopped.s /\ taken' = taken \ StackPopped.got
       /\ stackLive' = Front(stackLive) /\ UNCHANGED <<pool, poolLive, largeLive>>
  BY DEF StackPop
<1>20. StackSound(palloc', salloc', stackLive', taken')
  BY <1>18, <1>19
<1>21. QED
  BY <1>19, <1>20, StackMoves

\* The pages of the last addresses of the frames, in their order.
LastPages(frames) == [i \in DOMAIN frames |-> Last(frames[i].entries).page]

\* They are pages of blocks, so that none returns after another came.
LEMMA LastsInOrder ==
  ASSUME NEW s, NEW pages \in SUBSET Pages, NEW frames \in Seq(Frames), NEW live \in Seq(Stacked),
         Lists(frames, live), BlocksSound(s, live, pages),
         \A i \in 1..Len(frames) : frames[i].entries # <<>>
  PROVE  /\ LastPages(frames) \in Seq(pages) /\ Len(LastPages(frames)) = Len(frames)
         /\ \A i \in 1..Len(frames) : \E k \in 1..Len(live) : LastPages(frames)[i] = live[k].page
         /\ Grouped(LastPages(frames))
<1>1. PICK n \in Nat, m \in Nat : n = Len(frames) /\ m = Len(live)
  OBVIOUS
<1>2. PICK at \in [0..n -> 0..m] : Starts(at, frames, live)
  BY <1>1 DEF Lists
<1> DEFINE q == LastPages(frames)
<1>3. ASSUME NEW i \in 1..n PROVE at[i] \in 1..m /\ q[i] = live[at[i]].page
  <2>1. PICK e \in Seq(Places) : e = frames[i].entries /\ e # <<>>
    BY <1>1, EntriesArePlaces
  <2>2. PICK l \in Nat \ {0} : l = Len(e) /\ Last(e) = e[l]
    BY <2>1 DEF Last
  <2>3. i - 1 \in 0..n /\ i \in 0..n
    OBVIOUS
  <2>4. PICK a \in 0..m : a = at[i - 1]
    BY <1>2, <2>3
  <2>5. at[i] \in 0..m
    BY <1>2, <2>3
  <2>6. at[i] = a + l /\ Covers(e, live, a)
    BY <1>1, <1>2, <2>1, <2>2, <2>4 DEF Starts
  <2>7. e[l] = Place(live[a + l]) /\ a \in Nat
    BY <2>2, <2>4, <2>6 DEF Covers
  <2>8. at[i] \in 1..m
    <3>1. a + l >= 1
      BY <2>2, <2>7
    <3>2. QED
      BY <2>5, <2>6, <3>1
  <2>9. q[i] = Last(e).page
    BY <1>1, <2>1 DEF LastPages
  <2>10. QED
    BY <2>2, <2>6, <2>7, <2>8, <2>9 DEF Place
<1>4. DOMAIN frames = 1..n
  BY <1>1
<1>5. \A i \in 1..m : live[i].page \in pages
  BY <1>1 DEF BlocksSound
<1>6. q = [i \in 1..n |-> q[i]]
  BY <1>4 DEF LastPages
<1> HIDE DEF q
<1>7. \A i \in 1..n : q[i] \in pages
  BY <1>3, <1>5
<1>8. q \in Seq(pages) /\ Len(q) = n
  BY <1>1, <1>6, <1>7
<1>9. ASSUME NEW i \in 1..n, NEW j \in 1..n, NEW k \in 1..n, i < j, j < k, q[i] = q[k]
      PROVE  q[j] = q[i]
  <2>1. PICK x \in 1..m, y \in 1..m, z \in 1..m : x = at[i] /\ y = at[j] /\ z = at[k]
    BY <1>3
  <2>2. x <= y /\ y <= z
    <3>1. i \in 0..n /\ j \in 0..n /\ k \in 0..n /\ i <= j /\ j <= k
      BY <1>9
    <3>2. at[i] <= at[j] /\ at[j] <= at[k]
      BY <1>1, <1>2, <3>1, StartsGrow
    <3>3. QED
      BY <2>1, <3>2
  <2>3. CASE x = z
    <3>1. x = y
      BY <2>2, <2>3
    <3>2. QED
      BY <1>3, <2>1, <3>1
  <2>4. CASE x # z
    <3>1. x < z /\ y \in x..z
      BY <2>2, <2>4
    <3>2. live[x].page = live[z].page
      BY <1>3, <1>9, <2>1
    <3>3. live[y].page = live[x].page
      BY <1>1, <3>1, <3>2 DEF BlocksSound
    <3>4. QED
      BY <1>3, <2>1, <3>3
  <2>5. QED
    BY <2>3, <2>4
<1>10. Grouped(q)
  BY <1>8, <1>9 DEF Grouped
<1>11. QED
  BY <1>1, <1>3, <1>8, <1>10 DEF q

\* Nor when they are read from the last to the first.
LEMMA GroupedBackwards ==
  ASSUME NEW S, NEW q \in Seq(S), Grouped(q)
  PROVE  Grouped(Reverse(q))
<1>1. PICK n \in Nat : n = Len(q)
  OBVIOUS
<1>2. PICK r : r = Reverse(q) /\ Len(r) = n /\ \A i \in 1..n : r[i] = q[n - i + 1]
  BY <1>1, ReadBackwards
<1>3. ASSUME NEW i \in 1..n, NEW j \in 1..n, NEW k \in 1..n, i < j, j < k, r[i] = r[k]
      PROVE  r[j] = r[i]
  <2>1. PICK x \in 1..n, y \in 1..n, z \in 1..n :
          x = n - k + 1 /\ y = n - j + 1 /\ z = n - i + 1 /\ x < y /\ y < z
    <3>1. n - k + 1 \in 1..n /\ n - j + 1 \in 1..n /\ n - i + 1 \in 1..n
      BY <1>1
    <3>2. n - k + 1 < n - j + 1 /\ n - j + 1 < n - i + 1
      BY <1>1, <1>3
    <3>3. QED
      BY <3>1, <3>2
  <2>2. r[i] = q[z] /\ r[j] = q[y] /\ r[k] = q[x]
    BY <1>2, <2>1
  <2>3. q[y] = q[x]
    <3>1. q[x] = q[z]
      BY <1>3, <2>2
    <3>2. x < y /\ y < z
      BY <2>1
    <3>3. x \in 1..Len(q) /\ y \in 1..Len(q) /\ z \in 1..Len(q)
      BY <1>1
    <3>4. QED
      BY <3>1, <3>2, <3>3, Zenon DEF Grouped
  <2>4. QED
    BY <1>3, <2>2, <2>3
<1>4. QED
  BY <1>2, <1>3 DEF Grouped

\* A flush frees each page of the stack that it frees once.
LEMMA FlushedIsTaken ==
  ASSUME MemoryInv, salloc.frames # <<>>
  PROVE  Flushed \in Seq(taken) /\ IsInjective(Flushed) /\ Range(Flushed) \subseteq taken
<1>1. /\ salloc \in Stacks /\ stackLive \in Seq(Stacked) /\ taken \in SUBSET Pages
      /\ FramesSound(salloc, stackLive, taken) /\ BlocksSound(salloc, stackLive, taken)
  BY DEF MemoryInv, ShapeInv, StackInv
<1>2. salloc.frames \in Seq(Frames) /\ Lists(salloc.frames, stackLive)
  BY <1>1 DEF Stacks, FramesSound
<1>3. PICK n \in Nat \ {0} : n = Len(salloc.frames) /\ DOMAIN salloc.frames = 1..n
  BY <1>2
<1>4. \A i \in 1..(n - 1) : i \in 1..n /\ salloc.frames[i].entries # <<>>
  <2>1. \A i \in 1..(n - 1) : i \in 1..n /\ i < n
    BY <1>3
  <2>2. QED
    BY <1>1, <1>3, <2>1 DEF FramesSound
<1> DEFINE full == IF salloc.frames # <<>> /\ LastFrame(salloc).entries = <<>>
                     THEN Front(salloc.frames) ELSE salloc.frames
<1>5. /\ full \in Seq(Frames) /\ Lists(full, stackLive)
      /\ \A i \in 1..Len(full) : full[i].entries # <<>>
  <2>1. CASE LastFrame(salloc).entries = <<>>
    <3>1. full = Front(salloc.frames)
      BY <2>1
    <3>2. Last(salloc.frames).entries = <<>>
      BY <1>2, <2>1 DEF LastFrame, Last
    <3>3. /\ Front(salloc.frames) \in Seq(Frames) /\ Len(Front(salloc.frames)) = n - 1
          /\ \A i \in 1..(n - 1) : Front(salloc.frames)[i] = salloc.frames[i]
          /\ Lists(Front(salloc.frames), stackLive)
      BY <1>1, <1>2, <1>3, <3>2, ListsDrop
    <3> HIDE DEF full
    <3>4. QED
      BY <1>4, <3>1, <3>3
  <2>2. CASE LastFrame(salloc).entries # <<>>
    <3>1. full = salloc.frames /\ salloc.frames[n].entries # <<>>
      BY <1>3, <2>2 DEF LastFrame
    <3>2. \A i \in 1..n : i = n \/ i \in 1..(n - 1)
      BY <1>3
    <3> HIDE DEF full
    <3>3. QED
      BY <1>2, <1>3, <1>4, <3>1, <3>2
  <2>3. QED
    BY <2>1, <2>2
<1> HIDE DEF full
<1>17. /\ LastPages(full) \in Seq(taken) /\ Len(LastPages(full)) = Len(full) /\ Grouped(LastPages(full))
       /\ \A i \in 1..Len(full) : \E k \in 1..Len(stackLive) : LastPages(full)[i] = stackLive[k].page
  <2>1. PICK frames \in Seq(Frames), live \in Seq(Stacked) : frames = full /\ live = stackLive
    BY <1>1, <1>5
  <2>2. /\ Lists(frames, live) /\ BlocksSound(salloc, live, taken)
        /\ \A i \in 1..Len(frames) : frames[i].entries # <<>>
    BY <1>1, <1>5, <2>1
  <2>3. /\ LastPages(frames) \in Seq(taken) /\ Len(LastPages(frames)) = Len(frames)
        /\ \A i \in 1..Len(frames) : \E k \in 1..Len(live) : LastPages(frames)[i] = live[k].page
        /\ Grouped(LastPages(frames))
    BY <1>1, <2>2, LastsInOrder
  <2>4. QED
    BY <2>1, <2>3
<1> DEFINE q == LastPages(full)
           observed == Observed(Reverse(q))
<1>6. /\ q \in Seq(taken) /\ Len(q) = Len(full) /\ Grouped(q)
      /\ \A i \in 1..Len(full) : \E k \in 1..Len(stackLive) : q[i] = stackLive[k].page
  BY <1>17
<1> HIDE DEF q
<1>7. Reverse(q) \in Seq(taken) /\ Range(Reverse(q)) = Range(q) /\ Grouped(Reverse(q))
  BY <1>6, ReadBackwards, GroupedBackwards
<1>8. observed \in Seq(taken) /\ IsInjective(observed) /\ Range(observed) = Range(q)
  BY <1>7, ObservesOnce
<1> HIDE DEF observed
<1> DEFINE own == [i \in DOMAIN salloc.frames |-> salloc.frames[i].page]
<1>9. \A i \in 1..n : /\ salloc.frames[i].page \in taken
                      /\ \A k \in 1..Len(stackLive) : stackLive[k].page # salloc.frames[i].page
                      /\ \A k \in 1..n : salloc.frames[k].page = salloc.frames[i].page => k = i
  BY <1>1, <1>3 DEF FramesSound
<1>10. own \in Seq(taken) /\ IsInjective(own) /\ DOMAIN own = 1..n /\ \A i \in 1..n : own[i] = salloc.frames[i].page
  <2>1. own = [i \in 1..n |-> salloc.frames[i].page]
    BY <1>3
  <2>2. own \in Seq(taken)
    BY <1>3, <1>9, <2>1
  <2>3. DOMAIN own = 1..n /\ \A i \in 1..n : own[i] = salloc.frames[i].page
    BY <2>1
  <2> HIDE DEF own
  <2>4. IsInjective(own)
    BY <1>9, <2>3 DEF IsInjective
  <2>5. QED
    BY <2>2, <2>3, <2>4
<1> HIDE DEF own
<1>11. Reverse(own) \in Seq(taken) /\ IsInjective(Reverse(own)) /\ Range(Reverse(own)) = Range(own)
  BY <1>10, ReadBackwards
<1>12. Range(q) \cap Range(own) = {}
  <2> SUFFICES ASSUME NEW page \in Range(q), page \in Range(own) PROVE FALSE
    OBVIOUS
  <2>1. PICK i \in 1..Len(full) : page = q[i]
    BY <1>6 DEF Range
  <2>2. PICK k \in 1..Len(stackLive) : page = stackLive[k].page
    BY <1>6, <2>1
  <2>3. PICK j \in 1..n : page = salloc.frames[j].page
    BY <1>10 DEF Range
  <2>4. QED
    BY <1>9, <2>2, <2>3
<1>13. Flushed = observed \o Reverse(own)
  BY DEF Flushed, observed, own, q, full, LastPages
<1>14. observed \o Reverse(own) \in Seq(taken) /\ IsInjective(observed \o Reverse(own))
  BY <1>8, <1>11, <1>12, PutTogether
<1>15. Flushed \in Seq(taken) /\ IsInjective(Flushed)
  BY <1>13, <1>14
<1>16. QED
  BY <1>15, RangeOfSeq

\* fdb_stack_alloc_release.
LEMMA StackReleaseStep == MemoryInv /\ StackRelease => MemoryInv'
<1> SUFFICES ASSUME MemoryInv, StackRelease PROVE MemoryInv'
  OBVIOUS
<1>1. /\ palloc' = FreeAll(palloc, Flushed) /\ salloc' = StackInit /\ stackLive' = <<>>
      /\ taken' = taken \ Range(Flushed) /\ UNCHANGED <<pool, poolLive, largeLive>>
      /\ Flushed \in Seq(taken) /\ IsInjective(Flushed) /\ Range(Flushed) \subseteq taken
  BY FlushedIsTaken DEF StackRelease
<1> DEFINE used == Range(pool.chunks) \cup taken
<1>2. /\ palloc \in PageAllocs /\ taken \in SUBSET Pages /\ Range(pool.chunks) \cap taken = {}
      /\ SmallSound(palloc, used) /\ LargeSound(palloc, largeLive) /\ used \in SUBSET Pages
  <2>1. Range(pool.chunks) \subseteq Pages
    BY RangeOfSeq DEF MemoryInv, ShapeInv
  <2>2. QED
    BY <2>1 DEF MemoryInv, ShapeInv, PageInv
<1>3. used \ Range(Flushed) = Range(pool.chunks) \cup taken'
  BY <1>1, <1>2
<1>4. Flushed \in Seq(used)
  BY <1>1, SeqMonotonic
<1> HIDE DEF used
<1>5. /\ palloc' \in PageAllocs /\ LargeSound(palloc', largeLive)
      /\ SmallSound(palloc', used \ Range(Flushed))
  BY <1>1, <1>2, <1>4, FreesAll
<1>6. StackInit \in Stacks /\ StackInit.frames = <<>> /\ StackInit.page = NULL
  BY SizesArePositive DEF StackInit, Stacks
<1>7. Lists(<<>>, <<>>)
  <2> DEFINE at == [i \in 0..0 |-> 0]
  <2>1. at \in [0..0 -> 0..0] /\ at[0] = 0 /\ Len(<<>>) = 0 /\ 1..0 = {}
    OBVIOUS
  <2> HIDE DEF at
  <2>2. Starts(at, <<>>, <<>>)
    BY <2>1 DEF Starts
  <2>3. QED
    BY <2>1, <2>2 DEF Lists
<1>8. FramesSound(StackInit, <<>>, taken') /\ BlocksSound(StackInit, <<>>, taken')
  BY <1>6, <1>7 DEF FramesSound, BlocksSound
<1>9. StackSound(palloc', salloc', stackLive', taken')
  <2>1. taken' \in SUBSET Pages /\ Range(pool.chunks) \cap taken' = {}
    BY <1>1, <1>2
  <2>2. SmallSound(palloc', Range(pool.chunks) \cup taken')
    BY <1>3, <1>5
  <2>3. <<>> \in Seq(Stacked)
    OBVIOUS
  <2>4. salloc' \in Stacks /\ FramesSound(salloc', <<>>, taken') /\ BlocksSound(salloc', <<>>, taken')
    BY <1>1, <1>6, <1>8
  <2>5. stackLive' = <<>>
    BY <1>1
  <2>6. QED
    BY <1>5, <2>1, <2>2, <2>3, <2>4, <2>5 DEF StackSound
<1>10. QED
  BY <1>1, <1>9, StackMoves

---------------------------------------------------------------------------
\* The first state.
LEMMA MemoryInit == Init => MemoryInv
<1> SUFFICES ASSUME Init PROVE MemoryInv
  OBVIOUS
<1> USE SizesArePositive
<1>1. /\ palloc = [stop |-> 0, ltop |-> RegionSize - LargeSize, sfree |-> <<>>, lfree |-> <<>>]
      /\ pool = [chunks |-> <<>>, free |-> <<>>, next |-> 0] /\ poolLive = {}
      /\ salloc = [page |-> NULL, offset |-> 0, frames |-> <<>>] /\ stackLive = <<>>
      /\ largeLive = {} /\ taken = {}
  BY DEF Init, PageAllocInit, PoolInit, StackInit
<1>2. Range(<<>>) = {} /\ IsInjective(<<>>) /\ Cardinality({}) = 0 /\ IsFiniteSet({})
  BY FS_EmptySet DEF Range, IsInjective
<1>3. palloc \in PageAllocs
  <2>1. RegionSize - LargeSize \in Int /\ 0 \in 0..RegionSize
    OBVIOUS
  <2>2. QED
    BY <1>1, <2>1 DEF PageAllocs
<1>4. salloc \in Stacks /\ pool \in [chunks : Seq(Pages), free : Seq(Places), next : Nat]
  BY <1>1 DEF Stacks
<1>5. ShapeInv
  BY <1>1, <1>2, <1>3, <1>4 DEF ShapeInv
<1>6. SmallSound(palloc, {}) /\ LargeSound(palloc, {})
  BY <1>1, <1>2 DEF SmallSound, LargeSound
<1>7. PageInv
  BY <1>1, <1>2, <1>6 DEF PageInv
<1>8. PoolInv
  BY <1>1, <1>2 DEF PoolInv, PoolBlocksSound
<1>9. Lists(<<>>, <<>>)
  <2> DEFINE at == [i \in 0..0 |-> 0]
  <2>1. at \in [0..0 -> 0..0] /\ at[0] = 0 /\ Len(<<>>) = 0 /\ 1..0 = {}
    OBVIOUS
  <2> HIDE DEF at
  <2>2. Starts(at, <<>>, <<>>)
    BY <2>1 DEF Starts
  <2>3. QED
    BY <2>1, <2>2 DEF Lists
<1>10. StackInv
  BY <1>1, <1>9 DEF StackInv, FramesSound, BlocksSound
<1>11. QED
  BY <1>5, <1>7, <1>8, <1>10 DEF MemoryInv

\* Every call.
LEMMA MemoryStep == MemoryInv /\ [Next]_vars => MemoryInv'
<1> SUFFICES ASSUME MemoryInv, [Next]_vars PROVE MemoryInv'
  OBVIOUS
<1>1. CASE PoolAlloc
  BY <1>1, PoolAllocStep
<1>2. CASE \E block \in poolLive : PoolFree(block)
  BY <1>2, PoolFreeStep
<1>3. CASE PoolRelease
  BY <1>3, PoolReleaseStep
<1>4. CASE \E size \in Sizes : StackAlloc(size)
  BY <1>4, StackAllocStep
<1>5. CASE StackPop
  BY <1>5, StackPopStep
<1>6. CASE StackRelease
  BY <1>6, StackReleaseStep
<1>7. CASE LargeAlloc \/ \E page \in largeLive : LargeFree(page)
  BY <1>7, LargeStep
<1>8. CASE UNCHANGED vars
  <2>1. ShapeInv' /\ PageInv'
    BY <1>8 DEF vars, MemoryInv, ShapeInv, PageInv
  <2>2. PoolInv' /\ StackInv'
    BY <1>8, PoolUntouched, StackUntouched DEF vars, MemoryInv
  <2>3. QED
    BY <2>1, <2>2 DEF MemoryInv
<1>9. QED
  BY <1>1, <1>2, <1>3, <1>4, <1>5, <1>6, <1>7, <1>8 DEF Next

\* The pages and the blocks stay as MemoryInv says, for any sizes and any sequence of calls.
THEOREM MemoryInvariant == Spec => []MemoryInv
  BY MemoryInit, MemoryStep, PTL DEF Spec

---------------------------------------------------------------------------
(* What the runs check.                                                    *)

\* The type invariant of the allocators.
LEMMA MemoryTypeFollows == MemoryInv => MemoryTypeOK
<1> SUFFICES ASSUME MemoryInv PROVE MemoryTypeOK
  OBVIOUS
<1>1. /\ palloc \in PageAllocs /\ pool.chunks \in Seq(Pages) /\ salloc \in Stacks
      /\ largeLive \in SUBSET Pages /\ taken \in SUBSET Pages /\ LargeSound(palloc, largeLive)
  BY DEF MemoryInv, ShapeInv, PageInv
<1>2. Range(palloc.sfree) \subseteq Pages /\ Range(pool.chunks) \subseteq Pages
  BY <1>1, RangeOfSeq DEF PageAllocs
<1>3. palloc.stop \in 0..RegionSize /\ palloc.ltop \in (-LargeSize)..RegionSize
  BY <1>1, SizesArePositive DEF PageAllocs, LargeSound
<1>4. salloc.page \in Pages \cup {NULL} /\ salloc.offset \in 0..PageSize
  BY <1>1 DEF Stacks
<1>5. QED
  BY <1>1, <1>2, <1>3, <1>4 DEF MemoryTypeOK

\* Every page has one owner: fdb_page_alloc_t never hands out a page twice, and the pool
\* and the stack lose none.
LEMMA PagesSoundFollows == MemoryInv => PagesSound
<1> SUFFICES ASSUME MemoryInv PROVE PagesSound
  OBVIOUS
<1>1. /\ palloc \in PageAllocs /\ largeLive \in SUBSET Pages /\ PageInv
  BY DEF MemoryInv, ShapeInv
<1>2. palloc.lfree \in Seq(Pages) /\ palloc.stop \in Int /\ palloc.ltop \in Int
  BY <1>1 DEF PageAllocs
<1> DEFINE large == largeLive \cup Range(palloc.lfree)
<1>3. large \subseteq Pages
  BY <1>1, <1>2, RangeOfSeq
<1>4. ASSUME NEW page \in large
      PROVE  page \in Int /\ page >= palloc.ltop + LargeSize /\ page + LargeSize <= RegionSize
  BY <1>1, <1>3 DEF Pages, PageInv, LargeSound
<1>5. ASSUME NEW p \in large, NEW q \in large, p < q PROVE Units(p) \cap Units(q) = {}
  <2>1. p + LargeSize <= q
    BY <1>1, <1>5 DEF PageInv, LargeSound
  <2>2. p \in Int /\ q \in Int /\ LargeSize \in Nat
    BY <1>4, SizesArePositive
  <2>3. QED
    BY <2>1, <2>2 DEF Units
<1>6. ASSUME NEW p \in large, NEW q \in large PROVE p = q \/ Units(p) \cap Units(q) = {}
  <2>1. p = q \/ p < q \/ q < p
    BY <1>4
  <2>2. QED
    BY <1>5, <2>1
<1>7. ASSUME NEW p \in large PROVE Units(p) \subseteq palloc.stop..(RegionSize - 1)
  <2>1. palloc.stop <= palloc.ltop + LargeSize
    BY <1>1 DEF PageInv, LargeSound
  <2>2. QED
    BY <1>2, <1>4, <2>1, SizesArePositive DEF Units
<1>8. PagesDisjoint
  BY <1>1, <1>6, <1>7 DEF PagesDisjoint, PageInv, SmallSound, LargeSound
<1>9. NoPageLost
  BY <1>1 DEF NoPageLost, PageInv, SmallSound
<1>10. QED
  BY <1>8, <1>9 DEF PagesSound

\* A part of a list, and what follows it.
LEMMA PartsJoin ==
  ASSUME NEW S, NEW s \in Seq(S), NEW e \in Seq(S), NEW a \in Nat, a + Len(e) <= Len(s),
         \A j \in 1..Len(e) : e[j] = s[a + j]
  PROVE  SubSeq(s, 1, a) \o e = SubSeq(s, 1, a + Len(e))
<1>1. PICK k \in Nat, n \in Nat : k = Len(e) /\ n = Len(s)
  OBVIOUS
<1>2. \A i \in 1..n : s[i] \in S
  BY <1>1
<1>3. \A i \in 1..(a + k) : i \in 1..n
  BY <1>1
<1>4. \A i \in 1..a : i \in 1..n
  BY <1>1
<1> DEFINE front == SubSeq(s, 1, a)
           whole == SubSeq(s, 1, a + k)
<1>5. front \in Seq(S) /\ Len(front) = a /\ \A i \in 1..a : front[i] = s[i]
  BY <1>1, <1>2, <1>4, SubSeqProperties
<1>6. whole \in Seq(S) /\ Len(whole) = a + k /\ \A i \in 1..(a + k) : whole[i] = s[i]
  BY <1>1, <1>2, <1>3, SubSeqProperties
<1> HIDE DEF front, whole
<1> DEFINE both == front \o e
<1>7. both \in Seq(S) /\ Len(both) = a + k
  <2>1. both \in Seq(S) /\ Len(both) = Len(front) + Len(e)
    <3>1. front \in Seq(S)
      BY <1>5
    <3>2. QED
      BY <3>1, ConcatProperties
  <2>2. QED
    BY <1>1, <1>5, <2>1
<1>8. ASSUME NEW i \in 1..(a + k) PROVE both[i] = whole[i]
  <2>1. CASE i <= a
    <3>1. i \in 1..a
      BY <2>1
    <3>2. both[i] = front[i]
      BY <1>1, <1>5, <3>1
    <3>3. QED
      BY <1>5, <1>6, <3>1, <3>2
  <2>2. CASE i > a
    <3>1. i - a \in 1..k /\ a + (i - a) = i
      BY <1>1, <2>2
    <3>2. both[i] = e[i - a]
      BY <1>1, <1>5, <2>2, <3>1
    <3>3. e[i - a] = s[a + (i - a)]
      BY <1>1, <3>1
    <3>4. QED
      BY <1>6, <3>1, <3>2, <3>3
  <2>3. i <= a \/ i > a
    BY <1>1
  <2> HIDE DEF both
  <2>4. QED
    BY <2>1, <2>2, <2>3
<1> HIDE DEF both
<1>9. both = whole
  BY <1>6, <1>7, <1>8, SeqEqual
<1>10. QED
  BY <1>1, <1>9 DEF both, front, whole

\* Joined together, the lists of the frames are the places of the blocks.
LEMMA FlattenedIsListed ==
  ASSUME NEW frames \in Seq(Frames), NEW live \in Seq(Stacked), Lists(frames, live)
  PROVE  FlattenSeq([i \in DOMAIN frames |-> frames[i].entries]) = [i \in DOMAIN live |-> Place(live[i])]
<1>1. PICK last \in Nat, m \in Nat :
        last = Len(frames) /\ m = Len(live) /\ DOMAIN frames = 1..last /\ DOMAIN live = 1..m
  OBVIOUS
<1>2. PICK at \in [0..last -> 0..m] : Starts(at, frames, live)
  BY <1>1 DEF Lists
<1>3. at[0] = 0 /\ at[last] = m
  BY <1>1, <1>2 DEF Starts
<1> DEFINE places == [i \in DOMAIN live |-> Place(live[i])]
           seqs == [i \in DOMAIN frames |-> frames[i].entries]
           Part(a) == SubSeq(places, 1, a)
<1>4. places \in Seq(Places) /\ Len(places) = m /\ \A i \in 1..m : places[i] = Place(live[i])
  <2>1. places = [i \in 1..m |-> Place(live[i])]
    BY <1>1
  <2>2. \A i \in 1..m : live[i] \in Stacked
    BY <1>1
  <2>3. \A i \in 1..m : Place(live[i]) \in Places
    BY <2>2 DEF Place, Places, Stacked
  <2>4. QED
    BY <1>1, <2>1, <2>3
<1>5. Len(seqs) = last /\ \A i \in 1..last : seqs[i] = frames[i].entries
  <2>1. seqs = [i \in 1..last |-> frames[i].entries]
    BY <1>1
  <2>2. QED
    BY <1>1, <2>1
<1>6. \A i \in 1..last : seqs[i] \in Seq(Places) /\ Len(seqs[i]) \in Nat
  BY <1>1, <1>5, EntriesArePlaces
<1> HIDE DEF places
<1>7. Part(m) = places /\ Part(0) = <<>>
  <2>1. \A i \in 1..m : places[i] \in Places
    BY <1>4
  <2>2. /\ Part(m) \in Seq(Places) /\ Len(Part(m)) = m
        /\ \A i \in 1..m : Part(m)[i] = places[i]
    BY <1>1, <1>4, <2>1, SubSeqProperties
  <2> HIDE DEF Part
  <2>3. Part(m) = places
    BY <1>4, <2>2, SeqEqual
  <2>4. Part(0) = <<>>
    BY <1>4, SubSeqEmpty DEF Part
  <2>5. QED
    BY <2>3, <2>4
<1>8. ASSUME NEW i \in 1..last
      PROVE  /\ i - 1 \in 0..last /\ at[i - 1] \in Nat /\ at[i] \in Nat
             /\ Part(at[i - 1]) \o seqs[i] = Part(at[i])
  <2>1. i - 1 \in 0..last /\ i \in 0..last
    BY <1>1
  <2>2. PICK a \in 0..m : a = at[i - 1]
    BY <1>2, <2>1
  <2>3. PICK e \in Seq(Places), k \in Nat : e = seqs[i] /\ k = Len(e)
    BY <1>6
  <2>4. at[i] = a + k /\ Covers(e, live, a)
    BY <1>1, <1>2, <1>5, <2>2, <2>3 DEF Starts
  <2>5. at[i] \in 0..m
    BY <1>2, <2>1
  <2>6. a + k \in 0..m /\ a \in Nat
    BY <2>2, <2>4, <2>5
  <2>7. ASSUME NEW j \in 1..k PROVE e[j] = places[a + j]
    <3>1. a + j \in 1..m
      BY <1>1, <2>3, <2>6, PositionInPart
    <3>2. QED
      BY <1>4, <2>3, <2>4, <3>1 DEF Covers
  <2>8. a + k <= m
    BY <1>1, <2>6
  <2>9. SubSeq(places, 1, a) \o e = SubSeq(places, 1, a + k)
    <3>1. a + Len(e) <= Len(places) /\ \A j \in 1..Len(e) : e[j] = places[a + j]
      BY <1>4, <2>3, <2>7, <2>8
    <3>2. SubSeq(places, 1, a) \o e = SubSeq(places, 1, a + Len(e))
      BY <1>4, <2>6, <3>1, PartsJoin
    <3>3. QED
      BY <2>3, <3>2
  <2>10. QED
    BY <1>1, <2>1, <2>2, <2>3, <2>4, <2>5, <2>6, <2>9
<1> HIDE DEF Part, seqs
<1>9. CASE last = 0
  <2>1. m = 0
    BY <1>3, <1>9
  <2>2. frames = <<>> /\ live = <<>>
    BY <1>1, <1>9, <2>1
  <2>3. seqs = <<>> /\ places = <<>>
    BY <2>2 DEF seqs, places
  <2>4. FlattenSeq(seqs) = seqs
    BY <1>5, <1>9 DEF FlattenSeq
  <2>5. QED
    BY <2>3, <2>4 DEF seqs, places
<1>10. CASE last # 0
  <2> DEFINE Unfolds(g) == g = [i \in 1..last |-> IF i = 1 THEN seqs[i] ELSE g[i - 1] \o seqs[i]]
             h == [i \in 1..last |-> Part(at[i])]
             f == CHOOSE g : Unfolds(g)
  <2>1. seqs[1] = Part(at[1]) /\ 1 \in 1..last
    <3>1. 1 \in 1..last /\ 1 - 1 = 0
      BY <1>1, <1>10
    <3>2. Part(at[0]) \o seqs[1] = Part(at[1])
      BY <1>8, <3>1
    <3>3. <<>> \o seqs[1] = seqs[1]
      BY <1>6, <3>1
    <3>4. QED
      BY <1>3, <1>7, <3>1, <3>2, <3>3
  <2>2. Unfolds(h)
    <3>1. ASSUME NEW i \in 1..last PROVE h[i] = IF i = 1 THEN seqs[i] ELSE h[i - 1] \o seqs[i]
      <4>1. CASE i = 1
        BY <2>1, <4>1
      <4>2. CASE i # 1
        <5>1. i - 1 \in 1..last
          BY <4>2
        <5>2. h[i] = Part(at[i]) /\ h[i - 1] = Part(at[i - 1])
          BY <5>1
        <5>3. QED
          BY <1>8, <4>2, <5>2
      <4>3. QED
        BY <4>1, <4>2
    <3>2. h = [i \in 1..last |-> h[i]]
      OBVIOUS
    <3>3. QED
      BY <3>1, <3>2, Zenon
  <2>3. Unfolds(f)
    BY <2>2, Zenon
  <2>4. FlattenSeq(seqs) = f[last]
    BY <1>5, <1>10, ZenonT(30) DEF FlattenSeq
  <2>5. f = [i \in 1..last |-> IF i = 1 THEN seqs[i] ELSE f[i - 1] \o seqs[i]]
    BY <2>3
  <2> HIDE DEF f, Unfolds
  <2> DEFINE G == {i \in 0..last : i = 0 \/ f[i] = Part(at[i])}
  <2>6. ASSUME NEW i \in 0..(last - 1), i \in G PROVE i + 1 \in G
    <3>1. i + 1 \in 1..last /\ (i + 1) - 1 = i /\ i + 1 \in 0..last
      BY <1>1
    <3>2. CASE i = 0
      BY <2>1, <2>5, <3>1, <3>2
    <3>3. CASE i # 0
      <4>1. f[i + 1] = f[i] \o seqs[i + 1]
        <5>1. i + 1 # 1
          BY <3>3
        <5>2. f[i + 1] = f[(i + 1) - 1] \o seqs[i + 1]
          BY <2>5, <3>1, <5>1
        <5>3. QED
          BY <3>1, <5>2
      <4>4. f[i] = Part(at[i])
        BY <2>6, <3>3
      <4>2. Part(at[i]) \o seqs[i + 1] = Part(at[i + 1])
        BY <1>8, <3>1
      <4>3. QED
        BY <3>1, <4>1, <4>2, <4>4
    <3>4. QED
      BY <3>2, <3>3
  <2>7. 0 \in G
    BY <1>1
  <2> HIDE DEF G
  <2>8. 0..last \subseteq G
    BY <1>1, <2>6, <2>7, CountingUp
  <2>9. last \in 0..last
    BY <1>1
  <2>10. f[last] = Part(at[last])
    BY <1>10, <2>8, <2>9 DEF G
  <2>11. FlattenSeq(seqs) = places
    BY <1>3, <1>7, <2>4, <2>10
  <2>12. QED
    BY <2>11 DEF seqs, places
<1>11. QED
  BY <1>9, <1>10

\* What the clients of the stack hold is what its frames list, each block lies in a page of
\* the stack and none overlaps another.
LEMMA StackBlocksFollow == MemoryInv => StackBlocksSound
<1> SUFFICES ASSUME MemoryInv PROVE StackBlocksSound
  OBVIOUS
<1>1. /\ salloc \in Stacks /\ stackLive \in Seq(Stacked)
      /\ FramesSound(salloc, stackLive, taken) /\ BlocksSound(salloc, stackLive, taken)
  BY DEF MemoryInv, ShapeInv, StackInv
<1>2. salloc.frames \in Seq(Frames) /\ Lists(salloc.frames, stackLive)
  BY <1>1 DEF Stacks, FramesSound
<1>3. [i \in DOMAIN stackLive |-> [page |-> stackLive[i].page, offset |-> stackLive[i].offset]]
        = FlattenSeq([i \in DOMAIN salloc.frames |-> salloc.frames[i].entries])
  BY <1>1, <1>2, FlattenedIsListed DEF Place
<1>4. DOMAIN stackLive = 1..Len(stackLive) /\ DOMAIN salloc.frames = 1..Len(salloc.frames)
  BY <1>1, <1>2
<1>5. ASSUME NEW i \in DOMAIN stackLive
      PROVE  /\ stackLive[i].page \in taken /\ stackLive[i].offset + stackLive[i].size <= PageSize
             /\ \A j \in 1..(i - 1) : stackLive[j].page = stackLive[i].page =>
                  stackLive[j].offset + stackLive[j].size <= stackLive[i].offset
             /\ stackLive[i].page = salloc.page =>
                  stackLive[i].offset + stackLive[i].size <= salloc.offset
  <2>1. \A j \in 1..(i - 1) : j \in 1..Len(stackLive) /\ j < i
    BY <1>1, <1>4
  <2>2. QED
    BY <1>1, <1>4, <2>1 DEF BlocksSound
<1>6. \A i \in DOMAIN salloc.frames : Len(salloc.frames[i].entries) <= FrameMax
  BY <1>1, <1>4 DEF FramesSound
<1>7. QED
  BY <1>3, <1>5, <1>6 DEF StackBlocksSound

\* The type invariant, for any sizes.
THEOREM MemoryTypeCorrect == Spec => []MemoryTypeOK
  BY MemoryInvariant, MemoryTypeFollows, PTL

\* No page of the region ever serves two purposes, and none is lost by the pool or the stack.
THEOREM PagesStaySound == Spec => []PagesSound
  BY MemoryInvariant, PagesSoundFollows, PTL

\* A block of the pool lies whole in one of its pages, and no two clients hold the same.
THEOREM PoolBlocksStaySound == Spec => []PoolBlocksSound
<1>1. MemoryInv => PoolBlocksSound
  BY DEF MemoryInv, PoolInv
<1>2. QED
  BY MemoryInvariant, <1>1, PTL

\* What the stack's clients hold never overlaps, and pops give it back in order.
THEOREM StackBlocksStaySound == Spec => []StackBlocksSound
  BY MemoryInvariant, StackBlocksFollow, PTL
===========================================================================
