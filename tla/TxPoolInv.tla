--------------------------- MODULE TxPoolInv ---------------------------
(***************************************************************************)
(* The inductive invariant of the pool, and the steps that store nothing   *)
(* into its blocks.                                                        *)
(*                                                                         *)
(* The properties of TxPool are not inductive.  A snapshot stays readable  *)
(* because of where chains begin and end (LinksInv, HeadsInv), which       *)
(* references the garbage lists hold (GarbageInv), how the history grows   *)
(* (HistInv), what each version in use sees of each reference (RefInv),    *)
(* how far every call has come and what its thread may rely on (CallInv),  *)
(* and what pointers point to (HeldInv).                                   *)
(*                                                                         *)
(* "Version in use" is a LiveVersion: what a running transaction reads or  *)
(* one that begins now would read.  RefInv speaks of these and not of      *)
(* transactions, so that a transaction that begins finds its snapshot      *)
(* readable already.                                                       *)
(*                                                                         *)
(* PoolFrame is the lemma every step of one thread goes through: what it   *)
(* owes for the references it touches, and what others keep without proof. *)
(***************************************************************************)
EXTENDS TxPool, TxProofs, FiniteSetTheorems, SequenceTheorems, WellFoundedInduction, TLAPS

---------------------------------------------------------------------------
(* Chains of versions and walks over them, for any links that end.         *)
(*                                                                         *)
(* Chain and YoungestAt are recursive functions over the blocks, and such  *)
(* a function is a CHOOSE: nothing follows from its equation before there  *)
(* is a function that satisfies it.  Here one is given for each: the       *)
(* closure of a block under next, and the block at which a walk stops,     *)
(* said by what it is.  What is proved from the equations then is all that *)
(* the proofs of the pool use: chains are closed, linear and apart, an     *)
(* ordered chain is walked to the youngest version that is old enough, and *)
(* cutting one keeps its younger part.                                     *)
(*                                                                         *)
(* Induction along a chain is LinkInduction, over a set of blocks.         *)

LinksOn(next) == next \in [Blocks -> Blocks \cup {NULL}]

\* The least set of blocks that holds b and is closed under next.
Closure(next, b) ==
  {x \in Blocks : \A S \in SUBSET Blocks :
     b \in S \cup {NULL} /\ (\A y \in S : next[y] \in S \cup {NULL}) => x \in S}

\* The null pointer is not a block.
LEMMA NullIsNoBlock == NULL \notin Blocks
  BY PoolAssumption

\* A set of numbers that is not empty has a least one.
LEMMA LeastNumber ==
  ASSUME NEW S \in SUBSET Nat, S # {}
  PROVE  \E n \in S : \A m \in S : n <= m
<1>1. PICK n \in S : \A m \in S : <<m, n>> \notin OpToRel(<, Nat)
  BY WFMin, NatLessThanWellFounded
<1>2. \A m \in S : ~(m < n)
  BY <1>1 DEF OpToRel
<1>3. QED
  BY <1>2

\* Nothing follows the null pointer.
LEMMA ClosureNull ==
  ASSUME NEW next PROVE Closure(next, NULL) = {}
<1>1. {} \in SUBSET Blocks /\ NULL \in {} \cup {NULL}
  OBVIOUS
<1>2. QED
  BY <1>1 DEF Closure

\* What is reached from b is b and what is reached from its next version.
LEMMA ClosureNext ==
  ASSUME NEW next, LinksOn(next), NEW b \in Blocks
  PROVE  Closure(next, b) = {b} \cup Closure(next, next[b])
<1> USE NullIsNoBlock DEF LinksOn
<1>1. b \in Closure(next, b)
  BY DEF Closure
<1>2. ASSUME NEW x \in Closure(next, next[b])
      PROVE  x \in Closure(next, b)
  <2> SUFFICES ASSUME NEW S \in SUBSET Blocks, b \in S \cup {NULL},
                      \A y \in S : next[y] \in S \cup {NULL}
               PROVE  x \in S
    BY <1>2 DEF Closure
  <2>1. next[b] \in S \cup {NULL}
    OBVIOUS
  <2>2. QED
    BY <1>2, <2>1 DEF Closure
<1>3. ASSUME NEW x \in Closure(next, b), x # b
      PROVE  x \in Closure(next, next[b])
  <2> SUFFICES ASSUME NEW S \in SUBSET Blocks, next[b] \in S \cup {NULL},
                      \A y \in S : next[y] \in S \cup {NULL}
               PROVE  x \in S
    BY <1>3 DEF Closure
  <2>1. S \cup {b} \in SUBSET Blocks /\ b \in S \cup {b}
    OBVIOUS
  <2>2. \A y \in S \cup {b} : next[y] \in (S \cup {b}) \cup {NULL}
    OBVIOUS
  <2>3. x \in S \cup {b}
    BY <1>3, <2>1, <2>2 DEF Closure
  <2>4. QED
    BY <1>3, <2>3
<1>4. QED
  BY <1>1, <1>2, <1>3

\* The recursive function of ChainOf has a value, the closure, and so obeys its equation.
LEMMA ChainUnfolds ==
  ASSUME NEW next, LinksOn(next)
  PROVE  /\ ChainOf(next, NULL) = {}
         /\ \A b \in Blocks : ChainOf(next, b) = {b} \cup ChainOf(next, next[b])
<1> DEFINE D == Blocks \cup {NULL}
           Unfolds(g) == g = [x \in D |-> IF x = NULL THEN {} ELSE {x} \cup g[next[x]]]
           f == CHOOSE g : Unfolds(g)
           h == [x \in D |-> Closure(next, x)]
<1>1. Unfolds(h)
  <2>1. \A x \in D : h[x] = IF x = NULL THEN {} ELSE {x} \cup h[next[x]]
    BY ClosureNull, ClosureNext, NullIsNoBlock DEF LinksOn
  <2>2. h = [x \in D |-> h[x]]
    OBVIOUS
  <2> HIDE DEF h
  <2>3. QED
    BY <2>1, <2>2
<1>2. Unfolds(f)
  BY <1>1, Zenon
<1>3. \A x \in D : ChainOf(next, x) = f[x]
  BY Zenon DEF ChainOf
<1>4. f = [x \in D |-> IF x = NULL THEN {} ELSE {x} \cup f[next[x]]]
  BY <1>2
<1> HIDE DEF f, Unfolds
<1>5. \A x \in Blocks : next[x] \in D /\ x # NULL
  BY NullIsNoBlock DEF LinksOn
<1>6. QED
  BY <1>3, <1>4, <1>5

---------------------------------------------------------------------------
\* No chain comes back to where it was: along next a number decreases.
Descends(next) ==
  /\ LinksOn(next)
  /\ \E rank \in [Blocks -> Nat] : \A b \in Blocks : next[b] # NULL => rank[next[b]] < rank[b]

\* Induction along the links: a set that holds a block whenever it holds the next one, or
\* there is none, holds them all.
LEMMA LinkInduction ==
  ASSUME NEW next, Descends(next), NEW G,
         \A b \in Blocks : next[b] = NULL \/ next[b] \in G => b \in G
  PROVE  Blocks \subseteq G
<1> USE NullIsNoBlock
<1>1. PICK rank \in [Blocks -> Nat] : \A x \in Blocks : next[x] # NULL => rank[next[x]] < rank[x]
  BY DEF Descends
<1>2. \A x \in Blocks : next[x] \in Blocks \cup {NULL}
  BY DEF Descends, LinksOn
<1> SUFFICES ASSUME NEW x0 \in Blocks, x0 \notin G PROVE FALSE
  OBVIOUS
<1> DEFINE Ranks == {n \in Nat : \E x \in Blocks : x \notin G /\ rank[x] = n}
<1>3. rank[x0] \in Ranks
  OBVIOUS
<1>4. PICK n \in Ranks : \A m \in Ranks : n <= m
  <2>1. Ranks \in SUBSET Nat /\ Ranks # {}
    BY <1>3
  <2> HIDE DEF Ranks
  <2>2. QED
    BY <2>1, LeastNumber
<1>5. PICK x \in Blocks : x \notin G /\ rank[x] = n
  BY <1>4
<1>6. next[x] # NULL /\ next[x] \notin G
  BY <1>5
<1>7. next[x] \in Blocks /\ rank[next[x]] < n
  BY <1>1, <1>2, <1>5, <1>6
<1>8. rank[next[x]] \in Ranks
  BY <1>6, <1>7
<1>9. QED
  BY <1>4, <1>7, <1>8

\* A chain is the least set that holds its first block and is closed under next.
LEMMA ChainLeast ==
  ASSUME NEW next, Descends(next), NEW S \in SUBSET Blocks,
         \A y \in S : next[y] \in S \cup {NULL}, NEW b \in S \cup {NULL}
  PROVE  ChainOf(next, b) \subseteq S
<1> USE NullIsNoBlock
<1> DEFINE G == {x \in Blocks : x \in S => ChainOf(next, x) \subseteq S}
<1>1. LinksOn(next)
  BY DEF Descends
<1>2. \A x \in Blocks : next[x] = NULL \/ next[x] \in G => x \in G
  BY <1>1, ChainUnfolds
<1> HIDE DEF G
<1>3. Blocks \subseteq G
  BY <1>2, LinkInduction
<1>4. QED
  BY <1>1, <1>3, ChainUnfolds DEF G

\* A chain is a set of blocks that following the links does not leave.
LEMMA ChainClosed ==
  ASSUME NEW next, Descends(next), NEW b \in Blocks \cup {NULL}
  PROVE  /\ ChainOf(next, b) \in SUBSET Blocks
         /\ \A x \in ChainOf(next, b) : next[x] \in ChainOf(next, b) \cup {NULL}
<1> USE NullIsNoBlock
<1> DEFINE G == {x \in Blocks : /\ ChainOf(next, x) \subseteq Blocks
                                /\ \A y \in ChainOf(next, x) :
                                     next[y] \in ChainOf(next, x) \cup {NULL}}
<1>1. LinksOn(next)
  BY DEF Descends
<1>2. ASSUME NEW x \in Blocks, next[x] = NULL \/ next[x] \in G PROVE x \in G
  <2>1. ChainOf(next, x) = {x} \cup ChainOf(next, next[x])
    BY <1>1, ChainUnfolds
  <2>2. CASE next[x] = NULL
    BY <2>1, <2>2, <1>1, ChainUnfolds
  <2>3. CASE next[x] \in G
    <3>1. next[x] \in Blocks
      BY <2>3
    <3>2. ChainOf(next, next[x]) = {next[x]} \cup ChainOf(next, next[next[x]])
      BY <3>1, <1>1, ChainUnfolds, Zenon
    <3>3. QED
      BY <2>1, <2>3, <3>2
  <2>4. QED
    BY <1>2, <2>2, <2>3
<1> HIDE DEF G
<1>3. Blocks \subseteq G
  BY <1>2, LinkInduction
<1>4. QED
  BY <1>1, <1>3, ChainUnfolds DEF G

\* What a chain holds after its first block has a predecessor in it.
LEMMA ChainPredecessor ==
  ASSUME NEW next, Descends(next), NEW b \in Blocks \cup {NULL}, NEW x \in ChainOf(next, b), x # b
  PROVE  \E y \in ChainOf(next, b) : next[y] = x
<1> DEFINE S == {z \in ChainOf(next, b) : z = b \/ \E y \in ChainOf(next, b) : next[y] = z}
<1>1. S \in SUBSET Blocks
  BY ChainClosed
<1>2. b \in S \cup {NULL}
  BY ChainUnfolds DEF Descends
<1>3. \A y \in S : next[y] \in S \cup {NULL}
  BY ChainClosed
<1> HIDE DEF S
<1>4. x \in S
  BY <1>1, <1>2, <1>3, ChainLeast
<1>5. QED
  BY <1>4 DEF S

\* The chain of a block of a chain is a part of it.
LEMMA ChainSuffix ==
  ASSUME NEW next, Descends(next), NEW b \in Blocks \cup {NULL}, NEW x \in ChainOf(next, b)
  PROVE  ChainOf(next, x) \subseteq ChainOf(next, b)
<1>1. ChainOf(next, b) \in SUBSET Blocks
  BY ChainClosed
<1>2. \A y \in ChainOf(next, b) : next[y] \in ChainOf(next, b) \cup {NULL}
  BY ChainClosed
<1>3. QED
  BY <1>1, <1>2, ChainLeast

\* Of two blocks of a chain one comes after the other.
LEMMA ChainLinear ==
  ASSUME NEW next, Descends(next), NEW b \in Blocks \cup {NULL},
         NEW x \in ChainOf(next, b), NEW y \in ChainOf(next, b)
  PROVE  x \in ChainOf(next, y) \/ y \in ChainOf(next, x)
<1> DEFINE C == ChainOf(next, b)
           S == {z \in C : \A u \in C : u \in ChainOf(next, z) \/ z \in ChainOf(next, u)}
<1> USE NullIsNoBlock
<1>1. S \in SUBSET Blocks
  BY ChainClosed
<1>2. b \in S \cup {NULL}
  BY ChainUnfolds DEF Descends
<1>3. ASSUME NEW z \in S, next[z] # NULL PROVE next[z] \in S
  <2>1. next[z] \in C /\ z \in Blocks
    BY <1>3, ChainClosed
  <2>2. ASSUME NEW u \in C PROVE u \in ChainOf(next, next[z]) \/ next[z] \in ChainOf(next, u)
    <3>1. u \in Blocks
      BY ChainClosed
    <3>2. CASE z \in ChainOf(next, u)
      BY <1>3, <3>1, <3>2, ChainClosed
    <3>3. CASE u \in ChainOf(next, z)
      <4>1. u = z \/ u \in ChainOf(next, next[z])
        BY <2>1, <3>3, ChainUnfolds DEF Descends
      <4>2. u = z => next[z] \in ChainOf(next, u)
        BY <1>3, <2>1, <3>3, ChainClosed
      <4>3. QED
        BY <4>1, <4>2
    <3>4. QED
      BY <3>2, <3>3
  <2>3. QED
    BY <2>1, <2>2
<1>4. \A z \in S : next[z] \in S \cup {NULL}
  BY <1>3
<1> HIDE DEF S
<1>5. x \in S
  BY <1>1, <1>2, <1>4, ChainLeast
<1>6. QED
  BY <1>5 DEF S

\* Chains that begin at different blocks with no predecessor share nothing.
LEMMA ChainsApart ==
  ASSUME NEW next, Descends(next),
         \A x, y \in Blocks : next[x] # NULL /\ next[x] = next[y] => x = y,
         NEW a \in Blocks, NEW b \in Blocks, a # b,
         \A x \in Blocks : next[x] # a /\ next[x] # b
  PROVE  ChainOf(next, a) \cap ChainOf(next, b) = {}
<1> DEFINE S == ChainOf(next, a) \ ChainOf(next, b)
<1> USE NullIsNoBlock
<1>1. S \in SUBSET Blocks
  BY ChainClosed
<1>2. a \notin ChainOf(next, b)
  <2>1. ASSUME a \in ChainOf(next, b) PROVE FALSE
    <3>1. PICK y \in ChainOf(next, b) : next[y] = a
      BY <2>1, ChainPredecessor
    <3>2. y \in Blocks
      BY ChainClosed
    <3>3. QED
      BY <3>1, <3>2
  <2>2. QED
    BY <2>1
<1>3. a \in S
  BY <1>2, ChainUnfolds DEF Descends
<1>4. ASSUME NEW y \in S, next[y] # NULL PROVE next[y] \in S
  <2>1. next[y] \in ChainOf(next, a) /\ y \in Blocks
    BY <1>4, ChainClosed
  <2>2. ASSUME next[y] \in ChainOf(next, b) PROVE FALSE
    <3>1. PICK z \in ChainOf(next, b) : next[z] = next[y]
      <4>1. next[y] # b
        BY <2>1
      <4>2. QED
        BY <2>2, <4>1, ChainPredecessor
    <3>2. z \in Blocks
      BY ChainClosed
    <3>3. QED
      BY <1>4, <2>1, <3>1, <3>2
  <2>3. QED
    BY <2>1, <2>2
<1>5. ChainOf(next, a) \subseteq S
  BY <1>1, <1>3, <1>4, ChainLeast
<1>6. QED
  BY <1>5

\* Links that agree along a chain give the same chain.
LEMMA ChainFrame ==
  ASSUME NEW next, Descends(next), NEW next2, Descends(next2), NEW b \in Blocks \cup {NULL},
         \A x \in ChainOf(next, b) : next2[x] = next[x]
  PROVE  ChainOf(next2, b) = ChainOf(next, b)
<1> USE NullIsNoBlock
<1> DEFINE C == ChainOf(next, b)
           S == ChainOf(next, b) \cap ChainOf(next2, b)
<1>1. C \in SUBSET Blocks /\ S \in SUBSET Blocks
  BY ChainClosed
<1>2. b \in C \cup {NULL} /\ b \in S \cup {NULL}
  BY ChainUnfolds DEF Descends
<1>3. \A y \in C : next2[y] \in C \cup {NULL}
  BY ChainClosed
<1>4. ChainOf(next2, b) \subseteq C
  BY <1>1, <1>2, <1>3, ChainLeast
<1>5. \A y \in S : next[y] \in S \cup {NULL}
  BY ChainClosed
<1>6. ChainOf(next, b) \subseteq S
  BY <1>1, <1>2, <1>5, ChainLeast
<1>7. QED
  BY <1>4, <1>6

---------------------------------------------------------------------------
\* Timestamps decrease along the chain of b.
Ordered(next, ts, b) ==
  \A x \in ChainOf(next, b) : next[x] # NULL => ts[next[x]] < ts[x]

\* A block of an ordered chain is older than the blocks before it.
LEMMA OrderedTop ==
  ASSUME NEW next, Descends(next), NEW ts \in [Blocks -> Nat],
         NEW b \in Blocks, Ordered(next, ts, b), NEW x \in ChainOf(next, b)
  PROVE  x = b \/ ts[x] < ts[b]
<1> DEFINE S == {y \in ChainOf(next, b) : y = b \/ ts[y] < ts[b]}
<1> USE NullIsNoBlock
<1>1. ChainOf(next, b) \in SUBSET Blocks /\ b \in ChainOf(next, b)
  BY ChainClosed, ChainUnfolds DEF Descends
<1>2. ASSUME NEW y \in S, next[y] # NULL PROVE next[y] \in S
  <2>1. next[y] \in ChainOf(next, b) /\ ts[next[y]] < ts[y]
    BY <1>2, ChainClosed DEF Ordered
  <2>2. y \in Blocks /\ next[y] \in Blocks
    BY <1>1, <2>1
  <2>3. QED
    BY <2>1, <2>2
<1>3. x \in S
  BY <1>1, <1>2, ChainLeast
<1>4. QED
  BY <1>3

\* What is true of the order of a chain is true from each of its blocks on.
LEMMA OrderedSuffix ==
  ASSUME NEW next, Descends(next), NEW ts,
         NEW b \in Blocks, Ordered(next, ts, b), NEW x \in ChainOf(next, b)
  PROVE  x \in Blocks /\ Ordered(next, ts, x)
<1>1. x \in Blocks
  BY ChainClosed
<1>2. ChainOf(next, x) \subseteq ChainOf(next, b)
  BY ChainSuffix
<1>3. QED
  BY <1>1, <1>2 DEF Ordered

\* Of two blocks of an ordered chain the older one follows the younger one, and no two have
\* the same timestamp.
LEMMA OrderedLower ==
  ASSUME NEW next, Descends(next), NEW ts \in [Blocks -> Nat],
         NEW b \in Blocks, Ordered(next, ts, b),
         NEW x \in ChainOf(next, b), NEW y \in ChainOf(next, b)
  PROVE  /\ ts[x] = ts[y] => x = y
         /\ ts[y] < ts[x] => /\ next[x] # NULL
                             /\ y \in ChainOf(next, next[x])
                             /\ ts[y] <= ts[next[x]]
<1> USE NullIsNoBlock
<1>1. x \in Blocks /\ y \in Blocks /\ Ordered(next, ts, x) /\ Ordered(next, ts, y)
  BY OrderedSuffix
<1>2. x \in ChainOf(next, y) \/ y \in ChainOf(next, x)
  BY ChainLinear
<1>3. x \in ChainOf(next, y) => x = y \/ ts[x] < ts[y]
  BY <1>1, OrderedTop
<1>4. y \in ChainOf(next, x) => x = y \/ ts[y] < ts[x]
  BY <1>1, OrderedTop
<1>5. ts[x] \in Nat /\ ts[y] \in Nat
  BY <1>1
<1>6. ts[x] = ts[y] => x = y
  BY <1>2, <1>3, <1>4, <1>5
<1>7. ASSUME ts[y] < ts[x]
      PROVE  next[x] # NULL /\ y \in ChainOf(next, next[x]) /\ ts[y] <= ts[next[x]]
  <2>1. y \in ChainOf(next, x) /\ y # x
    BY <1>2, <1>3, <1>5, <1>7
  <2>2. LinksOn(next)
    BY DEF Descends
  <2>3. y \in ChainOf(next, next[x])
    BY <1>1, <2>1, <2>2, ChainUnfolds
  <2>4. next[x] # NULL
    BY <2>2, <2>3, ChainUnfolds
  <2>5. next[x] \in ChainOf(next, b)
    BY <2>4, ChainClosed
  <2>6. next[x] \in Blocks /\ Ordered(next, ts, next[x])
    BY <2>5, OrderedSuffix
  <2>7. y = next[x] \/ ts[y] < ts[next[x]]
    BY <2>3, <2>6, OrderedTop
  <2>8. QED
    BY <1>5, <2>3, <2>4, <2>6, <2>7
<1>8. QED
  BY <1>6, <1>7

---------------------------------------------------------------------------
\* The first block on the way from b that is not younger than v.
FirstStop(next, ts, b, v) ==
  IF \E x \in ChainOf(next, b) : ts[x] <= v
  THEN CHOOSE y : /\ y \in ChainOf(next, b)
                  /\ ts[y] <= v
                  /\ \A z \in ChainOf(next, b) : ts[z] <= v => z \in ChainOf(next, y)
  ELSE NULL

\* No link leads back: a block is not in the chain of its next version.
LEMMA NoCycle ==
  ASSUME NEW next, Descends(next), NEW b \in Blocks, next[b] # NULL
  PROVE  b \notin ChainOf(next, next[b])
<1> USE NullIsNoBlock
<1>1. PICK rank \in [Blocks -> Nat] : \A x \in Blocks : next[x] # NULL => rank[next[x]] < rank[x]
  BY DEF Descends
<1>2. next[b] \in Blocks
  BY DEF Descends, LinksOn
<1>3. Ordered(next, rank, next[b])
  <2>1. ChainOf(next, next[b]) \subseteq Blocks
    BY <1>2, ChainClosed
  <2>2. QED
    BY <1>1, <2>1 DEF Ordered
<1>4. ASSUME b \in ChainOf(next, next[b]) PROVE FALSE
  <2>1. b = next[b] \/ rank[b] < rank[next[b]]
    BY <1>2, <1>3, <1>4, OrderedTop
  <2>2. rank[next[b]] < rank[b]
    BY <1>1
  <2>3. QED
    BY <1>1, <1>2, <2>1, <2>2
<1>5. QED
  BY <1>4

\* The block at which a walk stops, chosen by what it is, obeys the equation of the walk.
LEMMA FirstStopUnfolds ==
  ASSUME NEW next, Descends(next), NEW ts, NEW v
  PROVE  /\ FirstStop(next, ts, NULL, v) = NULL
         /\ \A b \in Blocks : FirstStop(next, ts, b, v) =
              IF ts[b] <= v THEN b ELSE FirstStop(next, ts, next[b], v)
<1> USE NullIsNoBlock
<1>1. LinksOn(next) /\ ChainOf(next, NULL) = {}
  BY ChainUnfolds DEF Descends
<1>2. ASSUME NEW b \in Blocks
      PROVE  FirstStop(next, ts, b, v) = IF ts[b] <= v THEN b ELSE FirstStop(next, ts, next[b], v)
  <2>1. ChainOf(next, b) = {b} \cup ChainOf(next, next[b])
    BY <1>1, ChainUnfolds
  <2>2. CASE ts[b] <= v
    <3>1. \A y \in ChainOf(next, b) : b \in ChainOf(next, y) => y = b
      <4> SUFFICES ASSUME NEW y \in ChainOf(next, next[b]), b \in ChainOf(next, y) PROVE FALSE
        BY <2>1
      <4>1. next[b] # NULL /\ next[b] \in Blocks
        BY <1>1 DEF LinksOn
      <4>2. b \in ChainOf(next, next[b])
        BY <4>1, ChainSuffix
      <4>3. QED
        BY <4>1, <4>2, NoCycle
    <3>2. \A y \in ChainOf(next, b) :
            (ts[y] <= v /\ \A z \in ChainOf(next, b) : ts[z] <= v => z \in ChainOf(next, y)) <=> y = b
      BY <2>1, <2>2, <3>1
    <3>3. b \in ChainOf(next, b)
      BY <2>1
    <3>4. QED
      BY <2>2, <3>2, <3>3 DEF FirstStop
  <2>3. CASE ~(ts[b] <= v)
    <3> DEFINE P(c, y) == /\ y \in ChainOf(next, c)
                          /\ ts[y] <= v
                          /\ \A z \in ChainOf(next, c) : ts[z] <= v => z \in ChainOf(next, y)
    <3>1. (\E x \in ChainOf(next, b) : ts[x] <= v) <=> (\E x \in ChainOf(next, next[b]) : ts[x] <= v)
      BY <2>1, <2>3
    <3>2. \A y : P(b, y) <=> P(next[b], y)
      BY <2>1, <2>3
    <3>3. (CHOOSE y : P(b, y)) = (CHOOSE y : P(next[b], y))
      BY <3>2
    <3>4. FirstStop(next, ts, b, v) = IF \E x \in ChainOf(next, b) : ts[x] <= v
                                       THEN CHOOSE y : P(b, y) ELSE NULL
      BY DEF FirstStop
    <3>5. FirstStop(next, ts, next[b], v) = IF \E x \in ChainOf(next, next[b]) : ts[x] <= v
                                             THEN CHOOSE y : P(next[b], y) ELSE NULL
      BY DEF FirstStop
    <3> HIDE DEF P
    <3>6. QED
      BY <2>3, <3>1, <3>3, <3>4, <3>5
  <2>4. QED
    BY <2>2, <2>3
<1>3. QED
  BY <1>1, <1>2 DEF FirstStop

\* The recursive function of WalkFrom has a value and so obeys its equation.
LEMMA WalkUnfolds ==
  ASSUME NEW next, Descends(next), NEW ts, NEW v
  PROVE  /\ WalkFrom(next, ts, NULL, v) = NULL
         /\ \A b \in Blocks : WalkFrom(next, ts, b, v) =
              IF ts[b] <= v THEN b ELSE WalkFrom(next, ts, next[b], v)
<1> DEFINE D == Blocks \cup {NULL}
           Unfolds(g) == g = [x \in D |-> IF x = NULL THEN NULL
                                          ELSE IF ts[x] <= v THEN x ELSE g[next[x]]]
           f == CHOOSE g : Unfolds(g)
           h == [x \in D |-> FirstStop(next, ts, x, v)]
<1>1. Unfolds(h)
  <2>1. \A x \in D : h[x] = IF x = NULL THEN NULL ELSE IF ts[x] <= v THEN x ELSE h[next[x]]
    BY FirstStopUnfolds, NullIsNoBlock DEF Descends, LinksOn
  <2>2. h = [x \in D |-> h[x]]
    OBVIOUS
  <2> HIDE DEF h
  <2>3. QED
    BY <2>1, <2>2
<1>2. Unfolds(f)
  BY <1>1, Zenon
<1>3. \A x \in D : WalkFrom(next, ts, x, v) = f[x]
  BY Zenon DEF WalkFrom
<1>4. f = [x \in D |-> IF x = NULL THEN NULL ELSE IF ts[x] <= v THEN x ELSE f[next[x]]]
  BY <1>2
<1> HIDE DEF f, Unfolds
<1>5. \A x \in Blocks : next[x] \in D /\ x # NULL
  BY NullIsNoBlock DEF Descends, LinksOn
<1>6. QED
  BY <1>3, <1>4, <1>5

\* Where a walk along an ordered chain ends: at the youngest block that is not younger than
\* v, or nowhere when all are younger.
WalkEnd(next, ts, b, v, y) ==
  IF y = NULL THEN \A x \in ChainOf(next, b) : ts[x] > v
  ELSE /\ y \in ChainOf(next, b) /\ ts[y] <= v
       /\ \A x \in ChainOf(next, b) : ts[x] <= v => ts[x] <= ts[y]

\* A walk over an ordered chain ends at the youngest version that is old enough, or at NULL
\* if there is none (the loops of txpool_allocator.c:213-221 and 310-317).
LEMMA WalkStops ==
  ASSUME NEW next, Descends(next), NEW ts \in [Blocks -> Nat], NEW v \in Nat,
         NEW b \in Blocks \cup {NULL}, Ordered(next, ts, b)
  PROVE  WalkEnd(next, ts, b, v, WalkFrom(next, ts, b, v))
<1> USE NullIsNoBlock
<1> DEFINE G == {x \in Blocks : Ordered(next, ts, x) =>
                                  WalkEnd(next, ts, x, v, WalkFrom(next, ts, x, v))}
<1>1. LinksOn(next) /\ ChainOf(next, NULL) = {} /\ WalkFrom(next, ts, NULL, v) = NULL
  BY ChainUnfolds, WalkUnfolds DEF Descends
<1>2. ASSUME NEW x \in Blocks, next[x] = NULL \/ next[x] \in G PROVE x \in G
  <2> SUFFICES ASSUME Ordered(next, ts, x)
               PROVE  WalkEnd(next, ts, x, v, WalkFrom(next, ts, x, v))
    OBVIOUS
  <2>1. ChainOf(next, x) = {x} \cup ChainOf(next, next[x])
    BY <1>1, ChainUnfolds
  <2>2. ChainOf(next, x) \subseteq Blocks
    BY ChainClosed
  <2>3. CASE ts[x] <= v
    <3>1. WalkFrom(next, ts, x, v) = x
      BY <2>3, WalkUnfolds
    <3>2. \A y \in ChainOf(next, x) : ts[y] <= ts[x]
      BY <2>2, OrderedTop
    <3>3. QED
      BY <2>1, <2>3, <3>1, <3>2 DEF WalkEnd
  <2>4. CASE ~(ts[x] <= v)
    <3>1. WalkFrom(next, ts, x, v) = WalkFrom(next, ts, next[x], v)
      BY <2>4, WalkUnfolds
    <3>2. WalkEnd(next, ts, next[x], v, WalkFrom(next, ts, next[x], v))
      <4>1. CASE next[x] = NULL
        BY <4>1, <1>1 DEF WalkEnd
      <4>2. CASE next[x] # NULL
        <5>1. next[x] \in Blocks /\ next[x] \in G
          BY <1>1, <1>2, <4>2 DEF LinksOn
        <5>2. Ordered(next, ts, next[x])
          BY <2>1 DEF Ordered
        <5>3. QED
          BY <5>1, <5>2
      <4>3. QED
        BY <4>1, <4>2
    <3>3. QED
      BY <2>1, <2>2, <2>4, <3>1, <3>2 DEF WalkEnd
  <2>5. QED
    BY <2>3, <2>4
<1> HIDE DEF G
<1>3. Blocks \subseteq G
  BY <1>2, LinkInduction
<1>4. CASE b = NULL
  BY <1>1, <1>4 DEF WalkEnd
<1>5. CASE b # NULL
  BY <1>3, <1>5 DEF G
<1>6. QED
  BY <1>4, <1>5

\* The links after the one of k has been taken away.
Cut(next, k) == [next EXCEPT ![k] = NULL]

\* Cutting an ordered chain behind k keeps what is not older than k.
LEMMA ChainCut ==
  ASSUME NEW next, Descends(next), NEW ts \in [Blocks -> Nat],
         NEW b \in Blocks, Ordered(next, ts, b), NEW k \in ChainOf(next, b)
  PROVE  \A x \in Blocks : x \in ChainOf(Cut(next, k), b) <=> x \in ChainOf(next, b) /\ ts[k] <= ts[x]
<1> USE NullIsNoBlock
<1> DEFINE C == ChainOf(next, b)
           next2 == Cut(next, k)
           C2 == ChainOf(next2, b)
           S == {x \in C : ts[k] <= ts[x]}
           T == {x \in C : x \in C2 \/ ts[x] < ts[k]}
<1>1. Descends(next2) /\ \A x \in Blocks : next2[x] = IF x = k THEN NULL ELSE next[x]
  BY DEF Descends, LinksOn, Cut
<1> HIDE DEF next2
<1>2. C \in SUBSET Blocks /\ C2 \in SUBSET Blocks /\ b \in C /\ b \in C2
  <2>1. C \in SUBSET Blocks /\ C2 \in SUBSET Blocks
    BY <1>1, ChainClosed
  <2>2. b \in C
    BY ChainUnfolds DEF Descends
  <2>3. b \in C2
    BY <1>1, ChainUnfolds DEF Descends
  <2>4. QED
    BY <2>1, <2>2, <2>3
<1>3. \A x \in C : ts[x] \in Nat
  BY <1>2
<1>4. ASSUME NEW y \in S, next2[y] # NULL PROVE next2[y] \in S
  <2>1. y # k /\ next2[y] = next[y] /\ next[y] \in C
    BY <1>2, <1>1, <1>4, ChainClosed
  <2>2. ts[y] # ts[k]
    BY <2>1, OrderedLower
  <2>3. ts[k] < ts[y]
    BY <2>2, <1>3
  <2>4. ts[k] <= ts[next[y]]
    BY <2>3, OrderedLower
  <2>5. QED
    BY <2>1, <2>4
<1>5. k \in C /\ ts[k] \in Nat
  BY <1>3
<1>6. b \in S
  <2>1. k = b \/ ts[k] < ts[b]
    BY OrderedTop
  <2>2. QED
    BY <1>2, <1>3, <2>1
<1>7. ASSUME NEW y \in T, next[y] # NULL PROVE next[y] \in T
  <2>1. next[y] \in C /\ y \in Blocks /\ ts[next[y]] < ts[y]
    BY <1>2, <1>7, ChainClosed DEF Ordered
  <2>2. CASE ts[y] < ts[k]
    BY <1>3, <2>1, <2>2
  <2>3. CASE y \in C2 /\ y # k
    <3>1. next2[y] = next[y]
      BY <1>1, <2>1, <2>3
    <3>2. next2[y] \in C2
      BY <1>1, <1>7, <2>3, <3>1, ChainClosed
    <3>3. QED
      BY <2>1, <3>1, <3>2
  <2>4. CASE y = k
    BY <1>3, <2>1, <2>4
  <2>5. QED
    BY <2>2, <2>3, <2>4
<1>8. b \in T /\ S \in SUBSET Blocks /\ T \in SUBSET Blocks
  BY <1>2
<1>9. C2 \subseteq S
  BY <1>1, <1>4, <1>6, <1>8, ChainLeast
<1>10. C \subseteq T
  BY <1>7, <1>8, ChainLeast
<1>11. ASSUME NEW x \in S PROVE x \in C2
  <2>1. ts[x] \in Nat /\ ~(ts[x] < ts[k])
    BY <1>3, <1>5
  <2>2. QED
    BY <2>1, <1>10
<1>12. QED
  BY <1>9, <1>11 DEF next2

---------------------------------------------------------------------------
(* The inductive invariant.                                                *)

\* The versions that a transaction reads, or that one that begins now would read.
LiveVersions == {m_txversion[t] : t \in Running} \cup {m_last_write_committed_id}
IsWriting(t) == pc[t] = "running" /\ IsWriter(t)

\* A version is committed, or it is the running writer's.
InTime(v) ==
  \/ v <= m_last_write_committed_id
  \/ \E w \in Txs : IsWriting(w) /\ v = m_txversion[w]

Rooted == {r \in Refs : p_main[r] # NULL}

\* The blocks above the root of r.
Versions(r) == Chain(p_next_version[p_main[r]])
Last(r) == hist[r][Len(hist[r])]

\* Where the chains begin: at the roots of the references, at the entries of the garbage
\* lists and at what a collection is about to release.
IsRoot(b) == \E r \in Refs : p_main[r] = b
IsEntry(b) == \E t \in Txs : \E i \in DOMAIN garbage[t] : garbage[t][i] = b
IsDropped(b) == \E t \in Txs : call[t].op = "drop" /\ call[t].at = b
IsHead(b) == IsRoot(b) \/ IsEntry(b) \/ IsDropped(b)

\* A block taken out of its chain that readers may still be on.
IsLeftover(b) == IsEntry(b) /\ ~IsRoot(b)

LinksInv ==
  /\ \A b \in Blocks :
       p_next_version[b] # NULL =>
         /\ b \in used /\ p_next_version[b] \in used
         /\ ~IsHead(p_next_version[b])
         /\ ~IsRoot(b) => m_ts[p_next_version[b]] < m_ts[b]
  /\ \A a, b \in Blocks :
       p_next_version[a] # NULL /\ p_next_version[a] = p_next_version[b] => a = b
  /\ \A b \in used : /\ InTime(m_ts[b])
                     /\ IsHead(b) \/ \E a \in Blocks : p_next_version[a] = b

HeadsInv ==
  /\ \A b \in Blocks : /\ IsHead(b) => b \in used
                       /\ IsLeftover(b) => p_next_version[b] = NULL
                       /\ IsDropped(b) => ~IsRoot(b) /\ ~IsEntry(b)
  /\ \A r, s \in Rooted : p_main[r] = p_main[s] => r = s
  /\ \A t, u \in Txs : \A i \in DOMAIN garbage[t], j \in DOMAIN garbage[u] :
       garbage[t][i] = garbage[u][j] => t = u /\ i = j
  /\ \A t, u \in Txs :
       call[t].op = "drop" /\ call[u].op = "drop" /\ call[t].at = call[u].at => t = u

\* A root is in the garbage list of the transaction that freed its reference.
FreedBy(t, r) ==
  /\ Last(r).val = NULL
  /\ \/ Last(r).ver <= m_last_write_committed_id
     \/ IsWriting(t) /\ Last(r).ver = m_txversion[t]

GarbageInv ==
  \A t \in Txs : \A i \in DOMAIN garbage[t] : \A r \in Refs :
    p_main[r] = garbage[t][i] => FreedBy(t, r)

HistInv ==
  \A r \in Refs :
    /\ \A i, j \in DOMAIN hist[r] : i < j => hist[r][i].ver < hist[r][j].ver
    /\ \A i \in DOMAIN hist[r] : InTime(hist[r][i].ver)

\* The block that a transaction at v finds for r, by what it is and not by how it is found.
Seen(r, v, y) ==
  \/ /\ y \in Versions(r) /\ m_ts[y] <= v
     /\ \A x \in Versions(r) : m_ts[x] <= v => m_ts[x] <= m_ts[y]
  \/ /\ y = p_main[r]
     /\ \A x \in Versions(r) : m_ts[x] > v

Unlinking(b) == \E t \in Txs : call[t].op = "unlink" /\ call[t].root = b

RootedInv(r) ==
  /\ m_ts[p_main[r]] <= m_last_write_committed_id
  /\ \A b \in Versions(r) : m_ts[p_main[r]] < m_ts[b]
  /\ hist[r] # <<>>
  /\ m_ts[FreeCandidate(p_main[r])] = Last(r).ver
  /\ \A v \in LiveVersions, y \in Blocks :
       Seen(r, v, y) => FreedAt(r, v) \/ p_data[y] = HistoryAt(r, v)
  /\ \A b \in Versions(r) :
       p_data[b] = NULL => p_data[p_main[r]] # NULL \/ Unlinking(p_main[r])

RefInv(r) ==
  IF p_main[r] = NULL THEN \A v \in LiveVersions : HistoryAt(r, v) = NULL
  ELSE RootedInv(r)

WriterCall(t) ==
  LET c == call[t]
  IN /\ IsWriting(t) /\ c.then \in {"read", "write", "free"}
     /\ c.ref \in Rooted /\ c.root = p_main[c.ref] /\ c.orv = m_ortxversion[t]
     /\ ~FreedEarlier(t, c.ref)
     /\ c.then # "read" => ~FreedAt(c.ref, m_txversion[t]) /\ FreeBlocks # {}
     /\ c.then = "free" => \/ m_ts[FreeCandidate(c.root)] <= c.orv
                           \/ /\ m_ts[FreeCandidate(c.root)] = m_txversion[t]
                              /\ p_data[c.root] # NULL
     /\ c.op = "ptr" => c.then # "free"
     /\ c.op = "free" => c.then = "free"

SweepCall(t) ==
  LET c == call[t]
  IN /\ \E i \in DOMAIN garbage[t] : garbage[t][i] = c.root
     /\ \A r \in Refs : (\E i \in DOMAIN garbage[t] : garbage[t][i] = p_main[r])
                          => (IsWriting(t) => FreedEarlier(t, r))
     /\ \A v \in LiveVersions :
          c.orv <= v \/ \A r \in Refs :
                          (\E i \in DOMAIN garbage[t] : garbage[t][i] = p_main[r]) => FreedAt(r, v)
     /\ c.op \notin {"ptr", "free"}

Severed(t) ==
  \A b \in Chain(p_next_version[call[t].root]) :
    m_ts[b] <= call[t].orv => p_next_version[b] = NULL

CollectInv(t) ==
  LET c == call[t]
  IN /\ IF c.then = "sweep" THEN SweepCall(t) ELSE WriterCall(t)
     /\ c.op = "drop" <=> c.at # NULL
     /\ c.op \in {"drop", "unlink"} => IsRoot(c.root)
     /\ c.op \in {"drop", "copy"} => Severed(t)
     /\ c.op = "unlink" => /\ Collapsible(c.root, c.orv)
                           /\ p_data[c.root] = p_data[p_next_version[c.root]]
     /\ c.op \in {"reclaim", "ptr", "free"} =>
          (p_next_version[c.root] # NULL => m_ts[p_next_version[c.root]] > c.orv)

WalkInv(t) ==
  LET c == call[t]
      v == m_txversion[t]
  IN /\ pc[t] = "running" /\ ~IsWriter(t)
     /\ c.ref \in Rooted /\ c.root = p_main[c.ref] /\ ~FreedAt(c.ref, v)
     /\ \/ /\ c.at = NULL
           /\ \A b \in Versions(c.ref) : m_ts[b] > v
        \/ /\ c.at \in Versions(c.ref)
           /\ \A b \in Versions(c.ref) : m_ts[b] <= v => m_ts[b] <= m_ts[c.at]
        \/ /\ IsLeftover(c.at) /\ m_ts[c.at] <= v
           /\ p_data[c.at] # NULL /\ p_data[c.at] = HistoryAt(c.ref, v)

CallInv(t) ==
  /\ call[t].op = "none" \/ pc[t] \notin {"idle", "running"} => Idle(t)
  /\ call[t].op = "walk" => WalkInv(t)
  /\ call[t].op \notin {"none", "walk"} => CollectInv(t)

HeldInv(t) ==
  LET r == held[t].ref
      b == held[t].block
  IN held[t] # NULL =>
       /\ pc[t] = "running" /\ r \in Rooted /\ ~FreedEarlier(t, r)
       /\ \/ b = p_main[r]
          \/ /\ b \in Versions(r)
             /\ IF IsWriter(t) THEN m_ts[b] > m_ortxversion[t]
                ELSE \A x \in Versions(r) : m_ts[x] <= m_txversion[t] => m_ts[x] <= m_ts[b]
          \/ ~IsWriter(t) /\ IsLeftover(b) /\ p_data[b] # NULL

PoolInv ==
  /\ TxInv
  /\ PoolTypeOK
  /\ LinksInv /\ HeadsInv
  /\ GarbageInv /\ HistInv
  /\ \A r \in Refs : RefInv(r)
  /\ \A t \in Txs : CallInv(t) /\ HeldInv(t)

ShapeInv == TxInv /\ PoolTypeOK /\ LinksInv /\ HeadsInv

---------------------------------------------------------------------------
\* One writer runs at a time, and it is younger than everything committed.
LEMMA OneWriter ==
  ASSUME TxInv, NEW t \in Txs, NEW u \in Txs, IsWriting(t), IsWriting(u)
  PROVE  t = u
BY DEF TxInv, WriterExclusion, IsWriting

\* The versions of a running writer: its own is above what is committed, its safepoint not above
\* what any transaction reads.
LEMMA WriterBounds ==
  ASSUME TxInv, NEW t \in Txs, IsWriting(t)
  PROVE  /\ m_txversion[t] \in Nat /\ m_ortxversion[t] \in Nat
         /\ m_last_write_committed_id \in Nat
         /\ m_last_write_committed_id < m_txversion[t]
         /\ m_ortxversion[t] <= m_last_write_committed_id
         /\ m_txversion[t] \in LiveVersions
         /\ \A v \in LiveVersions : m_ortxversion[t] <= v
         /\ \A v : InTime(v) => v <= m_last_write_committed_id \/ v = m_txversion[t]
<1>1. t \in Running
  BY DEF IsWriting, Running
<1>2. \A u \in Txs : IsWriting(u) => u = t
  BY OneWriter
<1>3. QED
  BY <1>1, <1>2 DEF TxInv, TypeOK, SnapshotIsCommitted, GcSafepoint, LiveVersions, IsWriting, InTime

\* Versions in use are numbers below the next id.
LEMMA LiveTypes ==
  ASSUME TxInv
  PROVE  /\ LiveVersions \subseteq Nat
         /\ m_last_write_committed_id \in LiveVersions
         /\ \A t \in Running : m_txversion[t] \in LiveVersions
         /\ \A v \in Nat : InTime(v) => v < m_next_id
         /\ m_next_id \in Nat
<1>1. \A v \in Nat : InTime(v) => v < m_next_id
  BY DEF TxInv, TypeOK, IdOrder, VersionOrder, InTime, IsWriting, Running
<1>2. QED
  BY <1>1 DEF TxInv, TypeOK, LiveVersions, Running

\* Links lead from a root to the versions above it and then to ever older ones, so that they end.
LEMMA LinksDescend == ShapeInv => Descends(p_next_version)
<1> SUFFICES ASSUME ShapeInv PROVE Descends(p_next_version)
  OBVIOUS
<1> DEFINE rank == [b \in Blocks |-> IF IsRoot(b) THEN m_next_id
                                    ELSE m_ts[b]]
<1>1. LinksOn(p_next_version) /\ m_ts \in [Blocks -> Nat] /\ used \subseteq Blocks
  BY DEF ShapeInv, PoolTypeOK, LinksOn
<1>2. m_next_id \in Nat /\ \A v \in Nat : InTime(v) => v < m_next_id
  BY LiveTypes DEF ShapeInv
<1>3. rank \in [Blocks -> Nat]
  BY <1>1, <1>2
<1>4. ASSUME NEW b \in Blocks, p_next_version[b] # NULL
      PROVE  rank[p_next_version[b]] < rank[b]
  <2> DEFINE x == p_next_version[b]
  <2>1. x \in used /\ ~IsRoot(x) /\ x \in Blocks
    BY <1>1, <1>4 DEF ShapeInv, LinksInv, IsHead
  <2>2. m_ts[x] \in Nat /\ m_ts[x] < m_next_id
    BY <1>1, <1>2, <2>1 DEF ShapeInv, LinksInv
  <2>3. ~IsRoot(b) => m_ts[x] < m_ts[b]
    BY <1>4 DEF ShapeInv, LinksInv
  <2>4. QED
    BY <2>1, <2>2, <2>3
<1> HIDE DEF rank
<1>5. QED
  BY <1>1, <1>3, <1>4 DEF Descends

\* The shape of the chain of a reference.
ChainOfRef(r) ==
  LET root == p_main[r]
      top == p_next_version[p_main[r]]
  IN /\ root \in Blocks /\ root \in used /\ IsRoot(root) /\ root \notin Versions(r)
     /\ Versions(r) \subseteq Blocks /\ Versions(r) \subseteq used
     /\ Chain(root) = {root} \cup Versions(r)
     /\ \A x \in Versions(r) :
          /\ ~IsHead(x)
          /\ p_next_version[x] \in Versions(r) \cup {NULL}
          /\ \E a \in {root} \cup Versions(r) : p_next_version[a] = x
     /\ top = NULL => Versions(r) = {}
     /\ top # NULL => top \in Versions(r) /\ \A x \in Versions(r) : m_ts[x] <= m_ts[top]
     /\ \A x, y \in Versions(r) :
          /\ m_ts[x] = m_ts[y] => x = y
          /\ m_ts[y] < m_ts[x] =>
               /\ p_next_version[x] \in Versions(r) /\ p_next_version[x] # NULL
               /\ m_ts[y] <= m_ts[p_next_version[x]]
               /\ y \in Chain(p_next_version[x])

\* From a block that is no root on, timestamps decrease and no root follows.
LEMMA ShapeOrdered ==
  ASSUME ShapeInv, NEW b \in Blocks, ~IsRoot(b)
  PROVE  Ordered(p_next_version, m_ts, b) /\ \A x \in Chain(b) : ~IsRoot(x)
<1> USE NullIsNoBlock
<1>1. Descends(p_next_version)
  BY LinksDescend
<1> DEFINE S == {x \in Blocks : ~IsRoot(x)}
<1>2. \A x \in S : p_next_version[x] \in S \cup {NULL}
  BY DEF ShapeInv, PoolTypeOK, LinksInv, IsHead
<1>3. Chain(b) \subseteq S
  BY <1>1, <1>2, ChainLeast DEF Chain
<1>4. QED
  BY <1>3 DEF Ordered, Chain, ShapeInv, LinksInv

\* The shape says of the chain of every reference what ChainOfRef lists.
LEMMA ChainsOfRefs == ShapeInv => \A r \in Rooted : ChainOfRef(r)
<1> SUFFICES ASSUME ShapeInv, NEW r \in Rooted PROVE ChainOfRef(r)
  OBVIOUS
<1> USE NullIsNoBlock
<1> DEFINE root == p_main[r]
           top == p_next_version[root]
<1>1. /\ root \in Blocks /\ root \in used /\ IsRoot(root) /\ top \in Blocks \cup {NULL}
      /\ m_ts \in [Blocks -> Nat] /\ used \subseteq Blocks
      /\ p_next_version \in [Blocks -> Blocks \cup {NULL}]
  BY DEF Rooted, ShapeInv, PoolTypeOK, IsRoot, HeadsInv, IsHead
<1>2. Descends(p_next_version) /\ LinksOn(p_next_version)
  BY LinksDescend DEF Descends
<1>3. Chain(root) = {root} \cup Versions(r)
  BY <1>1, <1>2, ChainUnfolds DEF Chain, Versions
<1>4. CASE top = NULL
  <2>1. Versions(r) = {}
    BY <1>2, <1>4, ChainUnfolds DEF Chain, Versions
  <2>2. QED
    BY <1>1, <1>3, <1>4, <2>1 DEF ChainOfRef
<1>5. CASE top # NULL
  <2>1. top \in Blocks /\ ~IsRoot(top)
    BY <1>1, <1>5 DEF ShapeInv, LinksInv, IsHead
  <2>2. Ordered(p_next_version, m_ts, top) /\ \A x \in Versions(r) : ~IsRoot(x)
    BY <2>1, ShapeOrdered DEF Versions
  <2>3. Versions(r) \subseteq Blocks /\ \A x \in Versions(r) : p_next_version[x] \in Versions(r) \cup {NULL}
    BY <1>2, <2>1, ChainClosed DEF Versions, Chain
  <2>4. top \in Versions(r)
    BY <1>2, <2>1, ChainUnfolds DEF Versions, Chain
  <2>5. \A x \in Versions(r) : x = top \/ \E a \in Versions(r) : p_next_version[a] = x
    BY <1>2, <2>1, ChainPredecessor DEF Versions, Chain
  <2>6. \A x \in Versions(r) : \E a \in {root} \cup Versions(r) : p_next_version[a] = x
    BY <2>5
  <2>7. \A x \in Versions(r) : ~IsHead(x) /\ x \in used
    BY <1>1, <2>3, <2>6 DEF ShapeInv, LinksInv
  <2>8. \A x \in Versions(r) : m_ts[x] <= m_ts[top]
    BY <1>1, <1>2, <2>1, <2>2, <2>3, OrderedTop DEF Versions, Chain
  <2>9. ASSUME NEW x \in Versions(r), NEW y \in Versions(r)
        PROVE  /\ m_ts[x] = m_ts[y] => x = y
               /\ m_ts[y] < m_ts[x] =>
                    /\ p_next_version[x] \in Versions(r) /\ p_next_version[x] # NULL
                    /\ m_ts[y] <= m_ts[p_next_version[x]]
                    /\ y \in Chain(p_next_version[x])
    <3>1. /\ m_ts[x] = m_ts[y] => x = y
          /\ m_ts[y] < m_ts[x] => /\ p_next_version[x] # NULL
                                  /\ y \in ChainOf(p_next_version, p_next_version[x])
                                  /\ m_ts[y] <= m_ts[p_next_version[x]]
      BY <1>1, <1>2, <2>1, <2>2, OrderedLower DEF Versions, Chain
    <3>2. QED
      BY <2>3, <3>1 DEF Chain
  <2>10. root \notin Versions(r)
    BY <1>1, <2>2
  <2>11. QED
    BY <1>1, <1>3, <1>5, <2>3, <2>4, <2>6, <2>7, <2>8, <2>9, <2>10 DEF ChainOfRef
<1>6. QED
  BY <1>4, <1>5

\* The chains of two references share no block.
LEMMA RefsApart ==
  ASSUME ShapeInv, NEW r \in Rooted, NEW s \in Rooted, r # s
  PROVE  Chain(p_main[r]) \cap Chain(p_main[s]) = {}
<1> USE NullIsNoBlock
<1>1. Descends(p_next_version)
  BY LinksDescend
<1>2. p_main[r] \in Blocks /\ p_main[s] \in Blocks /\ p_main[r] # p_main[s]
  BY DEF Rooted, ShapeInv, PoolTypeOK, HeadsInv
<1>3. IsHead(p_main[r]) /\ IsHead(p_main[s])
  BY DEF Rooted, IsHead, IsRoot
<1>4. \A x \in Blocks : p_next_version[x] # p_main[r] /\ p_next_version[x] # p_main[s]
  BY <1>2, <1>3 DEF ShapeInv, LinksInv
<1>5. \A x, y \in Blocks : p_next_version[x] # NULL /\ p_next_version[x] = p_next_version[y] => x = y
  BY DEF ShapeInv, LinksInv
<1>6. QED
  BY <1>1, <1>2, <1>4, <1>5, ChainsApart DEF Chain

\* Where the walk over the versions of a reference ends.
LEMMA WalkEnds ==
  ASSUME ShapeInv, NEW r \in Rooted, NEW v \in Nat
  PROVE  LET w == YoungestAt(p_main[r], v)
         IN IF w = NULL THEN \A x \in Versions(r) : m_ts[x] > v
            ELSE /\ w \in Versions(r) /\ m_ts[w] <= v
                 /\ \A x \in Versions(r) : m_ts[x] <= v => m_ts[x] <= m_ts[w]
<1> DEFINE top == p_next_version[p_main[r]]
           w == YoungestAt(p_main[r], v)
<1>1. ChainOfRef(r) /\ Descends(p_next_version)
  BY ChainsOfRefs, LinksDescend
<1>2. m_ts \in [Blocks -> Nat] /\ top \in Blocks \cup {NULL}
  BY <1>1 DEF ShapeInv, PoolTypeOK, ChainOfRef
<1>3. Ordered(p_next_version, m_ts, top)
  <2>1. CASE top = NULL
    BY <1>1, <2>1 DEF Ordered, ChainOfRef, Versions, Chain
  <2>2. CASE top # NULL
    BY <1>1, <1>2, <2>2, ShapeOrdered DEF ChainOfRef, IsHead
  <2>3. QED
    BY <2>1, <2>2
<1>4. WalkEnd(p_next_version, m_ts, top, v, w)
  BY <1>1, <1>2, <1>3, WalkStops DEF YoungestAt
<1>5. QED
  BY <1>4 DEF WalkEnd, Versions, Chain

\* What a walk finds is what there is to see.
LEMMA WalkFindsSeen ==
  ShapeInv => \A r \in Rooted, v \in Nat, y \in Blocks :
                Visible(p_main[r], v) = y <=> Seen(r, v, y)
<1> SUFFICES ASSUME ShapeInv, NEW r \in Rooted, NEW v \in Nat, NEW y \in Blocks
             PROVE  Visible(p_main[r], v) = y <=> Seen(r, v, y)
  OBVIOUS
<1> USE NullIsNoBlock
<1> DEFINE root == p_main[r]
           w == YoungestAt(root, v)
<1>1. ChainOfRef(r)
  BY ChainsOfRefs
<1>2. m_ts \in [Blocks -> Nat]
  BY DEF ShapeInv, PoolTypeOK
<1>5. IF w = NULL THEN \A x \in Versions(r) : m_ts[x] > v
      ELSE /\ w \in Versions(r) /\ m_ts[w] <= v
           /\ \A x \in Versions(r) : m_ts[x] <= v => m_ts[x] <= m_ts[w]
  BY WalkEnds
<1>6. \A x \in Versions(r) : m_ts[x] \in Nat
  BY <1>1, <1>2 DEF ChainOfRef
<1>7. /\ root \notin Versions(r)
      /\ \A x, z \in Versions(r) : m_ts[x] = m_ts[z] => x = z
  BY <1>1 DEF ChainOfRef
<1>8. CASE w = NULL
  BY <1>5, <1>6, <1>7, <1>8 DEF Visible, Seen
<1>9. CASE w # NULL
  <2>1. Visible(root, v) = w /\ w \in Versions(r) /\ m_ts[w] <= v
    BY <1>5, <1>9 DEF Visible
  <2>2. Seen(r, v, w)
    BY <1>5, <1>9 DEF Seen
  <2>3. ASSUME Seen(r, v, y) PROVE y = w
    <3>1. y \in Versions(r) /\ m_ts[y] <= v /\ \A x \in Versions(r) : m_ts[x] <= v => m_ts[x] <= m_ts[y]
      BY <1>6, <2>1, <2>3 DEF Seen
    <3>2. m_ts[y] = m_ts[w]
      BY <1>5, <1>6, <1>9, <2>1, <3>1
    <3>3. QED
      BY <1>7, <2>1, <3>1, <3>2
  <2>4. QED
    BY <2>1, <2>2, <2>3
<1>10. QED
  BY <1>8, <1>9

---------------------------------------------------------------------------
\* Histories.

\* Largest is the largest number, where there is one.
LEMMA LargestIs ==
  ASSUME NEW S \in SUBSET Nat, NEW n \in S, \A m \in S : m <= n
  PROVE  Largest(S) = n
<1>1. \A k \in S : (\A m \in S : m <= k) => k = n
  BY SMT
<1>2. QED
  BY <1>1 DEF Largest

\* A set of indices that is not empty has a largest one.
LEMMA HasLargest ==
  ASSUME NEW n \in Nat, NEW S \in SUBSET (1..n), S # {}
  PROVE  Largest(S) \in S /\ \A m \in S : m <= Largest(S)
<1> DEFINE Gaps == {k \in Nat : \E m \in S : k = n - m}
<1>1. Gaps \in SUBSET Nat
  OBVIOUS
<1>2. PICK m0 \in S : TRUE
  OBVIOUS
<1>3. n - m0 \in Gaps
  BY <1>2
<1> HIDE DEF Gaps
<1>4. PICK k \in Gaps : \A j \in Gaps : k <= j
  BY <1>1, <1>3, LeastNumber
<1>5. PICK m \in S : k = n - m
  BY <1>4 DEF Gaps
<1>6. \A j \in S : n - j \in Gaps
  BY DEF Gaps
<1>7. \A j \in S : j <= m
  BY <1>4, <1>5, <1>6
<1>8. \E x \in S : \A j \in S : j <= x
  BY <1>7
<1>9. QED
  BY <1>8 DEF Largest

\* Length, elements, Append and EXCEPT of sequences, as the histories use them.
LEMMA SeqFacts ==
  ASSUME NEW S, NEW s \in Seq(S)
  PROVE  /\ Len(s) \in Nat /\ DOMAIN s = 1..Len(s)
         /\ \A i \in 1..Len(s) : s[i] \in S
         /\ s # <<>> <=> Len(s) # 0
         /\ s # <<>> => Len(s) \in 1..Len(s)
         /\ \A e \in S : /\ Append(s, e) \in Seq(S) /\ Len(Append(s, e)) = Len(s) + 1
                         /\ \A i \in 1..Len(s) : Append(s, e)[i] = s[i]
                         /\ Append(s, e)[Len(s) + 1] = e
         /\ \A e \in S, k \in 1..Len(s) :
              /\ [s EXCEPT ![k] = e] \in Seq(S) /\ Len([s EXCEPT ![k] = e]) = Len(s)
              /\ \A i \in 1..Len(s) : [s EXCEPT ![k] = e][i] = IF i = k THEN e ELSE s[i]
<1>1. \A e \in S, k \in 1..Len(s) :
              /\ [s EXCEPT ![k] = e] \in Seq(S) /\ Len([s EXCEPT ![k] = e]) = Len(s)
  BY ExceptSeq, LenProperties
<1>2. \A e \in S : /\ Append(s, e) \in Seq(S) /\ Len(Append(s, e)) = Len(s) + 1
                         /\ \A i \in 1..Len(s) : Append(s, e)[i] = s[i]
                         /\ Append(s, e)[Len(s) + 1] = e
  BY AppendProperties
<1>3. QED
  BY <1>1, <1>2, EmptySeq, LenProperties

Stores == [ver : Nat, val : Nat \cup {NULL}]

\* A history is a sequence of stores.
LEMMA HistoryTypes ==
  ASSUME PoolTypeOK, NEW r \in Refs
  PROVE  /\ hist[r] \in Seq(Stores)
         /\ Len(hist[r]) \in Nat /\ DOMAIN hist[r] = 1..Len(hist[r])
         /\ \A i \in 1..Len(hist[r]) : /\ hist[r][i] \in Stores
                                       /\ hist[r][i].ver \in Nat
                                       /\ hist[r][i].val \in Nat \cup {NULL}
         /\ hist[r] # <<>> => Len(hist[r]) \in 1..Len(hist[r])
<1>1. hist[r] \in Seq(Stores)
  BY DEF PoolTypeOK, Stores
<1>2. \A i \in 1..Len(hist[r]) : hist[r][i] \in Stores
  BY <1>1, SeqFacts
<1>3. \A e \in Stores : e.ver \in Nat /\ e.val \in Nat \cup {NULL}
  BY DEF Stores
<1>4. QED
  BY <1>1, <1>2, <1>3, SeqFacts

\* At and after the last store to r every snapshot shows it.
LEMMA HistoryTop ==
  ASSUME PoolTypeOK, HistInv, NEW r \in Refs, hist[r] # <<>>
  PROVE  /\ Last(r).ver \in Nat
         /\ \A i \in DOMAIN hist[r] : hist[r][i].ver <= Last(r).ver
         /\ \A v \in Nat : Last(r).ver <= v => /\ HistoryAt(r, v) = Last(r).val
                                               /\ FreedAt(r, v) <=> Last(r).val = NULL
<1> DEFINE n == Len(hist[r])
<1>1. /\ n \in Nat /\ n \in DOMAIN hist[r] /\ DOMAIN hist[r] = 1..n
      /\ \A i \in DOMAIN hist[r] : hist[r][i].ver \in Nat
  BY HistoryTypes
<1>2. \A i \in DOMAIN hist[r] : i < n => hist[r][i].ver < hist[r][n].ver
  BY <1>1 DEF HistInv
<1>3. \A i \in DOMAIN hist[r] : hist[r][i].ver <= hist[r][n].ver
  BY <1>1, <1>2
<1>4. ASSUME NEW v \in Nat, Last(r).ver <= v
      PROVE  /\ HistoryAt(r, v) = Last(r).val
             /\ FreedAt(r, v) <=> Last(r).val = NULL
  <2> DEFINE old == {i \in DOMAIN hist[r] : hist[r][i].ver <= v}
  <2>1. n \in old /\ old \in SUBSET Nat /\ \A m \in old : m <= n
    BY <1>1, <1>4 DEF Last
  <2> HIDE DEF old
  <2>2. Largest(old) = n
    BY <2>1, LargestIs
  <2>3. HistoryAt(r, v) = Last(r).val
    BY <2>1, <2>2 DEF HistoryAt, Last, old
  <2>4. QED
    BY <1>1, <1>4, <2>3 DEF FreedAt, Last
<1>5. QED
  BY <1>1, <1>3, <1>4 DEF Last

\* An index is the last one or before it.
LEMMA LastOrBefore == \A n \in Nat : \A i \in 1..n : i = n \/ i < n
  OBVIOUS

\* A store at v, which no earlier store is younger than, changes what snapshots at or after v
\* show and nothing else.
LEMMA RecordHistory ==
  ASSUME PoolTypeOK, HistInv, NEW r \in Refs, NEW v \in Nat, NEW val \in Nat \cup {NULL},
         \A i \in DOMAIN hist[r] : hist[r][i].ver <= v,
         Record(r, v, val)
  PROVE  /\ hist' \in [Refs -> Seq([ver : Nat, val : Nat \cup {NULL}])]
         /\ \A s \in Refs \ {r} : hist'[s] = hist[s]
         /\ hist'[r] # <<>> /\ Last(r)'.ver = v /\ Last(r)'.val = val
         /\ \A i, j \in DOMAIN hist'[r] : i < j => hist'[r][i].ver < hist'[r][j].ver
         /\ \A i \in DOMAIN hist'[r] :
              hist'[r][i].ver = v \/ \E j \in DOMAIN hist[r] : hist'[r][i].ver = hist[r][j].ver
         /\ \A u \in Nat : u < v => /\ HistoryAt(r, u)' = HistoryAt(r, u)
                                    /\ FreedAt(r, u)' <=> FreedAt(r, u)
         /\ \A u \in Nat : v <= u => /\ HistoryAt(r, u)' = val
                                     /\ FreedAt(r, u)' <=> val = NULL
<1> DEFINE h == hist[r]
           g == hist'[r]
           n == Len(h)
           m == Len(g)
           Same == n > 0 /\ h[n].ver = v
           e == [ver |-> v, val |-> val]
<1>1. /\ h \in Seq(Stores) /\ hist \in [Refs -> Seq(Stores)] /\ n \in Nat /\ DOMAIN h = 1..n
      /\ \A i \in 1..n : h[i] \in Stores /\ h[i].ver \in Nat /\ h[i].ver <= v
  BY HistoryTypes DEF PoolTypeOK, Stores
<1>2. \A i, j \in 1..n : i < j => h[i].ver < h[j].ver
  BY <1>1 DEF HistInv
<1>3. e \in Stores /\ e.ver = v /\ e.val = val
  BY DEF Stores
<1>4. hist' = [hist EXCEPT ![r] = IF Same THEN [h EXCEPT ![n].val = val] ELSE Append(h, e)]
  BY DEF Record
<1>5. Same => n \in 1..n /\ [h EXCEPT ![n].val = val] = [h EXCEPT ![n] = e]
  <2>1. ASSUME Same PROVE n \in 1..n /\ [h[n] EXCEPT !.val = val] = e
    <3>1. n \in 1..n /\ h[n] \in Stores /\ h[n].ver = v
      BY <1>1, <2>1
    <3>2. [h[n] EXCEPT !.val = val] = e
      BY <3>1 DEF Stores
    <3>3. QED
      BY <3>1, <3>2
  <2>2. QED
    BY <2>1
<1> HIDE DEF e
<1>6. g = IF Same THEN [h EXCEPT ![n] = e] ELSE Append(h, e)
  BY <1>1, <1>4, <1>5
<1> HIDE DEF g
\* The last store of h is replaced, or one follows it: what is before the last of g is in h.
<1>7. /\ g \in Seq(Stores) /\ m \in Nat /\ DOMAIN g = 1..m /\ m \in 1..m
      /\ g[m] = e
      /\ \A i \in 1..m : i < m => i \in 1..n /\ g[i] = h[i] /\ h[i].ver < v
      /\ \A i \in 1..n : i < m \/ h[i].ver = v
  <2>1. CASE Same
    <3>1. /\ g \in Seq(Stores) /\ m = n /\ n \in 1..n
          /\ \A i \in 1..n : g[i] = IF i = n THEN e ELSE h[i]
      BY <1>1, <1>3, <1>5, <1>6, <2>1, SeqFacts
    <3>2. \A i \in 1..n : i < n => h[i].ver < v
      BY <1>1, <1>2, <2>1
    <3>3. DOMAIN g = 1..m
      BY <3>1, SeqFacts
    <3>4. \A i \in 1..n : i = n \/ i < n
      BY <1>1, LastOrBefore, Zenon
    <3>5. /\ \A i \in 1..n : i < m \/ h[i].ver = v
          /\ \A i \in 1..m : i < m => i \in 1..n /\ g[i] = h[i] /\ h[i].ver < v
      BY <2>1, <3>1, <3>2, <3>4
    <3>6. QED
      BY <1>1, <3>1, <3>3, <3>5
  <2>2. CASE ~Same
    <3>0. g = Append(h, e)
      BY <1>6, <2>2
    <3>1. /\ g \in Seq(Stores) /\ m = n + 1 /\ g[n + 1] = e
          /\ \A i \in 1..n : g[i] = h[i]
      BY <1>1, <1>3, <3>0, SeqFacts
    <3>2. \A i \in 1..n : h[i].ver < v
      <4> SUFFICES ASSUME NEW i \in 1..n PROVE h[i].ver < v
        OBVIOUS
      <4>1. n \in 1..n /\ h[n].ver \in Nat /\ h[n].ver # v /\ h[n].ver <= v
        BY <1>1, <2>2
      <4>2. i < n => h[i].ver < h[n].ver
        BY <1>2, <4>1
      <4>3. h[i].ver \in Nat
        BY <1>1
      <4>4. QED
        BY <1>1, <4>1, <4>2, <4>3
    <3>3. DOMAIN g = 1..m
      BY <3>1, SeqFacts
    <3>4. QED
      BY <1>1, <3>1, <3>2, <3>3
  <2>3. QED
    BY <2>1, <2>2
<1>8. m \in Nat /\ \A i \in 1..m : i = m \/ i < m
  <2>1. m \in Nat
    BY <1>7
  <2>2. QED
    BY <2>1, LastOrBefore, Zenon
<1>9. g[m].ver = v
  BY <1>3, <1>7
<1>10. hist' \in [Refs -> Seq(Stores)] /\ \A s \in Refs \ {r} : hist'[s] = hist[s]
  BY <1>1, <1>4, <1>7, Zenon DEF g
<1>11. g # <<>> /\ Last(r)'.ver = v /\ Last(r)'.val = val
  <2>1. g # <<>>
    BY <1>7, SeqFacts
  <2>2. QED
    BY <1>3, <1>7, <2>1 DEF Last, g
<1>12. \A i, j \in DOMAIN g : i < j => g[i].ver < g[j].ver
  <2> SUFFICES ASSUME NEW i \in 1..m, NEW j \in 1..m, i < j PROVE g[i].ver < g[j].ver
    BY <1>7
  <2>1. i < m /\ g[i] = h[i] /\ i \in 1..n /\ h[i].ver < v
    BY <1>7
  <2>2. CASE j = m
    BY <1>3, <1>7, <2>1, <2>2
  <2>3. CASE j # m
    <3>1. j < m
      BY <1>8, <2>3
    <3>2. j \in 1..n /\ g[j] = h[j]
      BY <1>7, <3>1
    <3>3. QED
      BY <1>2, <2>1, <3>2
  <2>4. QED
    BY <2>2, <2>3
<1>13. \A i \in DOMAIN g : g[i].ver = v \/ \E j \in DOMAIN h : g[i].ver = h[j].ver
  <2> SUFFICES ASSUME NEW i \in 1..m PROVE g[i].ver = v \/ \E j \in 1..n : g[i].ver = h[j].ver
    BY <1>1, <1>7
  <2>1. i = m \/ i < m
    BY <1>7
  <2>2. QED
    BY <1>3, <1>7, <2>1, Zenon
<1>14. ASSUME NEW u \in Nat, u < v
       PROVE  /\ HistoryAt(r, u)' = HistoryAt(r, u)
              /\ FreedAt(r, u)' <=> FreedAt(r, u)
  <2> DEFINE old == {i \in DOMAIN h : h[i].ver <= u}
             new == {i \in DOMAIN g : g[i].ver <= u}
  <2>1. \A i \in 1..m : g[i].ver <= u => i \in 1..n /\ i < m /\ g[i] = h[i]
    <3> SUFFICES ASSUME NEW i \in 1..m, g[i].ver <= u PROVE i < m
      BY <1>7
    <3>1. i # m
      BY <1>9, <1>14
    <3>2. QED
      BY <1>8, <3>1
  <2>2. \A i \in 1..n : h[i].ver <= u => i \in 1..m /\ g[i] = h[i]
    <3> SUFFICES ASSUME NEW i \in 1..n, h[i].ver <= u PROVE i \in 1..m /\ i < m
      BY <1>7
    <3>1. i < m
      BY <1>7, <1>14
    <3>2. QED
      BY <1>7, <3>1
  <2>3. new = old
    BY <1>1, <1>7, <2>1, <2>2
  <2>4. ASSUME old # {} PROVE g[Largest(old)] = h[Largest(old)]
    <3>1. old \in SUBSET (1..n)
      BY <1>1
    <3>2. Largest(old) \in old
      <4> HIDE DEF old
      <4>1. QED
        BY <1>1, <2>4, <3>1, HasLargest
    <3>3. QED
      BY <1>1, <2>2, <3>2
  <2>5. HistoryAt(r, u) = IF old = {} THEN NULL ELSE h[Largest(old)].val
    BY DEF HistoryAt
  <2>6. HistoryAt(r, u)' = IF new = {} THEN NULL ELSE g[Largest(new)].val
    BY DEF HistoryAt, g
  <2>7. (\E i \in DOMAIN g : g[i].ver <= u) <=> (\E i \in DOMAIN h : h[i].ver <= u)
    BY <2>3
  <2> HIDE DEF old, new
  <2>8. HistoryAt(r, u)' = HistoryAt(r, u)
    BY <2>3, <2>4, <2>5, <2>6
  <2>9. QED
    BY <2>7, <2>8 DEF FreedAt, g
<1>15. ASSUME NEW u \in Nat, v <= u
       PROVE  /\ HistoryAt(r, u)' = val
              /\ FreedAt(r, u)' <=> val = NULL
  <2> DEFINE new == {i \in DOMAIN g : g[i].ver <= u}
  <2>1. m \in new /\ new \in SUBSET Nat /\ \A i \in new : i <= m
    BY <1>3, <1>7, <1>15
  <2>2. HistoryAt(r, u)' = IF new = {} THEN NULL ELSE g[Largest(new)].val
    BY DEF HistoryAt, g
  <2>3. \E i \in DOMAIN g : g[i].ver <= u
    BY <2>1
  <2> HIDE DEF new
  <2>4. Largest(new) = m
    BY <2>1, LargestIs
  <2>5. HistoryAt(r, u)' = val
    BY <1>3, <1>7, <2>1, <2>2, <2>4
  <2>6. QED
    BY <2>3, <2>5 DEF FreedAt, g
<1>16. QED
  BY <1>10, <1>11, <1>12, <1>13, <1>14, <1>15 DEF g, Stores

---------------------------------------------------------------------------
\* What a step of one thread leaves alone.

\* The step leaves the reference s, its chain and its history alone.
SameRef(s) ==
  /\ p_main'[s] = p_main[s] /\ hist'[s] = hist[s]
  /\ s \in Rooted => \A b \in Chain(p_main[s]) : /\ m_ts'[b] = m_ts[b]
                                                 /\ p_data'[b] = p_data[b]
                                                 /\ p_next_version'[b] = p_next_version[b]

\* The step of t leaves alone the blocks that readers may still be on or that the garbage of
\* another thread holds.
SameLeftovers(t) ==
  \A b \in Blocks :
    IsLeftover(b) /\ (p_data[b] # NULL \/ \E u \in Txs \ {t} : \E i \in DOMAIN garbage[u] : garbage[u][i] = b)
      => IsLeftover(b)' /\ m_ts'[b] = m_ts[b] /\ p_data'[b] = p_data[b]

\* The step of t touches no reference but those of R, and nothing that another thread is in.
Frame(t, R) ==
  /\ UNCHANGED txvars
  /\ \A s \in Refs \ R : SameRef(s)
  /\ \A u \in Txs \ {t} : call'[u] = call[u] /\ held'[u] = held[u] /\ garbage'[u] = garbage[u]
  /\ SameLeftovers(t)
  /\ used' \subseteq used \/ IsWriting(t)
  /\ \A u \in Txs \ {t}, s \in R :
       /\ \A i \in DOMAIN garbage[u] : garbage[u][i] # p_main[s] /\ garbage[u][i] # p_main'[s]
       /\ call[u].op \notin {"none", "walk"} /\ call[u].then # "sweep" => call[u].ref # s

\* A history that does not change shows what it showed.
LEMMA SameHistory ==
  ASSUME NEW s \in Refs, hist'[s] = hist[s]
  PROVE  /\ \A v : HistoryAt(s, v)' = HistoryAt(s, v) /\ (FreedAt(s, v)' <=> FreedAt(s, v))
         /\ Last(s)' = Last(s)
<1>1. \A v : HistoryAt(s, v)' = HistoryAt(s, v)
  BY DEF HistoryAt
<1>2. QED
  BY <1>1 DEF FreedAt, Last

\* Who writes and which versions are in use depends on the transaction manager only.
LEMMA SameTx ==
  ASSUME UNCHANGED txvars
  PROVE  /\ LiveVersions' = LiveVersions
         /\ \A t : (IsWriting(t)' <=> IsWriting(t)) /\ (IsWriter(t)' <=> IsWriter(t))
         /\ \A v : InTime(v)' <=> InTime(v)
BY DEF txvars, LiveVersions, Running, IsWriting, IsWriter, InTime

\* A reference whose blocks no step touches has the same versions and shows the same ones.
LEMMA SameVersions ==
  ASSUME ShapeInv, ShapeInv', NEW s \in Rooted, SameRef(s)
  PROVE  /\ s \in Rooted' /\ p_main'[s] = p_main[s]
         /\ Versions(s)' = Versions(s)
         /\ \A b \in {p_main[s]} \cup Versions(s) : /\ m_ts'[b] = m_ts[b]
                                                    /\ p_data'[b] = p_data[b]
                                                    /\ p_next_version'[b] = p_next_version[b]
         /\ FreeCandidate(p_main[s])' = FreeCandidate(p_main[s])
         /\ FreeCandidate(p_main[s]) \in {p_main[s]} \cup Versions(s)
         /\ \A v, y : Seen(s, v, y)' <=> Seen(s, v, y)
<1> USE NullIsNoBlock
<1>1. ChainOfRef(s)
  BY ChainsOfRefs
<1>2. Descends(p_next_version) /\ Descends(p_next_version)'
  BY LinksDescend, PTL
<1>3. \A b \in {p_main[s]} \cup Versions(s) : /\ m_ts'[b] = m_ts[b]
                                              /\ p_data'[b] = p_data[b]
                                              /\ p_next_version'[b] = p_next_version[b]
  BY <1>1 DEF SameRef, ChainOfRef
<1>4. p_main'[s] = p_main[s] /\ s \in Rooted'
  BY DEF SameRef, Rooted
<1>5. p_next_version[p_main[s]] \in Blocks \cup {NULL}
  BY <1>1 DEF ChainOfRef, ShapeInv, PoolTypeOK
<1>6. ChainOf(p_next_version', p_next_version[p_main[s]]) =
      ChainOf(p_next_version, p_next_version[p_main[s]])
  BY <1>2, <1>3, <1>5, ChainFrame DEF Versions, Chain
<1>7. Versions(s)' = Versions(s)
  BY <1>3, <1>4, <1>6 DEF Versions, Chain
<1>8. FreeCandidate(p_main[s])' = FreeCandidate(p_main[s])
  BY <1>3, <1>4 DEF FreeCandidate
<1>9. FreeCandidate(p_main[s]) \in {p_main[s]} \cup Versions(s)
  BY <1>1 DEF FreeCandidate, ChainOfRef
<1>10. \A v, y : Seen(s, v, y)' <=> Seen(s, v, y)
  BY <1>3, <1>4, <1>7 DEF Seen
<1>11. QED
  BY <1>3, <1>4, <1>7, <1>8, <1>9, <1>10

\* The invariant of a reference whose blocks no step touches.
LEMMA SameRefInv ==
  ASSUME ShapeInv, ShapeInv', UNCHANGED txvars, NEW s \in Refs, SameRef(s), RefInv(s),
         s \in Rooted /\ Unlinking(p_main[s]) => Unlinking(p_main[s])'
  PROVE  RefInv(s)'
<1>1. LiveVersions' = LiveVersions /\ m_last_write_committed_id' = m_last_write_committed_id
  BY SameTx DEF txvars
<1>2. hist'[s] = hist[s] /\ p_main'[s] = p_main[s]
  BY DEF SameRef
<1>3. /\ \A v : HistoryAt(s, v)' = HistoryAt(s, v) /\ (FreedAt(s, v)' <=> FreedAt(s, v))
      /\ Last(s)' = Last(s)
  BY <1>2, SameHistory
<1>4. CASE p_main[s] = NULL
  BY <1>1, <1>2, <1>3, <1>4 DEF RefInv
<1>5. CASE p_main[s] # NULL
  <2>1. s \in Rooted /\ RootedInv(s)
    BY <1>5 DEF Rooted, RefInv
  <2>2. /\ Versions(s)' = Versions(s)
        /\ \A b \in {p_main[s]} \cup Versions(s) : m_ts'[b] = m_ts[b] /\ p_data'[b] = p_data[b]
        /\ FreeCandidate(p_main[s])' = FreeCandidate(p_main[s])
        /\ FreeCandidate(p_main[s]) \in {p_main[s]} \cup Versions(s)
        /\ \A v, y : Seen(s, v, y)' <=> Seen(s, v, y)
    BY <2>1, SameVersions
  <2>3. m_ts'[FreeCandidate(p_main[s])'] = Last(s)'.ver
    BY <1>3, <2>1, <2>2 DEF RootedInv
  <2>4. ASSUME NEW v \in LiveVersions, NEW y \in Blocks, Seen(s, v, y)
        PROVE  FreedAt(s, v)' \/ p_data'[y] = HistoryAt(s, v)'
    <3>1. y \in {p_main[s]} \cup Versions(s)
      BY <2>4 DEF Seen
    <3>2. QED
      BY <1>3, <2>1, <2>2, <2>4, <3>1 DEF RootedInv
  <2>5. ASSUME NEW b \in Versions(s), p_data'[b] = NULL
        PROVE  p_data'[p_main[s]] # NULL \/ Unlinking(p_main[s])'
    BY <2>1, <2>2, <2>5 DEF RootedInv
  <2>6. RootedInv(s)'
    BY <1>1, <1>2, <2>1, <2>2, <2>3, <2>4, <2>5 DEF RootedInv
  <2>7. QED
    BY <1>2, <1>5, <2>6 DEF RefInv
<1>6. QED
  BY <1>4, <1>5

\* The step leaves the block b and the chain behind it alone.
SameChain(b) ==
  /\ b \in Blocks
  /\ IsRoot(b)' <=> IsRoot(b)
  /\ Chain(p_next_version[b])' = Chain(p_next_version[b])
  /\ p_next_version[b] # NULL => p_next_version[b] \in Chain(p_next_version[b])
  /\ \A x \in {b} \cup Chain(p_next_version[b]) :
       /\ m_ts'[x] = m_ts[x] /\ p_data'[x] = p_data[x] /\ p_next_version'[x] = p_next_version[x]

\* A reference whose blocks no step touches has the same chain.
LEMMA SameRefChain ==
  ASSUME ShapeInv, ShapeInv', NEW s \in Rooted, SameRef(s)
  PROVE  SameChain(p_main[s])
<1>1. ChainOfRef(s)
  BY ChainsOfRefs
<1>2. /\ Versions(s)' = Versions(s) /\ p_main'[s] = p_main[s]
      /\ \A b \in {p_main[s]} \cup Versions(s) : /\ m_ts'[b] = m_ts[b]
                                                 /\ p_data'[b] = p_data[b]
                                                 /\ p_next_version'[b] = p_next_version[b]
  BY SameVersions
<1>3. IsRoot(p_main[s]) /\ IsRoot(p_main[s])' /\ p_main[s] \in Blocks
  BY <1>1, <1>2 DEF IsRoot, ChainOfRef, Rooted
<1>4. Chain(p_next_version[p_main[s]])' = Versions(s)
  BY <1>2 DEF Versions
<1>5. p_next_version[p_main[s]] # NULL => p_next_version[p_main[s]] \in Versions(s)
  BY <1>1 DEF ChainOfRef
<1>6. QED
  BY <1>2, <1>3, <1>4, <1>5 DEF SameChain, Versions

\* What a collection relies on and what is left for it to do after the walk.
CollectRest(t) ==
  LET c == call[t]
  IN /\ c.op = "drop" <=> c.at # NULL
     /\ c.op \in {"drop", "unlink"} => IsRoot(c.root)
     /\ c.op \in {"drop", "copy"} => Severed(t)
     /\ c.op = "unlink" => /\ Collapsible(c.root, c.orv)
                           /\ p_data[c.root] = p_data[p_next_version[c.root]]
     /\ c.op \in {"reclaim", "ptr", "free"} =>
          (p_next_version[c.root] # NULL => m_ts[p_next_version[c.root]] > c.orv)

\* What a collection knows of a chain that no step touches.
LEMMA SameRest ==
  ASSUME NEW u \in Txs, call'[u] = call[u], SameChain(call[u].root), CollectRest(u)
  PROVE  CollectRest(u)'
<1> DEFINE c == call[u]
           root == call[u].root
           next == p_next_version[call[u].root]
<1>1. /\ p_next_version'[root] = next /\ Chain(next)' = Chain(next) /\ p_data'[root] = p_data[root]
      /\ \A x \in Chain(next) : /\ m_ts'[x] = m_ts[x] /\ p_data'[x] = p_data[x]
                                /\ p_next_version'[x] = p_next_version[x]
      /\ next # NULL => next \in Chain(next)
      /\ IsRoot(root)' <=> IsRoot(root)
  BY DEF SameChain
<1>2. IsRoot(c.root)' <=> IsRoot(c.root)
  BY <1>1
<1>3. Severed(u) => Severed(u)'
  BY <1>1 DEF Severed
<1>4. Collapsible(c.root, c.orv) => Collapsible(c.root, c.orv)'
  BY <1>1 DEF Collapsible
<1>5. c.op = "unlink" => p_data'[c.root] = p_data'[p_next_version'[c.root]]
  BY <1>1 DEF CollectRest, Collapsible
<1>6. QED
  BY <1>1, <1>2, <1>3, <1>4, <1>5 DEF CollectRest

\* The parts of CollectInv: whose call it is, and how far it has come.
LEMMA CollectParts ==
  ASSUME NEW t \in Txs
  PROVE  /\ CollectInv(t) <=> /\ IF call[t].then = "sweep" THEN SweepCall(t) ELSE WriterCall(t)
                              /\ CollectRest(t)
BY DEF CollectInv, CollectRest

\* A sweep's block is the root of a reference or a block without successor.
LEMMA SweepRoot ==
  ASSUME ShapeInv, NEW b, IsEntry(b)
  PROVE  /\ b \in Blocks /\ b \in used
         /\ (\E s \in Rooted : b = p_main[s]) \/ (IsLeftover(b) /\ p_next_version[b] = NULL)
<1>1. b \in Blocks
  <2>1. PICK t \in Txs : \E i \in DOMAIN garbage[t] : garbage[t][i] = b
    BY DEF IsEntry
  <2>2. garbage[t] \in Seq(Blocks)
    BY DEF ShapeInv, PoolTypeOK
  <2>3. QED
    BY <2>1, <2>2, SeqFacts
<1>2. IsRoot(b) => \E s \in Rooted : b = p_main[s]
  BY <1>1, NullIsNoBlock DEF IsRoot, Rooted
<1>3. QED
  BY <1>1, <1>2 DEF ShapeInv, HeadsInv, IsLeftover, IsHead

\* The collection of another thread goes on undisturbed.
LEMMA OtherCollect ==
  ASSUME PoolInv, ShapeInv', NEW t \in Txs, NEW R \in SUBSET Refs, Frame(t, R),
         NEW u \in Txs, u # t, CollectInv(u), call[u].op \notin {"none", "walk"}
  PROVE  CollectInv(u)'
<1> DEFINE c == call[u]
           root == call[u].root
<1>0. ShapeInv
  BY DEF PoolInv, ShapeInv
<1>1. /\ call'[u] = c /\ garbage'[u] = garbage[u]
      /\ \A i \in DOMAIN garbage[u] : \A s \in R : garbage[u][i] # p_main[s] /\ garbage[u][i] # p_main'[s]
      /\ c.then # "sweep" => c.ref \notin R
  BY DEF Frame
<1>2. /\ LiveVersions' = LiveVersions /\ m_last_write_committed_id' = m_last_write_committed_id
      /\ \A x : (IsWriting(x)' <=> IsWriting(x)) /\ (IsWriter(x)' <=> IsWriter(x))
      /\ m_txversion' = m_txversion /\ m_ortxversion' = m_ortxversion
  BY SameTx DEF Frame, txvars
<1>3. \A s \in Refs \ R : /\ SameRef(s) /\ p_main'[s] = p_main[s] /\ hist'[s] = hist[s]
                          /\ \A v : FreedAt(s, v)' <=> FreedAt(s, v)
  BY SameHistory DEF Frame, SameRef
<1>4. CASE c.then = "sweep"
  <2>1. SweepCall(u) /\ CollectRest(u)
    BY <1>4, CollectParts
  <2>2. PICK i \in DOMAIN garbage[u] : garbage[u][i] = root
    BY <2>1 DEF SweepCall
  <2>3. IsEntry(root)
    BY <2>2 DEF IsEntry
  <2>4. SameChain(root)
    <3>1. CASE \E s \in Rooted : root = p_main[s]
      <4>1. PICK s \in Rooted : root = p_main[s]
        BY <3>1
      <4>2. s \in Refs \ R
        BY <1>1, <2>2, <4>1 DEF Rooted
      <4>3. QED
        BY <1>0, <1>3, <4>1, <4>2, SameRefChain
    <3>2. CASE IsLeftover(root) /\ p_next_version[root] = NULL
      <4>1. root \in Blocks
        BY <1>0, <2>3, SweepRoot
      <4>2. IsLeftover(root)' /\ m_ts'[root] = m_ts[root] /\ p_data'[root] = p_data[root]
        BY <1>1, <2>2, <3>2, <4>1 DEF Frame, SameLeftovers
      <4>3. p_next_version'[root] = NULL
        BY <1>1, <4>1, <4>2 DEF ShapeInv, HeadsInv
      <4>4. Chain(NULL) = {} /\ Chain(NULL)' = {}
        <5>1. LinksOn(p_next_version) /\ LinksOn(p_next_version')
          BY <1>0 DEF ShapeInv, PoolTypeOK, LinksOn
        <5>2. QED
          BY <5>1, ChainUnfolds DEF Chain
      <4>5. Chain(p_next_version[root])' = {} /\ Chain(p_next_version[root]) = {}
        BY <1>1, <3>2, <4>3, <4>4
      <4>6. ~IsRoot(root) /\ ~IsRoot(root)'
        BY <1>1, <3>2, <4>2 DEF IsLeftover
      <4>7. QED
        BY <1>1, <3>2, <4>1, <4>2, <4>3, <4>5, <4>6 DEF SameChain
    <3>3. QED
      BY <1>0, <2>3, <3>1, <3>2, SweepRoot
  <2>5. CollectRest(u)'
    BY <1>1, <2>1, <2>4, SameRest
  <2>6. ASSUME NEW v \in LiveVersions, ~(c.orv <= v), NEW r \in Refs,
               NEW j \in DOMAIN garbage[u], garbage[u][j] = p_main'[r]
        PROVE  FreedAt(r, v)'
    <3>1. r \in Refs \ R
      BY <1>1, <2>6
    <3>2. FreedAt(r, v)
      BY <1>3, <2>1, <2>6, <3>1 DEF SweepCall
    <3>3. QED
      BY <1>3, <3>1, <3>2
  <2>7. ASSUME NEW r \in Refs, NEW j \in DOMAIN garbage[u], garbage[u][j] = p_main'[r], IsWriting(u)
        PROVE  FreedEarlier(u, r)'
    <3>1. r \in Refs \ R
      BY <1>1, <2>7
    <3>2. FreedEarlier(u, r)
      BY <1>3, <2>1, <2>7, <3>1 DEF SweepCall
    <3>3. QED
      BY <1>2, <1>3, <3>1, <3>2 DEF FreedEarlier
  <2>8. SweepCall(u)'
    BY <1>1, <1>2, <2>1, <2>2, <2>6, <2>7 DEF SweepCall
  <2>9. QED
    BY <1>1, <1>4, <2>5, <2>8, CollectParts DEF CollectInv, CollectRest
<1>5. CASE c.then # "sweep"
  <2>1. WriterCall(u) /\ CollectRest(u)
    BY <1>5, CollectParts
  <2>2. c.ref \in Rooted /\ root = p_main[c.ref] /\ c.ref \in Refs \ R
    BY <1>1, <1>5, <2>1 DEF WriterCall, Rooted
  <2>3. SameChain(root)
    BY <1>0, <1>3, <2>2, SameRefChain
  <2>4. CollectRest(u)'
    BY <1>1, <2>1, <2>3, SameRest
  <2>5. used' \subseteq used
    <3>1. ~IsWriting(t)
      BY <2>1, OneWriter DEF WriterCall, PoolInv
    <3>2. QED
      BY <3>1 DEF Frame
  <2>6. FreeBlocks # {} => FreeBlocks' # {}
    BY <2>5 DEF FreeBlocks
  <2>7. PICK r \in Refs \ R : r = c.ref
    BY <2>2
  <2>8. /\ r \in Rooted /\ root = p_main[r] /\ SameRef(r)
        /\ call'[u].ref = r /\ call'[u].root = p_main[r]
    BY <1>1, <1>3, <2>2, <2>7
  <2>9. /\ p_main'[r] = p_main[r] /\ r \in Rooted'
        /\ FreeCandidate(p_main[r])' = FreeCandidate(p_main[r])
        /\ m_ts'[FreeCandidate(p_main[r])] = m_ts[FreeCandidate(p_main[r])]
        /\ p_data'[p_main[r]] = p_data[p_main[r]]
    BY <1>0, <2>8, SameVersions
  <2>10. /\ FreedAt(r, m_txversion[u])' <=> FreedAt(r, m_txversion[u])
         /\ FreedEarlier(u, r)' <=> FreedEarlier(u, r)
    <3>1. FreedAt(r, m_txversion[u])' <=> FreedAt(r, m_txversion[u])
      BY <1>2, <1>3 DEF FreedAt, HistoryAt
    <3>2. QED
      BY <1>2, <1>3, <3>1 DEF FreedEarlier
  <2>11. WriterCall(u)'
    <3>1. FreeCandidate(call[u].root)' = FreeCandidate(call[u].root)
      BY <2>8, <2>9 DEF FreeCandidate
    <3>2. FreedAt(call[u].ref, m_txversion[u])' <=> FreedAt(call[u].ref, m_txversion[u])
      BY <2>7, <2>8, <2>10, Zenon DEF FreedAt, HistoryAt
    <3>3. FreedEarlier(u, call[u].ref)' <=> FreedEarlier(u, call[u].ref)
      BY <2>7, <2>8, <2>10, Zenon DEF FreedEarlier, FreedAt, HistoryAt
    <3>4. QED
      BY <1>1, <1>2, <2>1, <2>2, <2>6, <2>7, <2>8, <2>9, <3>1, <3>2, <3>3 DEF WriterCall
  <2>12. QED
    BY <1>1, <1>5, <2>4, <2>11, CollectParts DEF CollectInv, CollectRest
<1>6. QED
  BY <1>4, <1>5

\* A reader walks over a reference that the step leaves alone.
LEMMA OtherWalk ==
  ASSUME PoolInv, ShapeInv', NEW t \in Txs, NEW R \in SUBSET Refs, Frame(t, R),
         NEW u \in Txs, u # t, WalkInv(u), call[u].ref \notin R
  PROVE  WalkInv(u)'
<1> DEFINE c == call[u]
           v == m_txversion[u]
           r == call[u].ref
<1>0. ShapeInv
  BY DEF PoolInv, ShapeInv
<1>1. call'[u] = c /\ r \in Rooted /\ SameRef(r) /\ r \in Refs
  BY DEF Frame, WalkInv, Rooted
<1>2. pc'[u] = pc[u] /\ m_txversion'[u] = v /\ (IsWriter(u)' <=> IsWriter(u))
  BY SameTx DEF Frame, txvars
<1>3. HistoryAt(r, v)' = HistoryAt(r, v) /\ (FreedAt(r, v)' <=> FreedAt(r, v))
  BY <1>1, <1>2, SameHistory DEF SameRef
<1>4. /\ r \in Rooted' /\ p_main'[r] = p_main[r] /\ Versions(r)' = Versions(r)
      /\ \A b \in Versions(r) : m_ts'[b] = m_ts[b]
  BY <1>0, <1>1, SameVersions
<1>5. CASE c.at = NULL /\ \A b \in Versions(r) : m_ts[b] > v
  BY <1>1, <1>2, <1>3, <1>4, <1>5 DEF WalkInv
<1>6. CASE c.at \in Versions(r) /\ \A b \in Versions(r) : m_ts[b] <= v => m_ts[b] <= m_ts[c.at]
  BY <1>1, <1>2, <1>3, <1>4, <1>6 DEF WalkInv
<1>7. CASE /\ IsLeftover(c.at) /\ m_ts[c.at] <= v
           /\ p_data[c.at] # NULL /\ p_data[c.at] = HistoryAt(r, v)
  <2>1. c.at \in Blocks
    BY <1>0, <1>7, SweepRoot DEF IsLeftover
  <2>2. IsLeftover(c.at)' /\ m_ts'[c.at] = m_ts[c.at] /\ p_data'[c.at] = p_data[c.at]
    BY <1>7, <2>1 DEF Frame, SameLeftovers
  <2>3. IsLeftover(call[u].at)'
    BY <1>1, <2>2
  <2>4. QED
    BY <1>1, <1>2, <1>3, <1>4, <1>7, <2>2, <2>3 DEF WalkInv
<1>8. QED
  BY <1>5, <1>6, <1>7 DEF WalkInv

\* A pointer into a reference that the step leaves alone.
LEMMA OtherHeld ==
  ASSUME PoolInv, ShapeInv', NEW t \in Txs, NEW R \in SUBSET Refs, Frame(t, R),
         NEW u \in Txs, held'[u] = held[u], HeldInv(u), held[u] # NULL => held[u].ref \notin R
  PROVE  HeldInv(u)'
<1> DEFINE r == held[u].ref
           b == held[u].block
<1>0. ShapeInv
  BY DEF PoolInv, ShapeInv
<1> SUFFICES ASSUME held[u] # NULL PROVE HeldInv(u)'
  BY DEF HeldInv
<1>1. held'[u] = held[u] /\ r \in Rooted /\ SameRef(r) /\ r \in Refs
  BY DEF Frame, HeldInv, Rooted
<1>2. /\ pc'[u] = pc[u] /\ m_txversion'[u] = m_txversion[u] /\ (IsWriter(u)' <=> IsWriter(u))
      /\ m_ortxversion'[u] = m_ortxversion[u]
  BY SameTx DEF Frame, txvars
<1>3. FreedEarlier(u, r)' <=> FreedEarlier(u, r)
  BY <1>1, <1>2, SameHistory DEF FreedEarlier, SameRef
<1>4. /\ r \in Rooted' /\ p_main'[r] = p_main[r] /\ Versions(r)' = Versions(r)
      /\ \A x \in Versions(r) : m_ts'[x] = m_ts[x]
  BY <1>0, <1>1, SameVersions
<1>5. CASE b = p_main[r]
  BY <1>1, <1>2, <1>3, <1>4, <1>5 DEF HeldInv
<1>6. CASE /\ b \in Versions(r)
           /\ IF IsWriter(u) THEN m_ts[b] > m_ortxversion[u]
              ELSE \A x \in Versions(r) : m_ts[x] <= m_txversion[u] => m_ts[x] <= m_ts[b]
  BY <1>1, <1>2, <1>3, <1>4, <1>6 DEF HeldInv
<1>7. CASE ~IsWriter(u) /\ IsLeftover(b) /\ p_data[b] # NULL
  <2>1. b \in Blocks
    BY <1>0, <1>7, SweepRoot DEF IsLeftover
  <2>2. IsLeftover(b)' /\ p_data'[b] = p_data[b]
    BY <1>7, <2>1 DEF Frame, SameLeftovers
  <2>3. IsLeftover(held[u].block)'
    BY <1>1, <2>2
  <2>4. QED
    BY <1>1, <1>2, <1>3, <1>4, <1>7, <2>2, <2>3 DEF HeldInv
<1>8. QED
  BY <1>5, <1>6, <1>7 DEF HeldInv

\* The invariant after a step of t: what is left to show is what the step does itself.
LEMMA PoolFrame ==
  ASSUME PoolInv, PoolTypeOK', LinksInv', HeadsInv', HistInv',
         NEW t \in Txs, NEW R \in SUBSET Refs, Frame(t, R),
         call[t].op = "unlink" => \A s \in Rooted \ R : p_main[s] # call[t].root,
         \A i \in DOMAIN garbage'[t] : \A r \in Refs :
           p_main'[r] = garbage'[t][i] => FreedBy(t, r)',
         \A s \in R : RefInv(s)',
         CallInv(t)', held'[t] # held[t] => HeldInv(t)',
         \A u \in Txs \ {t} : call[u].op = "walk" /\ call[u].ref \in R => WalkInv(u)',
         \A u \in Txs : held[u] # NULL /\ held'[u] = held[u] /\ held[u].ref \in R => HeldInv(u)'
  PROVE  PoolInv'
<1>0. ShapeInv
  BY DEF PoolInv, ShapeInv
<1>1. UNCHANGED txvars /\ TxInv'
  <2>1. UNCHANGED txvars
    BY DEF Frame
  <2>2. QED
    BY <2>1, TxInvNext DEF PoolInv
<1>2. ShapeInv'
  BY <1>1 DEF ShapeInv
<1>3. ASSUME NEW s \in Refs PROVE RefInv(s)'
  <2>1. CASE s \in R
    BY <2>1
  <2>2. CASE s \notin R
    <3>1. SameRef(s) /\ RefInv(s)
      BY <2>2 DEF Frame, PoolInv
    <3>2. ASSUME s \in Rooted, Unlinking(p_main[s]) PROVE Unlinking(p_main[s])'
      <4>1. PICK u \in Txs : call[u].op = "unlink" /\ call[u].root = p_main[s]
        BY <3>2 DEF Unlinking
      <4>2. u # t
        BY <2>2, <3>2, <4>1
      <4>3. call'[u] = call[u] /\ p_main'[s] = p_main[s]
        BY <3>1, <4>2 DEF Frame, SameRef
      <4>4. QED
        BY <4>1, <4>3 DEF Unlinking
    <3>3. QED
      BY <1>0, <1>1, <1>2, <3>1, <3>2, SameRefInv
  <2>3. QED
    BY <2>1, <2>2
<1>4. GarbageInv'
  <2> SUFFICES ASSUME NEW u \in Txs, NEW i \in DOMAIN garbage'[u], NEW r \in Refs,
                      p_main'[r] = garbage'[u][i]
               PROVE  FreedBy(u, r)'
    BY DEF GarbageInv
  <2>1. CASE u = t
    BY <2>1
  <2>2. CASE u # t
    <3>1. garbage'[u] = garbage[u] /\ r \notin R
      BY <2>2 DEF Frame
    <3>2. p_main'[r] = p_main[r] /\ hist'[r] = hist[r]
      BY <3>1 DEF Frame, SameRef
    <3>3. FreedBy(u, r)
      BY <3>1, <3>2 DEF PoolInv, GarbageInv
    <3>4. (IsWriting(u)' <=> IsWriting(u)) /\ Last(r)' = Last(r)
      BY <1>1, <3>2, SameTx DEF Last
    <3>5. QED
      BY <1>1, <3>3, <3>4 DEF FreedBy, txvars
  <2>3. QED
    BY <2>1, <2>2
<1>5. ASSUME NEW u \in Txs PROVE CallInv(u)'
  <2>1. CASE u = t
    BY <2>1
  <2>2. CASE u # t
    <3>1. call'[u] = call[u] /\ pc' = pc
      BY <1>1, <2>2 DEF Frame, txvars
    <3>2. CallInv(u)
      BY DEF PoolInv
    <3>3. call[u].op = "walk" => WalkInv(u)'
      BY <1>2, <2>2, <3>2, OtherWalk DEF CallInv
    <3>4. call[u].op \notin {"none", "walk"} => CollectInv(u)'
      BY <1>2, <2>2, <3>2, OtherCollect DEF CallInv
    <3>5. QED
      BY <3>1, <3>2, <3>3, <3>4 DEF CallInv, Idle
  <2>3. QED
    BY <2>1, <2>2
<1>6. ASSUME NEW u \in Txs PROVE HeldInv(u)'
  <2>1. u = t \/ held'[u] = held[u]
    BY DEF Frame
  <2>2. CASE held'[u] = held[u]
    <3>1. HeldInv(u)
      BY DEF PoolInv
    <3>2. CASE held[u] # NULL /\ held[u].ref \in R
      BY <2>2, <3>2
    <3>3. CASE ~(held[u] # NULL /\ held[u].ref \in R)
      BY <1>2, <2>2, <3>1, <3>3, OtherHeld
    <3>4. QED
      BY <3>2, <3>3
  <2>3. QED
    BY <2>1, <2>2
<1>7. QED
  BY <1>1, <1>3, <1>4, <1>5, <1>6 DEF PoolInv

\* A reader's walk and the pointer it holds, after a step that touched the reference they are on.
LEMMA WalkOn ==
  ASSUME UNCHANGED txvars, NEW u \in Txs, call'[u] = call[u], WalkInv(u),
         NEW r, r = call[u].ref, NEW a, a = call[u].at,
         r \in Rooted', p_main'[r] = p_main[r], hist'[r] = hist[r],
         \/ a = NULL /\ \A b \in Versions(r)' : m_ts'[b] > m_txversion[u]
         \/ /\ a \in Versions(r)'
            /\ \A b \in Versions(r)' : m_ts'[b] <= m_txversion[u] => m_ts'[b] <= m_ts'[a]
         \/ /\ IsLeftover(a)' /\ m_ts'[a] <= m_txversion[u]
            /\ p_data'[a] # NULL /\ p_data'[a] = HistoryAt(r, m_txversion[u])
  PROVE  WalkInv(u)'
<1>1. /\ call'[u].ref = r /\ call'[u].at = a /\ call'[u].root = p_main'[r] /\ r = call[u].ref
      /\ pc'[u] = "running" /\ m_txversion' = m_txversion /\ m_tx_type' = m_tx_type
  BY DEF WalkInv, txvars
<1>2. /\ FreedAt(call[u].ref, m_txversion[u])' <=> FreedAt(r, m_txversion[u])
      /\ HistoryAt(call[u].ref, m_txversion[u])' = HistoryAt(r, m_txversion[u])
  BY <1>1 DEF FreedAt, HistoryAt
<1>3. Versions(call[u].ref)' = Versions(r)'
  BY <1>1 DEF Versions, Chain
<1>4. IsLeftover(call[u].at)' <=> IsLeftover(a)'
  BY <1>1 DEF IsLeftover, IsEntry, IsRoot
<1>5. ~IsWriter(u)' /\ ~FreedAt(r, m_txversion[u])
  BY <1>1 DEF IsWriter, WalkInv
<1>6. QED
  BY <1>1, <1>2, <1>3, <1>4, <1>5 DEF WalkInv

\* What a pointer needs after a step, given the values of that step.
LEMMA HoldOn ==
  ASSUME UNCHANGED txvars, NEW u \in Txs, held'[u] # NULL, pc[u] = "running",
         NEW r, r = held'[u].ref, NEW b, b = held'[u].block,
         r \in Rooted', ~FreedEarlier(u, r)',
         \/ b = p_main'[r]
         \/ /\ b \in Versions(r)'
            /\ IF IsWriter(u) THEN m_ts'[b] > m_ortxversion[u]
               ELSE \A x \in Versions(r)' : m_ts'[x] <= m_txversion[u] => m_ts'[x] <= m_ts'[b]
         \/ ~IsWriter(u) /\ IsLeftover(b)' /\ p_data'[b] # NULL
  PROVE  HeldInv(u)'
<1>1. /\ pc'[u] = "running" /\ m_txversion' = m_txversion /\ m_tx_type' = m_tx_type
      /\ m_ortxversion' = m_ortxversion /\ (IsWriter(u)' <=> IsWriter(u))
  BY SMTT(20) DEF txvars, IsWriter
<1>2. FreedEarlier(u, held[u].ref)' <=> FreedEarlier(u, r)'
  BY DEF FreedEarlier, FreedAt, HistoryAt
<1>3. Versions(held[u].ref)' = Versions(r)'
  BY DEF Versions, Chain
<1>4. IsLeftover(held[u].block)' <=> IsLeftover(b)'
  BY DEF IsLeftover, IsEntry, IsRoot
<1>5. QED
  BY <1>1, <1>2, <1>3, <1>4 DEF HeldInv


---------------------------------------------------------------------------
\* Steps that move a thread through its call and store nothing.

\* The fields of a call have their types.
LEMMA CallFields ==
  ASSUME PoolTypeOK, NEW t \in Txs
  PROVE  /\ call[t] \in Calls
         /\ call[t].root \in Blocks \cup {NULL} /\ call[t].at \in Blocks \cup {NULL}
         /\ call[t].ref \in Refs \cup {NULL} /\ call[t].orv \in Nat
         /\ call[t].op \in {"none", "walk", "sever", "drop", "copy", "unlink", "reclaim", "ptr", "free"}
         /\ call[t].then \in {"none", "read", "write", "free", "sweep"}
         /\ NoCall \in Calls
BY DEF PoolTypeOK, Calls, NoCall

\* The operation of one transaction goes on.
LEMMA CallSet ==
  ASSUME PoolTypeOK, NEW t \in Txs, NEW d \in Calls, call' = [call EXCEPT ![t] = d]
  PROVE  /\ call' \in [Txs -> Calls] /\ call'[t] = d
         /\ \A u \in Txs \ {t} : call'[u] = call[u]
BY DEF PoolTypeOK

\* Chains begin where they began when roots, entries and dropped versions stay.
LEMMA SameHeads ==
  ASSUME NEW t \in Txs, p_main' = p_main, garbage' = garbage,
         \A u \in Txs \ {t} : call'[u] = call[u],
         call[t].op # "drop", call'[t].op # "drop"
  PROVE  \A b : /\ IsRoot(b)' <=> IsRoot(b)
                /\ IsEntry(b)' <=> IsEntry(b)
                /\ IsDropped(b)' <=> IsDropped(b)
                /\ IsHead(b)' <=> IsHead(b)
                /\ IsLeftover(b)' <=> IsLeftover(b)
<1>1. \A b : (IsRoot(b)' <=> IsRoot(b)) /\ (IsEntry(b)' <=> IsEntry(b))
  BY DEF IsRoot, IsEntry
<1>2. ASSUME NEW u \in Txs, NEW b
      PROVE  (call'[u].op = "drop" /\ call'[u].at = b) <=> (call[u].op = "drop" /\ call[u].at = b)
  BY <1>2
<1>3. \A b : IsDropped(b)' <=> IsDropped(b)
  BY <1>2 DEF IsDropped
<1>4. QED
  BY <1>1, <1>3 DEF IsHead, IsLeftover

\* Steps that store nothing into the blocks keep their shape.
LEMMA SameShape ==
  ASSUME PoolInv, NEW t \in Txs, UNCHANGED <<txvars, p_main, garbage, m_ts, p_next_version, used>>,
         \A u \in Txs \ {t} : call'[u] = call[u],
         call[t].op # "drop", call'[t].op # "drop"
  PROVE  LinksInv' /\ HeadsInv'
<1>1. \A b : /\ IsRoot(b)' <=> IsRoot(b)
             /\ IsEntry(b)' <=> IsEntry(b)
             /\ IsDropped(b)' <=> IsDropped(b)
             /\ IsHead(b)' <=> IsHead(b)
             /\ IsLeftover(b)' <=> IsLeftover(b)
  BY SameHeads
<1>2. /\ m_ts' = m_ts /\ p_next_version' = p_next_version /\ used' = used /\ garbage' = garbage
      /\ p_main' = p_main /\ Rooted' = Rooted
      /\ \A v : InTime(v)' <=> InTime(v)
  BY SameTx DEF Rooted
<1>3. LinksInv'
  BY <1>1, <1>2 DEF LinksInv, PoolInv
<1>4. \A u \in Txs : call'[u].op = "drop" => u # t /\ call'[u] = call[u]
  OBVIOUS
<1>5. HeadsInv'
  <2>1. \A b \in Blocks : /\ IsHead(b)' => b \in used'
                          /\ IsLeftover(b)' => p_next_version'[b] = NULL
                          /\ IsDropped(b)' => ~IsRoot(b)' /\ ~IsEntry(b)'
    BY <1>1, <1>2 DEF HeadsInv, PoolInv
  <2>2. \A u, w \in Txs :
          call'[u].op = "drop" /\ call'[w].op = "drop" /\ call'[u].at = call'[w].at => u = w
    BY <1>4 DEF HeadsInv, PoolInv
  <2>3. QED
    BY <1>2, <2>1, <2>2 DEF HeadsInv, PoolInv
<1>6. QED
  BY <1>3, <1>5

\* A step that only moves one thread inside its call keeps the invariant if it does so for
\* that call and its pointer.
LEMMA CallStep ==
  ASSUME PoolInv, NEW t \in Txs, UNCHANGED <<txvars, p_main, blocks, garbage, hist>>,
         PoolTypeOK',
         \A u \in Txs \ {t} : call'[u] = call[u] /\ held'[u] = held[u],
         call[t].op \notin {"drop", "unlink"}, call'[t].op # "drop",
         CallInv(t)', HeldInv(t)'
  PROVE  PoolInv'
<1>1. /\ UNCHANGED <<txvars, p_main, garbage, m_ts, p_next_version, used>>
      /\ p_data' = p_data /\ hist' = hist
  BY DEF blocks
<1>2. LinksInv' /\ HeadsInv'
  BY <1>1, SameShape
<1>3. HistInv'
  <2>1. \A v : InTime(v)' <=> InTime(v)
    BY SameTx
  <2>2. QED
    BY <1>1, <2>1 DEF HistInv, PoolInv
<1>4. Frame(t, {})
  <2>1. \A s \in Refs : SameRef(s)
    BY <1>1 DEF SameRef
  <2>2. SameLeftovers(t)
    BY <1>1 DEF SameLeftovers, IsLeftover, IsRoot, IsEntry
  <2>3. QED
    BY <1>1, <2>1, <2>2 DEF Frame
<1>5. \A i \in DOMAIN garbage'[t] : \A r \in Refs : p_main'[r] = garbage'[t][i] => FreedBy(t, r)'
  <2>1. \A r : FreedBy(t, r)' <=> FreedBy(t, r)
    BY <1>1, SameTx DEF FreedBy, Last, txvars
  <2>2. QED
    BY <1>1, <2>1 DEF PoolInv, GarbageInv
<1>6. QED
  BY <1>2, <1>3, <1>4, <1>5, PoolFrame

\* A pointer that stays, or is given up, over blocks that stay.
LEMMA SameHeld ==
  ASSUME UNCHANGED <<txvars, p_main, blocks, garbage, hist>>, NEW t \in Txs,
         HeldInv(t), held'[t] = held[t] \/ held'[t] = NULL
  PROVE  HeldInv(t)'
<1> SUFFICES ASSUME held'[t] # NULL PROVE HeldInv(t)'
  BY DEF HeldInv
<1>1. /\ Rooted' = Rooted /\ held'[t] = held[t] /\ pc' = pc /\ m_txversion' = m_txversion
      /\ m_ortxversion' = m_ortxversion /\ m_tx_type' = m_tx_type
      /\ p_main' = p_main /\ m_ts' = m_ts /\ p_data' = p_data /\ p_next_version' = p_next_version
      /\ garbage' = garbage /\ hist' = hist
  BY DEF Rooted, txvars, blocks
<1>2. QED
  BY <1>1 DEF HeldInv, Versions, Chain, FreedEarlier, FreedAt, HistoryAt, IsWriter, IsLeftover, IsRoot,
              IsEntry

\* The shape is a part of the invariant.
LEMMA InvShape == PoolInv => ShapeInv
  BY DEF PoolInv, ShapeInv

\* fdb_txpool_alloc_ptr by a reader: the first version is where a walk begins.
LEMMA ReaderStarts ==
  ASSUME PoolInv, NEW t \in Txs, NEW r \in Refs, ReaderStart(t, r)
  PROVE  PoolInv'
<1> DEFINE c == [NoCall EXCEPT !.op = "walk", !.ref = r, !.root = p_main[r],
                               !.at = p_next_version[p_main[r]]]
<1>1. /\ pc[t] = "running" /\ ~IsWriter(t) /\ call[t] = NoCall
      /\ r \in Rooted /\ ~FreedEarlier(t, r)
      /\ call' = [call EXCEPT ![t] = c]
      /\ UNCHANGED <<p_main, blocks, garbage, held, hist, txvars>>
  BY DEF ReaderStart, Idle, Rooted
<1>2. PoolTypeOK /\ ShapeInv /\ CallInv(t) /\ HeldInv(t)
  BY DEF PoolInv, ShapeInv
<1>3. ChainOfRef(r) /\ p_main[r] \in Blocks /\ p_next_version[p_main[r]] \in Blocks \cup {NULL}
  BY <1>1, <1>2, ChainsOfRefs DEF ChainOfRef, PoolTypeOK
<1>4. /\ c \in Calls /\ c.op = "walk" /\ c.ref = r /\ c.root = p_main[r]
      /\ c.at = p_next_version[p_main[r]] /\ c.then = "none"
  BY <1>3 DEF Calls, NoCall
<1> HIDE DEF c
<1>5. /\ call'[t] = c /\ call' \in [Txs -> Calls]
      /\ \A u \in Txs \ {t} : call'[u] = call[u] /\ held'[u] = held[u]
  BY <1>1, <1>2, <1>4 DEF PoolTypeOK
<1>6. PoolTypeOK'
  BY <1>1, <1>2, <1>5 DEF PoolTypeOK, blocks
<1>7. /\ Versions(r)' = Versions(r) /\ m_ts' = m_ts /\ p_main' = p_main /\ hist' = hist
      /\ m_txversion' = m_txversion /\ pc' = pc /\ (IsWriter(t)' <=> IsWriter(t)) /\ Rooted' = Rooted
  BY <1>1 DEF txvars, blocks, Versions, Chain, IsWriter, Rooted
<1>8. ~FreedAt(r, m_txversion[t]) /\ ~FreedAt(r, m_txversion[t])'
  BY <1>1, <1>7 DEF FreedEarlier, FreedAt, HistoryAt
<1>9. WalkInv(t)'
  <2>1. CASE c.at = NULL
    <3>1. Versions(r) = {}
      BY <1>3, <1>4, <2>1 DEF ChainOfRef
    <3>2. Versions(call[t].ref)' = {}
      BY <1>4, <1>5, <1>7, <3>1 DEF Versions, Chain
    <3>3. ~FreedAt(call[t].ref, m_txversion[t])'
      BY <1>4, <1>5, <1>8 DEF FreedAt, HistoryAt
    <3>4. QED
      BY <1>1, <1>4, <1>5, <1>7, <2>1, <3>2, <3>3 DEF WalkInv
  <2>2. CASE c.at # NULL
    <3>1. c.at \in Versions(r) /\ \A b \in Versions(r) : m_ts[b] <= m_ts[c.at]
      BY <1>3, <1>4, <2>2 DEF ChainOfRef
    <3>2. call'[t].at \in Versions(call[t].ref)' /\ \A b \in Versions(call[t].ref)' : m_ts'[b] <= m_ts'[call'[t].at]
      BY <1>4, <1>5, <1>7, <3>1 DEF Versions, Chain
    <3>3. ~FreedAt(call[t].ref, m_txversion[t])'
      BY <1>4, <1>5, <1>8 DEF FreedAt, HistoryAt
    <3>4. QED
      BY <1>1, <1>4, <1>5, <1>7, <3>2, <3>3 DEF WalkInv
  <2>3. QED
    BY <2>1, <2>2
<1>10. CallInv(t)'
  BY <1>1, <1>4, <1>5, <1>7, <1>9 DEF CallInv
<1>11. HeldInv(t)'
  BY <1>1, <1>2, SameHeld
<1>12. QED
  BY <1>1, <1>4, <1>5, <1>6, <1>10, <1>11, CallStep DEF NoCall

\* The loop of fdb_txpool_alloc_ptr: from a version that is too young the walk goes to the next.
LEMMA ReaderSteps ==
  ASSUME PoolInv, NEW t \in Txs, ReaderStep(t)
  PROVE  PoolInv'
<1> USE NullIsNoBlock
<1>1. /\ call[t].op = "walk" /\ call[t].at # NULL /\ m_ts[call[t].at] > m_txversion[t]
      /\ call' = [call EXCEPT ![t].at = p_next_version[@]]
      /\ UNCHANGED <<p_main, blocks, garbage, held, hist, txvars>>
  BY DEF ReaderStep, TooYoung
<1>2. PoolTypeOK /\ ShapeInv /\ CallInv(t) /\ HeldInv(t) /\ WalkInv(t)
  BY <1>1 DEF PoolInv, ShapeInv, CallInv
<1>3. PICK r \in Rooted : r = call[t].ref
  BY <1>2 DEF WalkInv
<1>4. PICK a \in Blocks : a = call[t].at
  BY <1>1, <1>2, CallFields
<1>5. m_ts \in [Blocks -> Nat] /\ m_txversion[t] \in Nat /\ p_next_version[a] \in Blocks \cup {NULL}
  BY <1>2 DEF PoolTypeOK, ShapeInv, TxInv, TypeOK
<1>6. ChainOfRef(r) /\ a \in Versions(r) /\ \A b \in Versions(r) : m_ts[b] <= m_txversion[t] => m_ts[b] <= m_ts[a]
  BY <1>1, <1>2, <1>3, <1>4, <1>5, ChainsOfRefs DEF WalkInv
<1>7. \A b \in Versions(r) : b \in Blocks
  BY <1>6 DEF ChainOfRef
<1> DEFINE n == p_next_version[a]
<1>8. \/ n = NULL /\ \A b \in Versions(r) : m_ts[b] > m_txversion[t]
      \/ n \in Versions(r) /\ \A b \in Versions(r) : m_ts[b] <= m_txversion[t] => m_ts[b] <= m_ts[n]
  <2>1. ASSUME NEW b \in Versions(r), m_ts[b] <= m_txversion[t]
        PROVE  n # NULL /\ m_ts[b] <= m_ts[n]
    <3>1. m_ts[b] < m_ts[a]
      BY <1>1, <1>4, <1>5, <1>7, <2>1
    <3>2. QED
      BY <1>6, <2>1, <3>1 DEF ChainOfRef
  <2>2. n \in Versions(r) \cup {NULL}
    BY <1>6 DEF ChainOfRef
  <2>3. QED
    BY <1>5, <1>7, <2>1, <2>2
<1>9. /\ call'[t] = [call[t] EXCEPT !.at = n] /\ call' \in [Txs -> Calls]
      /\ call'[t].op = "walk" /\ call'[t].ref = r /\ call'[t].root = call[t].root /\ call'[t].at = n
      /\ \A u \in Txs \ {t} : call'[u] = call[u] /\ held'[u] = held[u]
  <2>1. PICK d : d = [call[t] EXCEPT !.at = n]
    OBVIOUS
  <2>2. call' = [call EXCEPT ![t] = d] /\ n \in Blocks \cup {NULL}
    BY <1>1, <1>4, <1>5, <2>1
  <2> HIDE DEF n
  <2>3. d \in Calls /\ d.op = call[t].op /\ d.ref = call[t].ref /\ d.root = call[t].root /\ d.at = n
    BY <1>2, <2>1, <2>2, CallFields DEF Calls
  <2>4. call' \in [Txs -> Calls] /\ call'[t] = d /\ \A u \in Txs \ {t} : call'[u] = call[u]
    BY <1>2, <2>2, <2>3, CallSet
  <2>5. QED
    BY <1>1, <1>3, <2>1, <2>3, <2>4
<1>10. PoolTypeOK'
  BY <1>1, <1>2, <1>9 DEF PoolTypeOK, blocks
<1>11. /\ Versions(r)' = Versions(r) /\ m_ts' = m_ts /\ p_main' = p_main /\ hist' = hist
       /\ m_txversion' = m_txversion /\ pc' = pc /\ (IsWriter(t)' <=> IsWriter(t)) /\ Rooted' = Rooted
  BY <1>1 DEF txvars, blocks, Versions, Chain, IsWriter, Rooted
<1>12. ~FreedAt(call[t].ref, m_txversion[t])'
  <2>1. ~FreedAt(r, m_txversion[t])
    BY <1>2, <1>3 DEF WalkInv
  <2>2. ~FreedAt(r, m_txversion[t])'
    BY <1>11, <2>1 DEF FreedAt, HistoryAt
  <2>3. QED
    BY <1>9, <2>2 DEF FreedAt, HistoryAt
<1>13. Versions(call[t].ref)' = Versions(r)
  BY <1>9, <1>11 DEF Versions, Chain
<1> HIDE DEF n
<1>14. WalkInv(t)'
  BY <1>2, <1>3, <1>8, <1>9, <1>11, <1>12, <1>13 DEF WalkInv
<1>15. CallInv(t)'
  BY <1>2, <1>9, <1>11, <1>14 DEF CallInv, WalkInv
<1>16. HeldInv(t)'
  BY <1>1, <1>2, SameHeld
<1>17. QED
  BY <1>1, <1>9, <1>10, <1>15, <1>16, CallStep

\* A pointer that a reader may keep, as its walk ends.
LEMMA ReaderEnds ==
  ASSUME PoolInv, NEW t \in Txs, ReaderEnd(t)
  PROVE  PoolInv'
<1> USE NullIsNoBlock
<1> DEFINE b == IF call[t].at = NULL THEN call[t].root ELSE call[t].at
           h == [ref |-> call[t].ref, block |-> b, null |-> p_data[b] = NULL]
<1>1. /\ call[t].op = "walk" /\ ~TooYoung(t, call[t].at)
      /\ held' = [held EXCEPT ![t] = h]
      /\ call' = [call EXCEPT ![t] = NoCall]
      /\ UNCHANGED <<p_main, blocks, garbage, hist, txvars>>
  BY DEF ReaderEnd, Hold
<1>2. PoolTypeOK /\ ShapeInv /\ CallInv(t) /\ HeldInv(t) /\ WalkInv(t)
  BY <1>1 DEF PoolInv, ShapeInv, CallInv
<1>3. PICK r \in Rooted : r = call[t].ref
  BY <1>2 DEF WalkInv
<1>4. r \in Refs /\ ChainOfRef(r) /\ p_main[r] \in Blocks
  BY <1>2, <1>3, ChainsOfRefs DEF Rooted, ChainOfRef
<1>5. b \in Blocks
  BY <1>2, <1>3, <1>4, CallFields DEF WalkInv
<1>6. PICK k \in Blocks : k = b
  BY <1>5
<1>7. /\ held' = [held EXCEPT ![t] = [ref |-> r, block |-> k, null |-> p_data[k] = NULL]]
      /\ held'[t] = [ref |-> r, block |-> k, null |-> p_data[k] = NULL]
      /\ held' \in [Txs -> {NULL} \cup [ref : Refs, block : Blocks, null : BOOLEAN]]
  <2>1. [ref |-> r, block |-> k, null |-> p_data[k] = NULL] \in [ref : Refs, block : Blocks, null : BOOLEAN]
    BY <1>4
  <2>2. QED
    BY <1>1, <1>2, <1>3, <1>6, <2>1 DEF PoolTypeOK
<1>8. held'[t].ref = r /\ held'[t].block = k
  BY <1>7
<1>9. /\ call'[t] = NoCall /\ call' \in [Txs -> Calls]
      /\ \A u \in Txs \ {t} : call'[u] = call[u] /\ held'[u] = held[u]
  BY <1>1, <1>2, CallFields DEF PoolTypeOK
<1>10. PoolTypeOK'
  BY <1>1, <1>2, <1>7, <1>9 DEF PoolTypeOK, blocks
<1>11. /\ Versions(r)' = Versions(r) /\ m_ts' = m_ts /\ p_main' = p_main /\ hist' = hist
       /\ p_data' = p_data /\ garbage' = garbage
       /\ m_txversion' = m_txversion /\ pc' = pc /\ (IsWriter(t)' <=> IsWriter(t)) /\ Rooted' = Rooted
  BY <1>1 DEF txvars, blocks, Versions, Chain, IsWriter, Rooted
<1>12. ~FreedEarlier(t, r) /\ ~FreedEarlier(t, r)'
  <2>1. ~FreedAt(r, m_txversion[t])
    BY <1>2, <1>3 DEF WalkInv
  <2>2. QED
    BY <1>11, <2>1 DEF FreedEarlier, FreedAt, HistoryAt
<1>13. CASE call[t].at = NULL
  <2>1. k = p_main[r]
    BY <1>2, <1>3, <1>6, <1>13 DEF WalkInv
  <2>2. HeldInv(t)'
    BY <1>2, <1>8, <1>11, <1>12, <2>1, Zenon DEF HeldInv, WalkInv, FreedEarlier, FreedAt, HistoryAt
  <2>3. QED
    BY <1>1, <1>9, <1>10, <2>2, CallStep DEF CallInv, Idle, NoCall
<1>14. CASE call[t].at # NULL
  <2>1. k = call[t].at
    BY <1>6, <1>14
  <2>2. \/ k \in Versions(r) /\ \A x \in Versions(r) : m_ts[x] <= m_txversion[t] => m_ts[x] <= m_ts[k]
        \/ IsLeftover(k) /\ p_data[k] # NULL
    BY <1>2, <1>3, <1>14, <2>1 DEF WalkInv
  <2>3. IsLeftover(k)' <=> IsLeftover(k)
    BY <1>11 DEF IsLeftover, IsRoot, IsEntry
  <2>4. /\ Versions(held[t].ref)' = Versions(r) /\ (FreedEarlier(t, held[t].ref)' <=> FreedEarlier(t, r)')
        /\ IsLeftover(held[t].block)' <=> IsLeftover(k)
    BY <1>8, <1>11, <2>3 DEF Versions, Chain, FreedEarlier, FreedAt, HistoryAt, IsLeftover, IsRoot, IsEntry
  <2>5. HeldInv(t)'
    BY <1>2, <1>8, <1>11, <1>12, <2>2, <2>4 DEF HeldInv, WalkInv
  <2>6. QED
    BY <1>1, <1>9, <1>10, <2>5, CallStep DEF CallInv, Idle, NoCall
<1>15. QED
  BY <1>13, <1>14

\* A writer finds the version fdb_txpool_alloc_free would take out: the youngest there is.
LEMMA WriterSeesTop ==
  ASSUME PoolInv, NEW t \in Txs, IsWriting(t), NEW r \in Rooted
  PROVE  /\ Visible(p_main[r], m_txversion[t]) = FreeCandidate(p_main[r])
         /\ FreeCandidate(p_main[r]) \in Blocks
         /\ Seen(r, m_txversion[t], FreeCandidate(p_main[r]))
<1> USE NullIsNoBlock
<1> DEFINE root == p_main[r]
           top == p_next_version[p_main[r]]
           v == m_txversion[t]
<1>1. ShapeInv /\ ChainOfRef(r)
  BY InvShape, ChainsOfRefs
<1>2. m_ts \in [Blocks -> Nat] /\ top \in Blocks \cup {NULL} /\ v \in Nat
  BY <1>1 DEF ShapeInv, PoolTypeOK, ChainOfRef, TxInv, TypeOK
<1>3. FreeCandidate(root) \in Blocks /\ Seen(r, v, FreeCandidate(root))
  <2>1. CASE top = NULL
    BY <1>1, <1>2, <2>1 DEF FreeCandidate, Seen, ChainOfRef
  <2>2. CASE top # NULL
    <3>1. /\ top \in Versions(r) /\ top \in used /\ top \in Blocks
          /\ \A x \in Versions(r) : m_ts[x] <= m_ts[top]
      BY <1>1, <2>2 DEF ChainOfRef
    <3>2. InTime(m_ts[top])
      BY <1>1, <3>1 DEF ShapeInv, LinksInv
    <3>3. m_ts[top] <= v
      BY <1>1, <1>2, <3>1, <3>2, WriterBounds DEF ShapeInv
    <3>4. QED
      BY <2>2, <3>1, <3>3 DEF FreeCandidate, Seen
  <2>3. QED
    BY <2>1, <2>2
<1>4. QED
  BY <1>1, <1>2, <1>3, WalkFindsSeen

\* A call of a writer begins with the collection of its reference.
LEMMA CollectStarts ==
  ASSUME PoolInv, NEW t \in Txs, NEW r \in Refs, NEW then \in {"read", "write", "free"},
         IsWriting(t), Idle(t), p_main[r] # NULL, ~FreedEarlier(t, r),
         then # "read" => ~FreedAt(r, m_txversion[t]) /\ FreeBlocks # {},
         then = "free" => \/ m_ts[FreeCandidate(p_main[r])] <= m_ortxversion[t]
                          \/ /\ m_ts[FreeCandidate(p_main[r])] = m_txversion[t]
                             /\ p_data[p_main[r]] # NULL,
         Collect(t, r, then), UNCHANGED <<p_main, blocks, garbage, held, hist, txvars>>
  PROVE  PoolInv'
<1> DEFINE c == [op |-> "sever", then |-> then, ref |-> r, root |-> p_main[r],
                 at |-> NULL, orv |-> m_ortxversion[t]]
<1>1. PoolTypeOK /\ ShapeInv /\ HeldInv(t) /\ r \in Rooted
  BY InvShape DEF PoolInv, Rooted
<1>2. /\ c \in Calls /\ c.op = "sever" /\ c.then = then /\ c.ref = r /\ c.root = p_main[r]
      /\ c.at = NULL /\ c.orv = m_ortxversion[t]
  <2>1. p_main[r] \in Blocks \cup {NULL} /\ m_ortxversion[t] \in Nat
    BY <1>1 DEF PoolTypeOK, ShapeInv, TxInv, TypeOK
  <2>2. QED
    BY <2>1 DEF Calls
<1>3. call' = [call EXCEPT ![t] = c]
  BY DEF Collect
<1> HIDE DEF c
<1>4. /\ call'[t] = c /\ call' \in [Txs -> Calls] /\ call[t].op = "none"
      /\ \A u \in Txs \ {t} : call'[u] = call[u] /\ held'[u] = held[u]
  BY <1>1, <1>2, <1>3 DEF PoolTypeOK, Idle, NoCall
<1>5. PoolTypeOK'
  BY <1>1, <1>4 DEF PoolTypeOK, blocks
<1>6. /\ m_ts' = m_ts /\ p_main' = p_main /\ hist' = hist /\ p_data' = p_data
      /\ p_next_version' = p_next_version /\ used' = used
      /\ m_txversion' = m_txversion /\ m_ortxversion' = m_ortxversion
      /\ pc' = pc /\ (IsWriter(t)' <=> IsWriter(t)) /\ Rooted' = Rooted
  BY DEF txvars, blocks, IsWriter, Rooted
<1>7. /\ IsWriting(t)'
      /\ FreedEarlier(t, r)' <=> FreedEarlier(t, r)
      /\ FreedAt(r, m_txversion[t])' <=> FreedAt(r, m_txversion[t])
      /\ FreeBlocks' = FreeBlocks /\ FreeCandidate(p_main[r])' = FreeCandidate(p_main[r])
  <2>1. FreedAt(r, m_txversion[t])' <=> FreedAt(r, m_txversion[t])
    BY <1>6 DEF FreedAt, HistoryAt
  <2>2. FreedEarlier(t, r)' <=> FreedEarlier(t, r)
    BY <1>6, <2>1 DEF FreedEarlier
  <2>3. FreeBlocks' = FreeBlocks /\ FreeCandidate(p_main[r])' = FreeCandidate(p_main[r])
    BY <1>6 DEF FreeBlocks, FreeCandidate
  <2>4. IsWriting(t)'
    BY <1>6 DEF IsWriting
  <2>5. QED
    BY <2>1, <2>2, <2>3, <2>4
<1>8. WriterCall(t)'
  <2>1. /\ FreedEarlier(t, call[t].ref)' <=> FreedEarlier(t, r)'
        /\ FreedAt(call[t].ref, m_txversion[t])' <=> FreedAt(r, m_txversion[t])'
        /\ FreeCandidate(call[t].root)' = FreeCandidate(p_main[r])'
    <3>1. call'[t].ref = r /\ call'[t].root = p_main[r] /\ p_main' = p_main
      BY <1>2, <1>4, <1>6
    <3>2. FreedEarlier(t, call[t].ref)' <=> FreedEarlier(t, r)'
      BY <3>1 DEF FreedEarlier, FreedAt, HistoryAt
    <3>3. FreedAt(call[t].ref, m_txversion[t])' <=> FreedAt(r, m_txversion[t])'
      BY <3>1 DEF FreedAt, HistoryAt
    <3>4. FreeCandidate(call[t].root)' = FreeCandidate(p_main[r])'
      BY <3>1 DEF FreeCandidate
    <3>5. QED
      BY <3>2, <3>3, <3>4
  <2>2. QED
    BY <1>1, <1>2, <1>4, <1>6, <1>7, <2>1 DEF WriterCall
<1>9. CollectInv(t)'
  BY <1>2, <1>4, <1>8 DEF CollectInv
<1>10. CallInv(t)'
  BY <1>2, <1>4, <1>6, <1>9 DEF CallInv, IsWriting
<1>11. HeldInv(t)'
  BY <1>1, SameHeld
<1>12. QED
  BY <1>2, <1>4, <1>5, <1>10, <1>11, CallStep

\* fdb_txpool_alloc_ptr by a writer.
LEMMA WriterStarts ==
  ASSUME PoolInv, NEW t \in Txs, NEW r \in Refs, NEW then \in {"read", "write"},
         WriterPtr(t, r, then)
  PROVE  PoolInv'
<1>1. then = "write" => FreeBlocks # {}
  <2>1. Cardinality({}) = 0
    BY FS_EmptySet
  <2>2. QED
    BY <2>1 DEF WriterPtr, HasRoom
<1>2. QED
  BY <1>1, CollectStarts DEF WriterPtr, IsWriting

\* fdb_txpool_alloc_free, by a client that keeps to the assertion of txpool_allocator.c:179.
LEMMA FreeStarts ==
  ASSUME PoolInv, NEW t \in Txs, NEW r \in Refs, Free(t, r), Liberties = {}
  PROVE  PoolInv'
<1>1. FreeBlocks # {}
  <2>1. Cardinality({}) = 0
    BY FS_EmptySet
  <2>2. QED
    BY <2>1 DEF Free, HasRoom
<1>2. r \in Rooted /\ IsWriting(t)
  BY DEF Free, Rooted, IsWriting
<1>3. \/ m_ts[FreeCandidate(p_main[r])] <= m_ortxversion[t]
      \/ /\ m_ts[FreeCandidate(p_main[r])] = m_txversion[t]
         /\ p_data[p_main[r]] # NULL
  <2>1. Visible(p_main[r], m_txversion[t]) = FreeCandidate(p_main[r])
    BY <1>2, WriterSeesTop
  <2>2. m_txversion[t] \in Nat
    BY DEF PoolInv, TxInv, TypeOK
  <2>3. QED
    BY <2>1, <2>2 DEF Free, Freeable
<1>4. QED
  BY <1>1, <1>2, <1>3, CollectStarts DEF Free, FreedEarlier

\* A writer is handed the version it sees.
LEMMA WriterReads ==
  ASSUME PoolInv, NEW t \in Txs, WriterRead(t)
  PROVE  PoolInv'
<1> USE NullIsNoBlock
<1>1. /\ call[t].op = "ptr" /\ call[t].then = "read"
      /\ Hold(t, call[t].ref, Visible(call[t].root, m_txversion[t]))
      /\ call' = [call EXCEPT ![t] = NoCall]
      /\ UNCHANGED <<p_main, blocks, garbage, hist, txvars>>
  BY DEF WriterRead
<1>2. PoolTypeOK /\ ShapeInv /\ CallInv(t) /\ WriterCall(t) /\ CollectRest(t)
  BY <1>1, InvShape, CollectParts DEF PoolInv, CallInv
<1>3. PICK r \in Rooted : r = call[t].ref
  BY <1>2 DEF WriterCall
<1>4. /\ r \in Refs /\ ChainOfRef(r) /\ call[t].root = p_main[r] /\ IsWriting(t)
      /\ ~FreedEarlier(t, r) /\ call[t].orv = m_ortxversion[t]
  BY <1>2, <1>3, ChainsOfRefs DEF WriterCall, Rooted
<1>5. PICK k \in Blocks : k = FreeCandidate(p_main[r])
  BY <1>4, WriterSeesTop
<1>6. Visible(call[t].root, m_txversion[t]) = k
  BY <1>4, <1>5, WriterSeesTop
<1>7. /\ held' = [held EXCEPT ![t] = [ref |-> r, block |-> k, null |-> p_data[k] = NULL]]
      /\ held'[t] = [ref |-> r, block |-> k, null |-> p_data[k] = NULL]
      /\ held' \in [Txs -> {NULL} \cup [ref : Refs, block : Blocks, null : BOOLEAN]]
  <2>1. [ref |-> r, block |-> k, null |-> p_data[k] = NULL] \in [ref : Refs, block : Blocks, null : BOOLEAN]
    BY <1>4
  <2>2. QED
    BY <1>1, <1>2, <1>3, <1>6, <2>1 DEF PoolTypeOK, Hold
<1>8. held'[t].ref = r /\ held'[t].block = k
  BY <1>7
<1>9. /\ call'[t] = NoCall /\ call' \in [Txs -> Calls]
      /\ \A u \in Txs \ {t} : call'[u] = call[u] /\ held'[u] = held[u]
  BY <1>1, <1>2, <1>7, CallFields DEF PoolTypeOK
<1>10. PoolTypeOK'
  BY <1>1, <1>2, <1>7, <1>9 DEF PoolTypeOK, blocks
<1>11. /\ Versions(r)' = Versions(r) /\ m_ts' = m_ts /\ p_main' = p_main /\ hist' = hist
       /\ m_txversion' = m_txversion /\ m_ortxversion' = m_ortxversion
       /\ pc' = pc /\ (IsWriter(t)' <=> IsWriter(t)) /\ Rooted' = Rooted
  BY <1>1 DEF txvars, blocks, Versions, Chain, IsWriter, Rooted
<1>12. k = p_main[r] \/ (k \in Versions(r) /\ m_ts[k] > m_ortxversion[t])
  BY <1>1, <1>2, <1>4, <1>5 DEF FreeCandidate, CollectRest, ChainOfRef
<1>13. /\ Versions(held[t].ref)' = Versions(r)
       /\ FreedEarlier(t, held[t].ref)' <=> FreedEarlier(t, r)
  BY <1>8, <1>11 DEF Versions, Chain, FreedEarlier, FreedAt, HistoryAt
<1>14. HeldInv(t)'
  BY <1>4, <1>8, <1>11, <1>12, <1>13 DEF HeldInv, IsWriting
<1>15. QED
  BY <1>1, <1>9, <1>10, <1>14, CallStep DEF CallInv, Idle, NoCall

\* What a writer that has freed nothing itself has in its garbage list was freed before it began.
LEMMA GarbageIsGone ==
  ASSUME PoolInv, NEW t \in Txs, IsWriting(t), ~HasFreed(t),
         NEW r \in Refs, NEW i \in DOMAIN garbage[t], p_main[r] = garbage[t][i]
  PROVE  FreedEarlier(t, r) /\ Last(r).ver <= m_last_write_committed_id
<1>1. TxInv /\ PoolTypeOK /\ HistInv /\ IsWriter(t)
  BY DEF PoolInv, IsWriting
<1>2. hist[r] # <<>>
  <2>1. garbage[t][i] \in Blocks
    BY <1>1, SeqFacts DEF PoolTypeOK
  <2>2. p_main[r] # NULL
    BY <2>1, NullIsNoBlock
  <2>3. QED
    BY <2>2 DEF PoolInv, RefInv, RootedInv
<1>3. /\ Last(r).val = NULL
      /\ Last(r).ver <= m_last_write_committed_id \/ Last(r).ver = m_txversion[t]
  BY DEF PoolInv, GarbageInv, FreedBy
<1>4. Last(r).ver \in Nat /\ Last(r).ver <= m_txversion[t]
  BY <1>1, <1>2, <1>3, HistoryTop, WriterBounds
<1>5. FreedAt(r, m_txversion[t])
  BY <1>1, <1>2, <1>3, <1>4, HistoryTop, WriterBounds
<1>6. FreedEarlier(t, r)
  BY <1>5 DEF HasFreed
<1>7. Last(r).ver # m_txversion[t]
  BY <1>1, <1>6 DEF FreedEarlier, Last
<1>8. QED
  BY <1>3, <1>6, <1>7

\* The safepoint of a sweep is not above what a transaction reads, or it is the running
\* writer's and what this thread freed is gone for everybody else.
LEMMA SweepSafe ==
  ASSUME PoolInv, NEW t \in Txs, IsWriting(t) => ~HasFreed(t),
         NEW v \in LiveVersions, ~(OldestRunningVersion <= v),
         NEW r \in Refs, NEW i \in DOMAIN garbage[t], p_main[r] = garbage[t][i]
  PROVE  FreedAt(r, v)
<1>0. TxInv /\ PoolTypeOK /\ HistInv
  BY DEF PoolInv
<1>1. /\ v \in Nat /\ m_last_write_committed_id \in Nat
      /\ \A u \in Running : u \in Txs /\ m_txversion[u] \in Nat /\ m_id[u] \in Nat
  BY <1>0, LiveTypes DEF TxInv, TypeOK, Running
<1>2. p_first # NULL
  BY <1>0, <1>1 DEF TxInv, ListOrder, LiveVersions, OldestRunningVersion
<1>3. p_first \in Running /\ \A u \in Running : m_id[p_first] <= m_id[u]
  BY <1>0, <1>2 DEF TxInv, ListOrder
<1>4. OldestRunningVersion = m_txversion[p_first]
  BY <1>2 DEF OldestRunningVersion
<1>5. IsWriter(p_first)
  <2> SUFFICES ASSUME ~IsWriter(p_first) PROVE FALSE
    OBVIOUS
  <2>1. \A u \in Running : m_txversion[p_first] <= m_txversion[u]
    BY <1>0, <1>3 DEF TxInv, VersionOrder
  <2>2. m_txversion[p_first] <= m_last_write_committed_id
    BY <1>0, <1>3 DEF TxInv, SnapshotIsCommitted
  <2>3. QED
    BY <1>4, <2>1, <2>2 DEF LiveVersions
<1>6. v = m_last_write_committed_id
  <2> SUFFICES ASSUME NEW u \in Running, v = m_txversion[u] PROVE v = m_last_write_committed_id
    BY DEF LiveVersions
  <2>1. u # p_first
    BY <1>1, <1>3, <1>4
  <2>2. m_id[p_first] < m_id[u]
    BY <1>0, <1>1, <1>3, <2>1 DEF TxInv, IdOrder
  <2>3. QED
    BY <1>0, <1>3, <1>5, <2>2 DEF TxInv, LateReaders
<1>7. Last(r).val = NULL /\ Last(r).ver <= v
  BY <1>6, GarbageIsGone DEF PoolInv, GarbageInv, FreedBy
<1>8. hist[r] # <<>>
  <2>1. garbage[t][i] \in Blocks
    BY <1>0, SeqFacts DEF PoolTypeOK
  <2>2. p_main[r] # NULL
    BY <2>1, NullIsNoBlock
  <2>3. QED
    BY <2>2 DEF PoolInv, RefInv, RootedInv
<1>9. QED
  BY <1>0, <1>1, <1>7, <1>8, HistoryTop

\* fdb_txthread_ctx_gc: the safepoint it reads is not above what any transaction reads.
LEMMA SweepStarts ==
  ASSUME PoolInv, NEW t \in Txs, CtxGc(t), Liberties = {}
  PROVE  PoolInv'
<1> DEFINE c == [NoCall EXCEPT !.op = "sever", !.then = "sweep",
                               !.root = Head(garbage[t]), !.orv = SweepVersion]
<1>1. /\ call[t] = NoCall /\ garbage[t] # <<>> /\ m_mutex = NULL
      /\ pc[t] \in {"idle", "running"} /\ (IsWriting(t) => ~HasFreed(t))
      /\ call' = [call EXCEPT ![t] = c]
      /\ UNCHANGED <<p_main, blocks, garbage, held, hist, txvars>>
  BY DEF CtxGc, Idle, IsWriting
<1>2. PoolTypeOK /\ ShapeInv /\ HeldInv(t) /\ TxInv
  BY InvShape DEF PoolInv
<1>3. 1 \in DOMAIN garbage[t] /\ Head(garbage[t]) = garbage[t][1] /\ garbage[t][1] \in Blocks
  <2>1. garbage[t] \in Seq(Blocks)
    BY <1>2 DEF PoolTypeOK
  <2>2. QED
    BY <1>1, <2>1, SeqFacts
<1>4. SweepVersion = OldestRunningVersion /\ OldestRunningVersion \in Nat
  BY <1>2 DEF SweepVersion, OldestRunningVersion, TxInv, TypeOK
<1>5. /\ c \in Calls /\ c.op = "sever" /\ c.then = "sweep" /\ c.root = garbage[t][1]
      /\ c.at = NULL /\ c.orv = OldestRunningVersion
  BY <1>3, <1>4 DEF Calls, NoCall
<1> HIDE DEF c
<1>6. /\ call'[t] = c /\ call' \in [Txs -> Calls] /\ call[t].op = "none"
      /\ \A u \in Txs \ {t} : call'[u] = call[u] /\ held'[u] = held[u]
  BY <1>1, <1>2, <1>5 DEF PoolTypeOK, NoCall
<1>7. PoolTypeOK'
  BY <1>1, <1>2, <1>6 DEF PoolTypeOK, blocks
<1>8. /\ p_main' = p_main /\ hist' = hist /\ garbage' = garbage /\ pc' = pc
      /\ (IsWriting(t)' <=> IsWriting(t)) /\ (IsWriter(t)' <=> IsWriter(t))
      /\ LiveVersions' = LiveVersions /\ m_txversion' = m_txversion
  BY <1>1, SameTx DEF txvars
<1>9. \A v \in LiveVersions : OldestRunningVersion <= v \/
        \A r \in Refs : (\E i \in DOMAIN garbage[t] : garbage[t][i] = p_main[r]) => FreedAt(r, v)
  BY <1>1, SweepSafe
<1>10. /\ \A r, v : FreedAt(r, v)' <=> FreedAt(r, v)
       /\ \A r : FreedEarlier(t, r)' <=> FreedEarlier(t, r)
  <2>1. \A r, v : FreedAt(r, v)' <=> FreedAt(r, v)
    BY <1>8 DEF FreedAt, HistoryAt
  <2>2. QED
    BY <1>8, <2>1 DEF FreedEarlier
<1>11. ASSUME IsWriting(t), NEW r \in Refs, NEW i \in DOMAIN garbage[t], garbage[t][i] = p_main[r]
       PROVE  FreedEarlier(t, r)
  BY <1>1, <1>11, GarbageIsGone
<1>12. SweepCall(t)'
  BY <1>3, <1>5, <1>6, <1>8, <1>9, <1>10, <1>11 DEF SweepCall
<1>13. CollectInv(t)'
  BY <1>5, <1>6, <1>12 DEF CollectInv
<1>14. CallInv(t)'
  BY <1>1, <1>5, <1>6, <1>8, <1>13 DEF CallInv
<1>15. HeldInv(t)'
  BY <1>1, <1>2, SameHeld
<1>16. QED
  BY <1>1, <1>5, <1>6, <1>7, <1>14, <1>15, CallStep

---------------------------------------------------------------------------
\* Steps of the transaction manager.

\* What a transaction at v sees of r is what one at x sees of it.
SameView(r, v, x) ==
  /\ HistoryAt(r, v) = HistoryAt(r, x)
  /\ FreedAt(r, v) <=> FreedAt(r, x)
  /\ r \in Rooted => \A y \in Blocks : Seen(r, v, y) => Seen(r, x, y)

\* Every transaction sees what it sees itself.
LEMMA SameViews ==
  ASSUME NEW V, V \subseteq Nat, NEW W, W \subseteq V
  PROVE  \A v \in W : \E x \in V : x <= v /\ \A r \in Refs : SameView(r, v, x)
<1> SUFFICES ASSUME NEW v \in W
             PROVE  \E x \in V : x <= v /\ \A r \in Refs : SameView(r, v, x)
  OBVIOUS
<1>1. \A r \in Refs : SameView(r, v, v)
  BY DEF SameView
<1>2. v \in V /\ v <= v
  OBVIOUS
<1>3. QED
  BY <1>1, <1>2

\* Versions in use are numbers.
LEMMA LiveNat == TxInv => LiveVersions \subseteq Nat
  BY LiveTypes

\* A step of the transaction manager keeps the invariant of the pool if every version in use
\* after it sees what one in use before it saw.
LEMMA ManagerFrame ==
  ASSUME PoolInv, TxInv', UNCHANGED <<p_main, blocks, garbage, call, hist>>,
         NEW t \in Txs, Idle(t), held' = [held EXCEPT ![t] = NULL],
         \A u \in Txs \ {t} : /\ pc'[u] = pc[u]
                              /\ m_txversion'[u] = m_txversion[u]
                              /\ m_ortxversion'[u] = m_ortxversion[u]
                              /\ m_tx_type'[u] = m_tx_type[u],
         m_last_write_committed_id <= m_last_write_committed_id',
         \A v \in Nat : InTime(v) => InTime(v)',
         IsWriting(t) => m_txversion[t] <= m_last_write_committed_id',
         \A v \in LiveVersions' : \E x \in LiveVersions : x <= v /\ \A r \in Refs : SameView(r, v, x)
  PROVE  PoolInv'
<1>0. /\ PoolTypeOK /\ TxInv
      /\ LiveVersions \subseteq Nat /\ LiveVersions' \subseteq Nat
      /\ m_last_write_committed_id \in Nat /\ m_last_write_committed_id' \in Nat
  <2>1. PoolTypeOK /\ TxInv
    BY DEF PoolInv
  <2>2. (LiveVersions \subseteq Nat) /\ (LiveVersions \subseteq Nat)'
    BY <2>1, LiveNat, PTL
  <2>3. QED
    BY <2>1, <2>2 DEF TxInv, TypeOK
<1>1. /\ p_main' = p_main /\ m_ts' = m_ts /\ p_data' = p_data /\ p_next_version' = p_next_version
      /\ used' = used /\ garbage' = garbage /\ call' = call /\ hist' = hist
      /\ Rooted' = Rooted /\ held'[t] = NULL /\ \A u \in Txs \ {t} : held'[u] = held[u]
  BY <1>0 DEF blocks, Rooted, PoolTypeOK
<1>2. PoolTypeOK'
  BY <1>0, <1>1 DEF PoolTypeOK
<1>3. \A b : /\ IsRoot(b)' <=> IsRoot(b)
             /\ IsEntry(b)' <=> IsEntry(b)
             /\ IsDropped(b)' <=> IsDropped(b)
             /\ IsHead(b)' <=> IsHead(b)
             /\ IsLeftover(b)' <=> IsLeftover(b)
  BY <1>1 DEF IsRoot, IsEntry, IsDropped, IsHead, IsLeftover
<1>4. LinksInv'
  <2>1. \A b \in used : InTime(m_ts[b])'
    BY <1>0, <1>1 DEF PoolInv, LinksInv, PoolTypeOK
  <2>2. QED
    BY <1>1, <1>3, <2>1 DEF PoolInv, LinksInv
<1>5. HeadsInv'
  BY <1>1, <1>3 DEF PoolInv, HeadsInv
<1>6. \A u \in Txs \ {t} : (IsWriting(u)' <=> IsWriting(u)) /\ (IsWriter(u)' <=> IsWriter(u))
  BY DEF IsWriting, IsWriter
<1>7. GarbageInv'
  <2> SUFFICES ASSUME NEW u \in Txs, NEW i \in DOMAIN garbage[u], NEW r \in Refs,
                      p_main[r] = garbage[u][i]
               PROVE  FreedBy(u, r)'
    BY <1>1 DEF GarbageInv
  <2>1. FreedBy(u, r) /\ Last(r)' = Last(r)
    BY <1>1 DEF PoolInv, GarbageInv, Last
  <2>2. Last(r).ver \in Nat
    <3>1. garbage[u][i] \in Blocks
      BY <1>0, SeqFacts DEF PoolTypeOK
    <3>2. hist[r] # <<>>
      BY <3>1, NullIsNoBlock DEF PoolInv, RefInv, RootedInv
    <3>3. QED
      BY <3>2, HistoryTop DEF PoolInv
  <2>3. Last(r).ver <= m_last_write_committed_id => Last(r).ver <= m_last_write_committed_id'
    BY <1>0, <2>2
  <2>4. QED
    BY <1>6, <2>1, <2>3 DEF FreedBy
<1>8. HistInv'
  <2>1. \A r \in Refs : \A i \in DOMAIN hist[r] : hist[r][i].ver \in Nat
    BY <1>0, HistoryTypes
  <2>2. QED
    BY <1>1, <2>1 DEF PoolInv, HistInv
<1>9. \A r, v : HistoryAt(r, v)' = HistoryAt(r, v) /\ (FreedAt(r, v)' <=> FreedAt(r, v))
  BY <1>1 DEF HistoryAt, FreedAt
<1>10. ASSUME NEW r \in Refs PROVE RefInv(r)'
  <2>1. CASE p_main[r] = NULL
    BY <1>1, <1>9, <2>1 DEF PoolInv, RefInv, SameView
  <2>2. CASE p_main[r] # NULL
    <3>1. RootedInv(r) /\ m_ts[p_main[r]] \in Nat
      BY <1>0, <2>2 DEF PoolInv, RefInv, PoolTypeOK
    <3>2. /\ Versions(r)' = Versions(r) /\ Last(r)' = Last(r)
          /\ FreeCandidate(p_main[r])' = FreeCandidate(p_main[r])
          /\ Unlinking(p_main[r])' <=> Unlinking(p_main[r])
          /\ \A v, y : Seen(r, v, y)' <=> Seen(r, v, y)
      BY <1>1 DEF Versions, Chain, Last, FreeCandidate, Unlinking, Seen
    <3>3. m_ts[p_main[r]] <= m_last_write_committed_id'
      BY <1>0, <3>1 DEF RootedInv
    <3>4. ASSUME NEW v \in LiveVersions', NEW y \in Blocks, Seen(r, v, y)'
          PROVE  FreedAt(r, v)' \/ p_data'[y] = HistoryAt(r, v)'
      <4>1. PICK x \in LiveVersions : SameView(r, v, x)
        OBVIOUS
      <4>2. Seen(r, x, y)
        BY <2>2, <3>2, <3>4, <4>1 DEF SameView, Rooted
      <4>3. FreedAt(r, x) \/ p_data[y] = HistoryAt(r, x)
        BY <3>1, <4>2 DEF RootedInv
      <4>4. QED
        BY <1>1, <1>9, <4>1, <4>3 DEF SameView
    <3>5. RootedInv(r)'
      BY <1>1, <3>1, <3>2, <3>3, <3>4 DEF RootedInv
    <3>6. QED
      BY <1>1, <2>2, <3>5 DEF RefInv
  <2>3. QED
    BY <2>1, <2>2
<1>11. CallInv(t)' /\ HeldInv(t)'
  BY <1>1 DEF CallInv, Idle, HeldInv, NoCall
<1>12. ASSUME NEW u \in Txs, u # t PROVE CallInv(u)' /\ HeldInv(u)'
  <2> DEFINE c == call[u]
  <2>0. /\ held'[u] = held[u] /\ pc'[u] = pc[u] /\ m_txversion'[u] = m_txversion[u]
        /\ m_ortxversion'[u] = m_ortxversion[u] /\ m_tx_type'[u] = m_tx_type[u]
        /\ IsWriting(u)' <=> IsWriting(u)
        /\ IsWriter(u)' <=> IsWriter(u)
        /\ call'[u] = call[u]
    BY <1>1, <1>6, <1>12
  <2>1. \A r : /\ Versions(r)' = Versions(r)
               /\ FreedEarlier(u, r)' <=> FreedEarlier(u, r)
    BY <1>1, <1>9, <2>0 DEF Versions, Chain, FreedEarlier
  <2>2. CallInv(u) /\ HeldInv(u)
    BY DEF PoolInv
  <2>3. HeldInv(u)'
    <3> SUFFICES ASSUME held[u] # NULL PROVE HeldInv(u)'
      BY <2>0 DEF HeldInv
    <3>1. PICK r \in Rooted : r = held[u].ref
      BY <2>2 DEF HeldInv
    <3>2. held'[u].ref = r /\ held'[u].block = held[u].block
      BY <2>0, <3>1
    <3>3. /\ FreedEarlier(u, held[u].ref)' <=> FreedEarlier(u, r)
          /\ Versions(held[u].ref)' = Versions(r)
          /\ IsLeftover(held[u].block)' <=> IsLeftover(held[u].block)
      <4>1. FreedEarlier(u, held[u].ref)' <=> FreedEarlier(u, r)
        BY <1>1, <2>0, <3>2 DEF FreedEarlier, FreedAt, HistoryAt
      <4>2. Versions(held[u].ref)' = Versions(r)
        BY <1>1, <3>2 DEF Versions, Chain
      <4>3. IsLeftover(held[u].block)' <=> IsLeftover(held[u].block)
        BY <1>1, <3>2 DEF IsLeftover, IsEntry, IsRoot
      <4>4. QED
        BY <4>1, <4>2, <4>3
    <3>4. QED
      BY <1>1, <2>0, <2>2, <3>1, <3>2, <3>3 DEF HeldInv
  <2>4. c.op = "walk" => WalkInv(u)'
    <3> SUFFICES ASSUME c.op = "walk" PROVE WalkInv(u)'
      OBVIOUS
    <3>1. WalkInv(u)
      BY <2>2 DEF CallInv
    <3>2. PICK r \in Rooted : r = c.ref
      BY <3>1 DEF WalkInv
    <3>3. /\ FreedAt(call[u].ref, m_txversion[u])' <=> FreedAt(r, m_txversion[u])
          /\ HistoryAt(call[u].ref, m_txversion[u])' = HistoryAt(r, m_txversion[u])
          /\ Versions(call[u].ref)' = Versions(r)
          /\ IsLeftover(call[u].at)' <=> IsLeftover(call[u].at)
      BY <1>1, <2>0, <3>2 DEF FreedAt, HistoryAt, Versions, Chain, IsLeftover, IsEntry, IsRoot
    <3>4. QED
      BY <1>1, <2>0, <3>1, <3>2, <3>3 DEF WalkInv
  <2>5. c.op \notin {"none", "walk"} => CollectInv(u)'
    <3> SUFFICES ASSUME c.op \notin {"none", "walk"} PROVE CollectInv(u)'
      OBVIOUS
    <3>1. CollectInv(u)
      BY <2>2 DEF CallInv
    <3>2. CollectRest(u)'
      <4>1. CollectRest(u)
        BY <3>1, CollectParts
      <4>2. /\ IsRoot(call[u].root)' <=> IsRoot(call[u].root)
            /\ Severed(u)' <=> Severed(u)
            /\ Collapsible(call[u].root, call[u].orv)' <=> Collapsible(call[u].root, call[u].orv)
        BY <1>1 DEF IsRoot, Severed, Collapsible, Chain
      <4>3. QED
        BY <1>1, <4>1, <4>2 DEF CollectRest
    <3>3. CASE c.then = "sweep"
      <4>1. SweepCall(u)
        BY <3>1, <3>3 DEF CollectInv
      <4>2. ASSUME NEW v \in LiveVersions', ~(c.orv <= v), NEW r \in Refs,
                   \E i \in DOMAIN garbage[u] : garbage[u][i] = p_main[r]
            PROVE  FreedAt(r, v)'
        <5>1. PICK x \in LiveVersions : x <= v /\ SameView(r, v, x)
          OBVIOUS
        <5>2. c.orv \in Nat
          BY <1>0, CallFields
        <5>3. ~(c.orv <= x)
          BY <1>0, <4>2, <5>1, <5>2
        <5>4. FreedAt(r, x)
          BY <4>1, <4>2, <5>3 DEF SweepCall
        <5>5. QED
          BY <1>9, <5>1, <5>4 DEF SameView
      <4>3. SweepCall(u)'
        BY <1>1, <2>0, <2>1, <4>1, <4>2 DEF SweepCall
      <4>4. QED
        BY <2>0, <3>2, <3>3, <4>3 DEF CollectInv, CollectRest
    <3>4. CASE c.then # "sweep"
      <4>1. WriterCall(u)
        BY <3>1, <3>4 DEF CollectInv
      <4>2. PICK r \in Rooted : r = c.ref
        BY <4>1 DEF WriterCall
      <4>3. /\ FreedEarlier(u, call[u].ref)' <=> FreedEarlier(u, r)
            /\ FreedAt(call[u].ref, m_txversion[u])' <=> FreedAt(r, m_txversion[u])
            /\ FreeBlocks' = FreeBlocks
            /\ FreeCandidate(call[u].root)' = FreeCandidate(call[u].root)
        BY <1>1, <2>0, <4>2 DEF FreedEarlier, FreedAt, HistoryAt, FreeBlocks, FreeCandidate
      <4>4. WriterCall(u)'
        BY <1>1, <2>0, <4>1, <4>2, <4>3 DEF WriterCall
      <4>5. QED
        BY <2>0, <3>2, <3>4, <4>4 DEF CollectInv, CollectRest
    <3>5. QED
      BY <3>3, <3>4
  <2>6. CallInv(u)'
    BY <2>0, <2>2, <2>4, <2>5 DEF CallInv, Idle
  <2>7. QED
    BY <2>3, <2>6
<1>13. QED
  BY <1>2, <1>4, <1>5, <1>7, <1>8, <1>10, <1>11, <1>12 DEF PoolInv

\* A reader enters with the version of the last commit, which was live before.
LEMMA ReaderEnters ==
  ASSUME PoolInv, NEW t \in Txs, pc[t] = "idle", Enter(t, "E_READ_ONLY"), Idle(t), UNCHANGED poolvars
  PROVE  PoolInv'
<1>1. PoolTypeOK /\ TxInv /\ HeldInv(t)
  BY DEF PoolInv
<1>2. TxInv'
  BY <1>1, EnterStep DEF TxType
<1>3. /\ UNCHANGED <<p_main, blocks, garbage, call, hist>> /\ held' = [held EXCEPT ![t] = NULL]
  <2>1. held[t] = NULL
    BY <1>1 DEF HeldInv
  <2>2. QED
    BY <1>1, <2>1 DEF poolvars, PoolTypeOK
<1>4. \A u \in Txs \ {t} : /\ pc'[u] = pc[u]
                           /\ m_txversion'[u] = m_txversion[u]
                           /\ m_ortxversion'[u] = m_ortxversion[u]
                           /\ m_tx_type'[u] = m_tx_type[u]
  BY <1>1 DEF Enter, TxInv, TypeOK
<1>5. /\ pc'[t] = "running" /\ m_tx_type'[t] = "E_READ_ONLY"
      /\ m_txversion'[t] = m_last_write_committed_id
      /\ m_last_write_committed_id' = m_last_write_committed_id
  BY <1>1 DEF Enter, TxInv, TypeOK, SnapshotVersion
<1>6. \A u \in Txs : (IsWriting(u)' <=> IsWriting(u)) /\ (IsWriting(u) => u # t)
  BY <1>4, <1>5 DEF IsWriting, IsWriter
<1>7. \A v \in Nat : InTime(v) => InTime(v)'
  BY <1>4, <1>5, <1>6 DEF InTime
<1>8. LiveVersions' \subseteq LiveVersions
  BY <1>4, <1>5 DEF LiveVersions, Running
<1>9. m_last_write_committed_id \in Nat /\ LiveVersions \subseteq Nat
  BY <1>1, LiveNat DEF TxInv, TypeOK
<1>10. \A v \in LiveVersions' : \E x \in LiveVersions : x <= v /\ \A r \in Refs : SameView(r, v, x)
  BY <1>8, <1>9, SameViews
<1> HIDE DEF SameView
<1>11. m_last_write_committed_id <= m_last_write_committed_id' /\ ~IsWriting(t)
  BY <1>5, <1>6, <1>9
<1>12. QED
  BY <1>2, <1>3, <1>4, <1>7, <1>10, <1>11, ManagerFrame

\* Threads on their way in or out run no transaction.
LEMMA ThreadMoves ==
  ASSUME PoolInv, TxInv', NEW t \in Txs, pc[t] # "running", pc'[t] # "running", Idle(t),
         UNCHANGED poolvars, UNCHANGED fields, m_last_write_committed_id' = m_last_write_committed_id,
         \A u \in Txs \ {t} : pc'[u] = pc[u]
  PROVE  PoolInv'
<1>1. PoolTypeOK /\ TxInv /\ HeldInv(t)
  BY DEF PoolInv
<1>2. /\ UNCHANGED <<p_main, blocks, garbage, call, hist>> /\ held' = [held EXCEPT ![t] = NULL]
  <2>1. held[t] = NULL
    BY <1>1 DEF HeldInv
  <2>2. QED
    BY <1>1, <2>1 DEF poolvars, PoolTypeOK
<1>3. \A u \in Txs \ {t} : /\ pc'[u] = pc[u]
                           /\ m_txversion'[u] = m_txversion[u]
                           /\ m_ortxversion'[u] = m_ortxversion[u]
                           /\ m_tx_type'[u] = m_tx_type[u]
  BY DEF fields
<1>4. \A u \in Txs : (IsWriting(u)' <=> IsWriting(u)) /\ (IsWriting(u) => u # t)
  BY <1>3 DEF IsWriting, IsWriter
<1>5. Running' = Running /\ m_txversion' = m_txversion
  BY <1>3 DEF Running, fields
<1>6. (\A v \in Nat : InTime(v) => InTime(v)') /\ LiveVersions' = LiveVersions
  BY <1>4, <1>5 DEF InTime, LiveVersions
<1>7. m_last_write_committed_id \in Nat /\ LiveVersions \subseteq Nat
  BY <1>1, LiveNat DEF TxInv, TypeOK
<1>8. \A v \in LiveVersions' : \E x \in LiveVersions : x <= v /\ \A r \in Refs : SameView(r, v, x)
  BY <1>6, <1>7, SameViews
<1> HIDE DEF SameView
<1>9. m_last_write_committed_id <= m_last_write_committed_id' /\ ~IsWriting(t)
  BY <1>4, <1>7
<1>10. QED
  BY <1>2, <1>3, <1>6, <1>8, <1>9, ManagerFrame

\* A writer enters above everything there is: it sees what the last commit left.
LEMMA WriterEnters ==
  ASSUME PoolInv, NEW t \in Txs, EnterReadWrite(t), Idle(t), UNCHANGED poolvars
  PROVE  PoolInv'
<1> DEFINE lwc == m_last_write_committed_id
           new == m_next_id
<1>1. PoolTypeOK /\ TxInv /\ HeldInv(t) /\ ShapeInv /\ HistInv /\ pc[t] = "begin"
  BY InvShape DEF PoolInv, EnterReadWrite
<1>2. TxInv'
  BY <1>1, EnterStep DEF TxType, EnterReadWrite
<1>3. /\ UNCHANGED <<p_main, blocks, garbage, call, hist>> /\ held' = [held EXCEPT ![t] = NULL]
  <2>1. held[t] = NULL
    BY <1>1 DEF HeldInv
  <2>2. QED
    BY <1>1, <2>1 DEF poolvars, PoolTypeOK
<1>4. \A u \in Txs \ {t} : /\ pc'[u] = pc[u]
                           /\ m_txversion'[u] = m_txversion[u]
                           /\ m_ortxversion'[u] = m_ortxversion[u]
                           /\ m_tx_type'[u] = m_tx_type[u]
  BY <1>1 DEF EnterReadWrite, Enter, TxInv, TypeOK
<1>5. m_txversion'[t] = new /\ lwc' = lwc
  BY <1>1 DEF EnterReadWrite, Enter, TxInv, TypeOK, SnapshotVersion
<1>6. lwc \in Nat /\ new \in Nat /\ lwc < new /\ LiveVersions \subseteq Nat /\ lwc \in LiveVersions
  BY <1>1, LiveNat DEF TxInv, TypeOK, IdOrder, LiveVersions
<1>7. \A u \in Txs : ~IsWriting(u)
  <2>1. m_write_running = t
    BY <1>1 DEF TxInv, WriterExclusion
  <2>2. QED
    BY <1>1, <2>1 DEF TxInv, WriterExclusion, IsWriting
<1>8. \A v : InTime(v) => v <= lwc
  BY <1>7 DEF InTime
<1>9. \A v \in Nat : InTime(v) => InTime(v)'
  BY <1>5, <1>8 DEF InTime
<1>10. LiveVersions' \subseteq LiveVersions \cup {new}
  BY <1>4, <1>5 DEF LiveVersions, Running
<1>11. ASSUME NEW r \in Refs PROVE SameView(r, new, lwc)
  <2>1. \A i \in DOMAIN hist[r] : hist[r][i].ver \in Nat /\ hist[r][i].ver <= lwc
    BY <1>1, <1>8, HistoryTypes DEF HistInv
  <2>2. \A i \in DOMAIN hist[r] : hist[r][i].ver <= new <=> hist[r][i].ver <= lwc
    BY <1>6, <2>1
  <2>3. HistoryAt(r, new) = HistoryAt(r, lwc)
    <3>1. {i \in DOMAIN hist[r] : hist[r][i].ver <= new} = {i \in DOMAIN hist[r] : hist[r][i].ver <= lwc}
      BY <2>2
    <3>2. QED
      BY <3>1 DEF HistoryAt
  <2>4. FreedAt(r, new) <=> FreedAt(r, lwc)
    BY <2>2, <2>3 DEF FreedAt
  <2>5. ASSUME r \in Rooted, NEW y \in Blocks, Seen(r, new, y) PROVE Seen(r, lwc, y)
    <3>1. Versions(r) \subseteq Blocks /\ Versions(r) \subseteq used
      BY <1>1, <2>5, ChainsOfRefs DEF ChainOfRef
    <3>2. \A b \in Versions(r) : m_ts[b] \in Nat /\ m_ts[b] <= lwc
      BY <1>1, <1>8, <3>1 DEF ShapeInv, LinksInv, PoolTypeOK
    <3>3. QED
      BY <1>6, <2>5, <3>2 DEF Seen
  <2>6. QED
    BY <2>3, <2>4, <2>5 DEF SameView
<1>12. \A v \in LiveVersions' : \E x \in LiveVersions : x <= v /\ \A r \in Refs : SameView(r, v, x)
  <2> SUFFICES ASSUME NEW v \in LiveVersions', v \notin LiveVersions
               PROVE  \E x \in LiveVersions : x <= v /\ \A r \in Refs : SameView(r, v, x)
    <3>1. \A v \in LiveVersions : v <= v
      BY <1>6
    <3>2. \A r, v : SameView(r, v, v)
      BY DEF SameView
    <3>3. QED
      BY <3>1, <3>2
  <2>1. v = new
    BY <1>10
  <2>2. QED
    BY <1>6, <1>11, <2>1
<1> HIDE DEF SameView
<1>13. m_last_write_committed_id <= m_last_write_committed_id' /\ ~IsWriting(t)
  BY <1>5, <1>6, <1>7
<1>14. QED
  BY <1>2, <1>3, <1>4, <1>9, <1>12, <1>13, ManagerFrame

\* A commit makes the writer's version the committed one; no transaction gets to see more.
LEMMA Commits ==
  ASSUME PoolInv, NEW t \in Txs, PoolCommit(t)
  PROVE  PoolInv'
<1> DEFINE lwc == m_last_write_committed_id
<1>1. PoolTypeOK /\ TxInv /\ pc[t] = "running" /\ t \in Running
  BY DEF PoolInv, PoolCommit, Commit, Running
<1>2. TxInv'
  BY <1>1, TxInvNext DEF PoolCommit, TxNext
<1>3. /\ UNCHANGED <<p_main, blocks, garbage, call, hist>> /\ held' = [held EXCEPT ![t] = NULL]
      /\ Idle(t)
  BY DEF PoolCommit
<1>4. \A u \in Txs \ {t} : /\ pc'[u] = pc[u]
                           /\ m_txversion'[u] = m_txversion[u]
                           /\ m_ortxversion'[u] = m_ortxversion[u]
                           /\ m_tx_type'[u] = m_tx_type[u]
  BY <1>1 DEF PoolCommit, Commit, TxInv, TypeOK
<1>5. pc'[t] # "running"
  BY <1>1 DEF PoolCommit, Commit, TxInv, TypeOK
<1>6. lwc' = IF IsWriter(t) THEN m_txversion[t] ELSE lwc
  <2>1. IsWriter(t) => m_txversion[t] = m_id[t] /\ lwc < m_txversion[t]
    BY <1>1 DEF TxInv, VersionOrder, SnapshotIsCommitted
  <2>2. QED
    BY <1>1, <2>1 DEF PoolCommit, Commit, TxInv, TypeOK
<1>7. /\ lwc \in Nat /\ lwc' \in Nat /\ LiveVersions \subseteq Nat /\ lwc <= lwc'
      /\ IsWriting(t) => m_txversion[t] <= lwc'
  BY <1>1, <1>6, LiveNat DEF TxInv, TypeOK, SnapshotIsCommitted, IsWriting
<1>8. \A u \in Txs \ {t} : IsWriting(u)' <=> IsWriting(u)
  BY <1>4 DEF IsWriting, IsWriter
<1>9. ASSUME NEW v \in Nat, InTime(v) PROVE InTime(v)'
  <2>1. CASE IsWriter(t)
    <3>1. IsWriting(t)
      BY <1>1, <2>1 DEF IsWriting
    <3>2. v <= lwc \/ v = m_txversion[t]
      BY <1>1, <1>9, <3>1, WriterBounds
    <3>3. lwc < m_txversion[t] /\ m_txversion[t] \in Nat /\ lwc' = m_txversion[t]
      BY <1>1, <1>6, <2>1, <3>1, WriterBounds
    <3>4. v <= lwc'
      BY <1>7, <3>2, <3>3
    <3>5. QED
      BY <3>4 DEF InTime
  <2>2. CASE ~IsWriter(t)
    <3>1. ~IsWriting(t)
      BY <2>2 DEF IsWriting
    <3>2. QED
      BY <1>4, <1>6, <1>8, <1>9, <2>2, <3>1 DEF InTime
  <2>3. QED
    BY <2>1, <2>2
<1>10. LiveVersions' \subseteq LiveVersions
  BY <1>1, <1>4, <1>5, <1>6 DEF LiveVersions, Running
<1>11. \A v \in LiveVersions' : \E x \in LiveVersions : x <= v /\ \A r \in Refs : SameView(r, v, x)
  BY <1>7, <1>10, SameViews
<1> HIDE DEF SameView
<1>12. QED
  BY <1>2, <1>3, <1>4, <1>7, <1>9, <1>11, ManagerFrame

\* A begin, or a step of a thread on its way in or out, keeps the invariant.
LEMMA ManagerMoves ==
  ASSUME PoolInv, NEW t \in Txs, Manager(t)
  PROVE  PoolInv'
<1>1. TxInv /\ Idle(t) /\ UNCHANGED poolvars /\ pc \in [Txs -> PC]
  BY DEF PoolInv, Manager, TxInv, TypeOK
<1>2. CASE BeginReadOnly(t)
  BY <1>1, <1>2, ReaderEnters DEF BeginReadOnly
<1>3. CASE BeginReadWrite(t) \/ LockWrite(t) \/ UnlockWrite(t)
  <2>1. TxInv'
    BY <1>1, <1>3, TxInvNext DEF TxNext
  <2>2. /\ pc[t] # "running" /\ pc'[t] # "running" /\ UNCHANGED fields
        /\ m_last_write_committed_id' = m_last_write_committed_id
        /\ \A u \in Txs \ {t} : pc'[u] = pc[u]
    BY <1>1, <1>3 DEF BeginReadWrite, LockWrite, UnlockWrite
  <2>3. QED
    BY <1>1, <2>1, <2>2, ThreadMoves
<1>4. CASE EnterReadWrite(t)
  BY <1>1, <1>4, WriterEnters
<1>5. QED
  BY <1>2, <1>3, <1>4 DEF Manager

===========================================================================
