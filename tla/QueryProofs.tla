----------------------------- MODULE QueryProofs -----------------------------
(***************************************************************************)
(* The threads of a generated query.  First their share of the blocks:     *)
(* the two ways in which the code finds the owner of a block agree, and    *)
(* every block has exactly one.  is_selected decides what a thread         *)
(* iterates over, block_get_offset whose hash table a gather looks into.   *)
(*                                                                         *)
(* Then the barrier: threads that use it as the generated code does stay   *)
(* in step, however many they are.  The invariant: all threads wait for    *)
(* the same number of arrivals or for one stride more, and there have been *)
(* as many arrivals as threads are ahead.                                  *)
(*                                                                         *)
(* Then the query: where a thread is in its task, and which barrier it     *)
(* waits for, decide each other.  A thread that looks at what others have  *)
(* written finds them in the stretch of the task behind which that is      *)
(* complete, or at its end, and never in one where it changes.             *)
(***************************************************************************)
EXTENDS Query, FiniteSetTheorems, TLAPS

\* A remainder is unique.
LEMMA ModuloUnique == ASSUME NEW s \in Nat \ {0}, NEW q \in Int, NEW r \in 0..(s - 1)
                      PROVE (s * q + r) % s = r
  OBVIOUS

\* Dividing a natural number leaves a quotient and a remainder.
LEMMA Division == ASSUME NEW s \in Nat \ {0}, NEW a \in Nat
                  PROVE a \div s \in Nat /\ a % s \in 0..(s - 1) /\ a = s * (a \div s) + (a % s)
  OBVIOUS

\* Adding the stride and taking the offset away leaves nothing just where the remainder is
\* the offset.
LEMMA ModuloShift == ASSUME NEW s \in Nat \ {0}, NEW a \in Nat, NEW o \in 0..(s - 1)
                     PROVE (a + (s - o)) % s = 0 <=> a % s = o
<1> DEFINE q == a \div s
           r == a % s
<1>1. q \in Nat /\ r \in 0..(s - 1) /\ a = s * q + r
  BY Division
<1> HIDE DEF q, r
<1>2. CASE r >= o
  <2>1. a + (s - o) = s * (q + 1) + (r - o)
    <3>1. s * (q + 1) = s * q + s
      BY <1>1
    <3> QED BY <1>1, <3>1
  <2>2. r - o \in 0..(s - 1)
    BY <1>1, <1>2
  <2>3. (a + (s - o)) % s = r - o
    BY <1>1, <2>1, <2>2, ModuloUnique
  <2> QED BY <1>1, <2>3 DEF r
<1>3. CASE r < o
  <2>1. a + (s - o) = s * q + (s + r - o)
    BY <1>1
  <2>2. s + r - o \in 1..(s - 1)
    BY <1>1, <1>3
  <2>3. (a + (s - o)) % s = s + r - o
    <3>1. q \in Int /\ s + r - o \in 0..(s - 1)
      BY <1>1, <2>2
    <3>2. (s * q + (s + r - o)) % s = s + r - o
      BY <3>1, ModuloUnique
    <3> QED BY <2>1, <3>2
  <2> QED BY <1>1, <1>3, <2>2, <2>3 DEF r
<1> QED BY <1>1, <1>2, <1>3

\* The chunk of a block.
LEMMA ChunkIsNat == ASSUME NEW block \in Nat PROVE block \div ChunkSize \in Nat
  BY BlocksAssumption, Division

\* A thread iterates over a block just when a gather looks for the block in that thread's
\* hash table: otherwise a reference would not be followed although its target matches.
THEOREM SelectedByOwner ==
  \A block \in Nat, offset \in Threads : IsSelected(block, offset) <=> BlockOffset(block) = offset
<1> SUFFICES ASSUME NEW block \in Nat, NEW offset \in Threads
             PROVE IsSelected(block, offset) <=> BlockOffset(block) = offset
  OBVIOUS
<1>1. offset \in 0..(Stride - 1) /\ Stride \in Nat \ {0}
  BY BlocksAssumption DEF Threads
<1> QED BY <1>1, ChunkIsNat, ModuloShift DEF IsSelected, BlockOffset

\* No block is left out and none is visited by two threads: a system runs once on each match.
THEOREM OneOwner ==
  \A block \in Nat : /\ \E offset \in Threads : IsSelected(block, offset)
                     /\ \A o1, o2 \in Threads : IsSelected(block, o1) /\ IsSelected(block, o2) => o1 = o2
<1> SUFFICES ASSUME NEW block \in Nat
             PROVE /\ \E offset \in Threads : IsSelected(block, offset)
                   /\ \A o1, o2 \in Threads :
                        IsSelected(block, o1) /\ IsSelected(block, o2) => o1 = o2
  OBVIOUS
<1>1. BlockOffset(block) \in Threads
  BY BlocksAssumption, ChunkIsNat, Division DEF BlockOffset, Threads
<1>2. \E offset \in Threads : IsSelected(block, offset)
  BY <1>1, SelectedByOwner
<1>3. \A o1, o2 \in Threads : IsSelected(block, o1) /\ IsSelected(block, o2) => o1 = o2
  BY SelectedByOwner
<1> QED BY <1>2, <1>3

----------------------------------------------------------------------------

\* The threads that have reached the barrier after the one at base.
Ahead(base) == {t \in Threads : last_barrier[t] = base + Stride}

InStep(base) ==
  /\ last_barrier \in [Threads -> {base, base + Stride}]
  /\ arrived = base + Cardinality(Ahead(base))
  /\ Ahead(base) # Threads

\* With a single thread nobody waits.
BarrierInv ==
  IF Stride = 1 THEN arrived = 0 /\ last_barrier = [t \in Threads |-> 0]
  ELSE \E base \in Nat : InStep(base)

\* There are as many threads as the stride says.
LEMMA ThreadsCount == IsFiniteSet(Threads) /\ Cardinality(Threads) = Stride
  BY BlocksAssumption, FS_Interval DEF Threads

\* As long as one thread is behind, fewer have arrived than make a round.
LEMMA FewAhead == ASSUME NEW base \in Nat, Ahead(base) # Threads
                  PROVE IsFiniteSet(Ahead(base)) /\ Cardinality(Ahead(base)) \in 0..(Stride - 1)
<1>1. Ahead(base) \subseteq Threads
  BY DEF Ahead
<1>2. /\ IsFiniteSet(Ahead(base)) /\ Cardinality(Ahead(base)) <= Cardinality(Threads)
      /\ Cardinality(Ahead(base)) = Cardinality(Threads) => Ahead(base) = Threads
  BY <1>1, ThreadsCount, FS_Subset
<1>3. Cardinality(Ahead(base)) \in Nat
  BY <1>2, FS_CardinalityType
<1> QED BY <1>2, <1>3, ThreadsCount, BlocksAssumption

\* Only a thread that is behind passes.
LEMMA PassedIsBehind == ASSUME NEW base \in Nat, InStep(base), NEW t \in Threads, Passed(t)
                        PROVE last_barrier[t] = base
<1>1. arrived < base + Stride
  BY FewAhead, BlocksAssumption DEF InStep
<1> QED BY <1>1, BlocksAssumption DEF InStep, Passed

\* At first all wait for the first round and nobody has arrived.
LEMMA BarrierInitInv == BarrierInit => BarrierInv
<1> SUFFICES ASSUME BarrierInit, Stride # 1 PROVE InStep(0)
  BY DEF BarrierInv, BarrierInit
<1>1. Ahead(0) = {}
  BY BlocksAssumption DEF Ahead, BarrierInit
<1>2. 0 \in Threads
  BY BlocksAssumption DEF Threads
<1> QED BY <1>1, <1>2, FS_EmptySet DEF InStep, BarrierInit

\* An arrival of a thread that is behind: it gets ahead, and if it was the last one, the next
\* round begins.
LEMMA ArriveInStep ==
  ASSUME NEW base \in Nat, InStep(base), NEW t \in Threads, Passed(t), Arrive(t), Stride # 1
  PROVE (\E b \in Nat : InStep(b))'
<1>1. Stride \in Nat /\ Stride > 1
  BY BlocksAssumption
<1>2. last_barrier[t] = base
  BY PassedIsBehind
<1>3. last_barrier' = [last_barrier EXCEPT ![t] = base + Stride] /\ arrived' = arrived + 1
  BY <1>1, <1>2 DEF Arrive, InStep
<1>4. last_barrier' \in [Threads -> {base, base + Stride}]
  BY <1>3 DEF InStep
<1>5. Ahead(base)' = Ahead(base) \cup {t} /\ t \notin Ahead(base)
  BY <1>1, <1>2, <1>3 DEF Ahead, InStep
<1>6. Cardinality(Ahead(base)') = Cardinality(Ahead(base)) + 1 /\ Cardinality(Ahead(base)) \in Nat
  <2>1. IsFiniteSet(Ahead(base)) /\ Cardinality(Ahead(base)) \in Nat
    BY FewAhead, BlocksAssumption DEF InStep
  <2>2. Cardinality(Ahead(base) \cup {t}) = Cardinality(Ahead(base)) + 1
    BY <1>5, <2>1, FS_AddElement
  <2> QED BY <1>5, <2>1, <2>2
<1>7. arrived' = base + Cardinality(Ahead(base)')
  BY <1>3, <1>6 DEF InStep
<1>8. CASE Ahead(base)' # Threads
  BY <1>4, <1>7, <1>8 DEF InStep, Ahead
<1>9. CASE Ahead(base)' = Threads
  <2> DEFINE level == base + Stride
  <2>1. level \in Nat
    BY <1>1
  <2>2. \A u \in Threads : last_barrier'[u] = level
    BY <1>9 DEF Ahead
  <2>3. last_barrier' \in [Threads -> {level, level + Stride}]
    BY <1>4, <2>2
  <2>4. Ahead(level)' = {}
    BY <1>1, <2>1, <2>2 DEF Ahead
  <2>5. arrived' = level + Cardinality(Ahead(level)')
    BY <1>1, <1>7, <1>9, <2>4, ThreadsCount, FS_EmptySet
  <2>6. Ahead(level)' # Threads
    BY <2>4
  <2> QED BY <2>1, <2>3, <2>5, <2>6 DEF InStep
<1> QED BY <1>8, <1>9

\* An arrival is of a thread that is behind.
LEMMA BarrierStepInv == BarrierInv /\ [BarrierNext]_barrierVars => BarrierInv'
<1> SUFFICES ASSUME BarrierInv, [BarrierNext]_barrierVars PROVE BarrierInv'
  OBVIOUS
<1>1. CASE UNCHANGED barrierVars
  BY <1>1 DEF barrierVars, BarrierInv, InStep, Ahead
<1>2. CASE BarrierNext /\ Stride = 1
  BY <1>2 DEF BarrierNext, Arrive, BarrierInv
<1>3. CASE BarrierNext /\ Stride # 1
  <2>1. PICK base \in Nat : InStep(base)
    BY <1>3 DEF BarrierInv
  <2>2. PICK t \in Threads : Passed(t) /\ Arrive(t)
    BY <1>3 DEF BarrierNext
  <2> QED BY <1>3, <2>1, <2>2, ArriveInStep DEF BarrierInv
<1> QED BY <1>1, <1>2, <1>3

\* A thread that may pass waits for the base, so that every other is there or one stride on.
LEMMA BarrierInvLockstep == BarrierInv => Lockstep
<1> SUFFICES ASSUME BarrierInv, NEW t \in Threads, NEW u \in Threads, Passed(t)
             PROVE last_barrier[u] - last_barrier[t] \in {0, Stride}
  BY DEF Lockstep
<1>1. CASE Stride = 1
  BY <1>1 DEF BarrierInv
<1>2. CASE Stride # 1
  <2>1. PICK base \in Nat : InStep(base)
    BY <1>2 DEF BarrierInv
  <2>2. last_barrier[t] = base
    BY <2>1, PassedIsBehind
  <2> QED BY <2>1, <2>2, BlocksAssumption DEF InStep
<1> QED BY <1>1, <1>2

\* For any number of threads: who has passed a barrier finds every other thread there or at
\* the next one.
THEOREM BarrierKeepsStep == BarrierSpec => []Lockstep
<1>1. BarrierSpec => []BarrierInv
  BY BarrierInitInv, BarrierStepInv, PTL DEF BarrierSpec
<1> QED BY <1>1, BarrierInvLockstep, PTL

---------------------------------------------------------------------------
(* The threads of a query.                                                 *)

\* Where a thread waits, and what it does between two barriers: the stretch of its task.
AtBarrier == {"look up", "release", "collect", "roots", "wave", "merge"}

Stretch(label) ==
  IF label \in {"start", "child"} THEN "fill"
  ELSE IF label \in {"look up", "gather", "consume"} THEN "search"
  ELSE IF label # "done" THEN label
  ELSE IF ~HasGather THEN "fill"
  ELSE IF IsCascade THEN "wave" ELSE "release"

\* The stretch behind the next barrier.
After(stretch) ==
  CASE stretch = "fill" -> "search"
    [] stretch = "search" -> (IF IsCascade THEN "collect" ELSE "release")
    [] stretch = "collect" -> "roots"
    [] stretch = "roots" -> "wave"
    [] stretch = "wave" -> "merge"
    [] stretch = "merge" -> "wave"
    [] OTHER -> "none"

\* Threads that wait for the same barrier are in the same stretch, one that is a barrier ahead
\* is in the next.
InPhase ==
  \A t, u \in Threads :
    /\ last_barrier[u] = last_barrier[t] => Stretch(pc[u]) = Stretch(pc[t])
    /\ last_barrier[u] = last_barrier[t] + Stride => Stretch(pc[u]) = After(Stretch(pc[t]))

\* What a thread may do depends on the plan, and only at a barrier does it wait.
ControlInv ==
  /\ pc \in [Threads -> Labels]
  /\ status \notin {"running", "done"} => \A t \in Threads : pc[t] = "start"
  /\ \A t \in Threads :
       /\ pc[t] \notin {"start", "done"} => HasGather
       /\ pc[t] \in {"consume", "release"} => ~IsCascade
       /\ pc[t] \in {"collect", "roots", "wave", "merge"} => IsCascade
       /\ pc[t] \notin AtBarrier => Passed(t)

\* The keys in the registry and the hash tables that others may look for.
KeptInv ==
  /\ registry \in [Threads -> SUBSET Keys]
  /\ filled \subseteq Threads
  /\ \A t \in Threads :
       /\ pc[t] \notin {"start", "done"} => "hashtable" \in registry[t]
       /\ pc[t] \in {"collect", "roots", "wave", "merge"} => {"blacklist", "next_frontier"} \subseteq registry[t]
       /\ pc[t] \notin {"start", "child", "done"} => t \in filled

\* Threads in the same round have the same frontier; a thread ahead has the one that those
\* behind will compute.
FrontierInv ==
  /\ current = [t \in Threads |-> current[t]]
  /\ \A t, u \in Threads :
       /\ pc[t] = "wave" /\ pc[u] = "wave" /\ last_barrier[u] = last_barrier[t] => current[u] = current[t]
       /\ pc[t] = "roots" /\ pc[u] = "wave" /\ last_barrier[u] = last_barrier[t] + Stride
            => current[u] = FilterBlacklists(FrontiersUnion, u)
       /\ pc[t] = "merge" /\ pc[u] = "wave" /\ last_barrier[u] = last_barrier[t] + Stride
            => current[u] = FrontiersUnion

QueryInv == BarrierInv /\ ControlInv /\ InPhase /\ KeptInv /\ missed = {} /\ FrontierInv

\* The counters are numbers.
LEMMA BarrierTypes == BarrierInv => arrived \in Nat /\ last_barrier \in [Threads -> Nat]
<1> SUFFICES ASSUME BarrierInv PROVE arrived \in Nat /\ last_barrier \in [Threads -> Nat]
  OBVIOUS
<1>1. CASE Stride = 1
  BY <1>1 DEF BarrierInv
<1>2. CASE Stride # 1
  <2>1. PICK base \in Nat : InStep(base)
    BY <1>2 DEF BarrierInv
  <2>2. Cardinality(Ahead(base)) \in Nat
    BY <2>1, FewAhead, BlocksAssumption DEF InStep
  <2>3. QED
    BY <2>1, <2>2, BlocksAssumption DEF InStep
<1>3. QED
  BY <1>1, <1>2

\* They still are after a step that keeps the invariant.
LEMMA BarrierTypesNext == BarrierInv' => arrived' \in Nat /\ last_barrier' \in [Threads -> Nat]
<1>1. (BarrierInv => arrived \in Nat /\ last_barrier \in [Threads -> Nat])'
  BY BarrierTypes, PTL
<1>2. QED
  BY <1>1

\* Where the others are when a thread goes on.
LEMMA OthersAreClose ==
  ASSUME BarrierInv, NEW t \in Threads, Passed(t), NEW u \in Threads
  PROVE  /\ last_barrier[t] \in Nat /\ last_barrier[u] \in Nat
         /\ last_barrier[u] = last_barrier[t] \/ last_barrier[u] = last_barrier[t] + Stride
         /\ Passed(u) => last_barrier[u] = last_barrier[t]
<1>1. last_barrier[t] \in Nat /\ last_barrier[u] \in Nat /\ Stride \in Nat \ {0}
  BY BarrierTypes, BlocksAssumption
<1>2. Lockstep
  BY BarrierInvLockstep
<1>3. last_barrier[u] - last_barrier[t] \in {0, Stride}
  BY <1>2 DEF Lockstep
<1>4. Passed(u) => last_barrier[t] - last_barrier[u] \in {0, Stride}
  BY <1>2 DEF Lockstep
<1>5. QED
  BY <1>1, <1>3, <1>4

\* The plan decides the stretches, and it does not change.
LEMMA StretchesStay ==
  ASSUME plan' = plan
  PROVE  /\ HasGather' = HasGather /\ IsCascade' = IsCascade
         /\ \A x : Stretch(x)' = Stretch(x) /\ After(x)' = After(x)
  BY DEF HasGather, IsCascade, TheGather, Root, Stretch, After

\* A thread goes on between two barriers.
LEMMA GoOn ==
  ASSUME BarrierInv, ControlInv, InPhase, NEW t \in Threads, NEW label \in Labels,
         plan' = plan, status = "running", status' = status, UNCHANGED barrierVars, Goto(t, label),
         Stretch(label) = Stretch(pc[t]), label \in AtBarrier \/ Passed(t),
         ~HasGather => label = "done",
         label \in {"consume", "release"} => ~IsCascade,
         label \in {"collect", "roots", "wave", "merge"} => IsCascade
  PROVE  (BarrierInv /\ ControlInv /\ InPhase)'
<1>1. pc' = [pc EXCEPT ![t] = label] /\ pc \in [Threads -> Labels]
  BY DEF Goto, ControlInv
<1>2. /\ pc' \in [Threads -> Labels] /\ pc'[t] = label
      /\ \A u \in Threads : u # t => pc'[u] = pc[u]
      /\ \A u \in Threads : Stretch(pc'[u]) = Stretch(pc[u])
  BY <1>1
<1>3. arrived' = arrived /\ last_barrier' = last_barrier
  BY DEF barrierVars
<1>4. BarrierInv'
  BY BarrierStepInv
<1>5. InPhase'
  BY <1>2, <1>3, StretchesStay DEF InPhase
<1>6. ControlInv'
  BY <1>2, <1>3, StretchesStay DEF ControlInv, Passed
<1>7. QED
  BY <1>4, <1>5, <1>6

\* A thread arrives at the next barrier.
LEMMA GoAhead ==
  ASSUME BarrierInv, ControlInv, InPhase, NEW t \in Threads, NEW label \in AtBarrier,
         plan' = plan, status = "running", status' = status, Passed(t), Reach(t, label), HasGather,
         Stretch(label) = After(Stretch(pc[t])),
         label \in {"consume", "release"} => ~IsCascade,
         label \in {"collect", "roots", "wave", "merge"} => IsCascade
  PROVE  (BarrierInv /\ ControlInv /\ InPhase)'
<1>1. pc' = [pc EXCEPT ![t] = label] /\ pc \in [Threads -> Labels] /\ label \in Labels
  BY DEF Reach, Goto, ControlInv, AtBarrier, Labels
<1>2. /\ pc' \in [Threads -> Labels] /\ pc'[t] = label
      /\ \A u \in Threads : u # t => pc'[u] = pc[u]
  BY <1>1
<1>3. arrived \in Nat /\ last_barrier \in [Threads -> Nat] /\ Stride \in Nat \ {0}
  BY BarrierTypes, BlocksAssumption
<1>4. BarrierInv'
  BY BarrierStepInv DEF Reach, BarrierNext
<1>5. /\ arrived' \in Nat /\ arrived' >= arrived
      /\ \A u \in Threads : u # t => last_barrier'[u] = last_barrier[u]
      /\ Stride > 1 => last_barrier'[t] = last_barrier[t] + Stride
  BY <1>3 DEF Reach, Arrive
<1>6. ControlInv'
  <2>1. \A u \in Threads : u # t /\ Passed(u) => Passed(u)'
    BY <1>3, <1>5 DEF Passed
  <2>2. QED
    BY <1>2, <2>1, StretchesStay DEF ControlInv
<1>7. InPhase'
  <2> SUFFICES ASSUME NEW x \in Threads, NEW y \in Threads
               PROVE  /\ last_barrier'[y] = last_barrier'[x] => Stretch(pc'[y]) = Stretch(pc'[x])
                      /\ last_barrier'[y] = last_barrier'[x] + Stride =>
                           Stretch(pc'[y]) = After(Stretch(pc'[x]))
    BY StretchesStay DEF InPhase
  <2>1. last_barrier'[x] \in Nat /\ last_barrier'[y] \in Nat
    BY <1>4, BarrierTypesNext
  <2>2. CASE x = y
    BY <1>3, <2>1, <2>2
  <2>3. x # y => Stride > 1
    BY <1>3 DEF Threads
  <2>4. CASE x # y /\ x = t
    <3>1. last_barrier[y] = last_barrier[t] \/ last_barrier[y] = last_barrier[t] + Stride
      BY OthersAreClose
    <3>2. last_barrier'[x] = last_barrier[t] + Stride /\ last_barrier'[y] = last_barrier[y]
      BY <1>5, <2>3, <2>4
    <3>3. Stretch(pc'[y]) = Stretch(pc[y]) /\ Stretch(pc'[x]) = After(Stretch(pc[t]))
      BY <1>2, <2>4
    <3>4. QED
      BY <1>3, <2>1, <3>1, <3>2, <3>3 DEF InPhase
  <2>5. CASE x # y /\ y = t
    <3>1. last_barrier[x] = last_barrier[t] \/ last_barrier[x] = last_barrier[t] + Stride
      BY OthersAreClose
    <3>2. last_barrier'[y] = last_barrier[t] + Stride /\ last_barrier'[x] = last_barrier[x]
      BY <1>5, <2>3, <2>5
    <3>3. Stretch(pc'[x]) = Stretch(pc[x]) /\ Stretch(pc'[y]) = After(Stretch(pc[t]))
      BY <1>2, <2>5
    <3>4. QED
      BY <1>3, <2>1, <3>1, <3>2, <3>3 DEF InPhase
  <2>6. CASE x # t /\ y # t
    BY <1>2, <1>5, <2>6 DEF InPhase
  <2>7. QED
    BY <2>2, <2>4, <2>5, <2>6
<1>8. QED
  BY <1>4, <1>6, <1>7

----------------------------------------------------------------------------

(* What the steps do to what the threads keep and to the frontiers.        *)

\* A thread that waits for the same barrier as one that may pass is in the same stretch, one
\* further on in the next; one that is done is not further on.
LEMMA OthersStretch ==
  ASSUME BarrierInv, ControlInv, InPhase, NEW t \in Threads, Passed(t), NEW u \in Threads
  PROVE  /\ Stretch(pc[u]) = Stretch(pc[t]) \/ Stretch(pc[u]) = After(Stretch(pc[t]))
         /\ pc[u] \notin AtBarrier => Stretch(pc[u]) = Stretch(pc[t])
         /\ Stretch(pc[u]) # Stretch(pc[t]) => last_barrier[u] = last_barrier[t] + Stride
  BY OthersAreClose DEF ControlInv, InPhase

\* A look-up by a thread that has passed finds what threads behind it have registered.
LEMMA LookUpFinds ==
  ASSUME BarrierInv, ControlInv, InPhase, KeptInv, missed = {}, NEW t \in Threads, Passed(t),
         NEW kinds, LookUp(kinds),
         \/ pc[t] = "look up" /\ kinds = {"hashtable"}
         \/ pc[t] = "collect" /\ kinds = {"blacklist", "next_frontier"}
  PROVE  missed' = {}
<1> SUFFICES ASSUME NEW u \in Threads, NEW k \in kinds PROVE k \in registry[u]
  BY DEF LookUp
<1>1. /\ Stretch(pc[u]) = Stretch(pc[t]) \/ Stretch(pc[u]) = After(Stretch(pc[t]))
      /\ pc[u] \notin AtBarrier => Stretch(pc[u]) = Stretch(pc[t])
      /\ pc[u] \in Labels
      /\ pc[u] \in {"consume", "release"} => ~IsCascade
      /\ pc[u] \in {"collect", "roots", "wave", "merge"} => IsCascade
  BY OthersStretch DEF ControlInv
<1>2. CASE pc[t] = "look up"
  <2>1. Stretch(pc[t]) = "search"
    BY <1>2 DEF Stretch
  <2>2. pc[u] \notin {"start", "child", "done"}
    BY <1>1, <2>1 DEF Stretch, After, AtBarrier
  <2>3. QED
    BY <1>2, <2>2 DEF KeptInv
<1>3. CASE pc[t] = "collect"
  <2>1. Stretch(pc[t]) = "collect"
    BY <1>3 DEF Stretch
  <2>2. pc[u] \in {"collect", "roots"}
    BY <1>1, <2>1 DEF Stretch, After, AtBarrier, Labels
  <2>3. QED
    BY <1>3, <2>2 DEF KeptInv
<1>4. QED
  BY <1>2, <1>3

\* Who searches finds all hash tables filled.
LEMMA SearchFindsFilled ==
  ASSUME BarrierInv, ControlInv, InPhase, KeptInv, NEW t \in Threads, pc[t] \in {"gather", "consume"}
  PROVE  filled = Threads
<1> SUFFICES ASSUME NEW u \in Threads PROVE u \in filled
  BY DEF KeptInv
<1>1. Passed(t) /\ Stretch(pc[t]) = "search"
  BY DEF ControlInv, AtBarrier, Stretch
<1>2. /\ Stretch(pc[u]) = Stretch(pc[t]) \/ Stretch(pc[u]) = After(Stretch(pc[t]))
      /\ pc[u] \notin AtBarrier => Stretch(pc[u]) = Stretch(pc[t])
  BY <1>1, OthersStretch
<1>3. pc[u] \notin {"start", "child", "done"}
  BY <1>1, <1>2 DEF Stretch, After, AtBarrier
<1>4. QED
  BY <1>3 DEF KeptInv

\* A step that moves one thread keeps what the others have.
LEMMA KeptByStep ==
  ASSUME ControlInv, KeptInv, NEW t \in Threads, NEW label \in Labels, Goto(t, label),
         registry' \in [Threads -> SUBSET Keys], filled' \subseteq Threads,
         \A u \in Threads : u # t => registry'[u] = registry[u] /\ (u \in filled' <=> u \in filled),
         label \notin {"start", "done"} => "hashtable" \in registry'[t],
         label \in {"collect", "roots", "wave", "merge"}
           => {"blacklist", "next_frontier"} \subseteq registry'[t],
         label \notin {"start", "child", "done"} => t \in filled'
  PROVE  KeptInv'
<1>1. \A u \in Threads : pc'[u] = IF u = t THEN label ELSE pc[u]
  BY DEF Goto, ControlInv
<1>2. QED
  BY <1>1 DEF KeptInv

\* An arrival of a thread of several; a thread alone has no others.
LEMMA Arrival ==
  ASSUME BarrierInv, NEW t \in Threads, Passed(t), Arrive(t), NEW u \in Threads, u # t
  PROVE  /\ Stride > 1 /\ last_barrier'[t] = last_barrier[t] + Stride /\ last_barrier'[u] = last_barrier[u]
         /\ last_barrier[t] \in Nat
         /\ last_barrier[u] = last_barrier[t] \/ last_barrier[u] = last_barrier[t] + Stride
<1>1. Stride \in Nat /\ Stride > 1
  BY BlocksAssumption DEF Threads
<1>2. last_barrier \in [Threads -> Nat]
  BY BarrierTypes
<1>3. QED
  BY <1>1, <1>2, OthersAreClose DEF Arrive

\* What a frontier is computed from.
LEMMA FrontiersStay ==
  ASSUME next' = next, black' = black
  PROVE  /\ FrontiersUnion' = FrontiersUnion
         /\ \A u : FilterBlacklists(FrontiersUnion, u)' = FilterBlacklists(FrontiersUnion, u)
  BY DEF FrontiersUnion, FilterBlacklists

\* A step to anywhere but a round leaves the frontiers in order, if it does not change what
\* they are computed from, or is of a thread that has passed and is not at the roots or at the
\* merge: then no thread is there with another one round ahead.
LEMMA FrontierKept ==
  ASSUME BarrierInv, ControlInv, InPhase, FrontierInv, NEW t \in Threads,
         NEW label \in Labels, label # "wave", Goto(t, label), current' = current,
         (UNCHANGED barrierVars /\ label \notin {"roots", "merge"}) \/ (Passed(t) /\ Arrive(t)),
         (next' = next /\ black' = black) \/ (Passed(t) /\ Stretch(pc[t]) \notin {"roots", "merge"})
  PROVE  FrontierInv'
<1>1. /\ pc'[t] = label
      /\ \A u \in Threads : u # t => pc'[u] = pc[u]
  BY DEF Goto, ControlInv
<1>2. \A u \in Threads : u # t => last_barrier'[u] = last_barrier[u]
  BY Arrival DEF barrierVars
<1>3. current' = [u \in Threads |-> current'[u]]
  BY DEF FrontierInv
<1>4. ASSUME NEW x \in Threads, NEW y \in Threads, pc'[x] \in {"roots", "merge"}, pc'[y] = "wave",
             last_barrier'[y] = last_barrier'[x] + Stride
      PROVE  x # t /\ y # t /\ UNCHANGED <<next, black>>
  <2>1. y # t
    BY <1>1, <1>4
  <2>2. x # t
    <3>1. SUFFICES ASSUME x = t PROVE FALSE
      OBVIOUS
    <3>2. Passed(t) /\ Arrive(t)
      BY <1>1, <1>4, <3>1
    <3>3. /\ last_barrier'[t] = last_barrier[t] + Stride /\ last_barrier'[y] = last_barrier[y]
          /\ last_barrier[t] \in Nat /\ Stride > 1
          /\ last_barrier[y] = last_barrier[t] \/ last_barrier[y] = last_barrier[t] + Stride
      BY <2>1, <3>2, Arrival
    <3>4. QED
      BY <1>4, <3>1, <3>3, BlocksAssumption
  <2>3. pc[x] = pc'[x] /\ pc[y] = "wave" /\ last_barrier[y] = last_barrier[x] + Stride
    BY <1>1, <1>2, <1>4, <2>1, <2>2
  <2>4. ASSUME Passed(t) PROVE Stretch(pc[t]) \in {"roots", "merge"}
    <3>1. /\ last_barrier[t] \in Nat
          /\ last_barrier[x] = last_barrier[t] \/ last_barrier[x] = last_barrier[t] + Stride
          /\ last_barrier[y] = last_barrier[t] \/ last_barrier[y] = last_barrier[t] + Stride
      BY <2>4, OthersAreClose
    <3>2. last_barrier[x] = last_barrier[t]
      BY <2>3, <3>1, BlocksAssumption
    <3>3. Stretch(pc[t]) = Stretch(pc[x])
      BY <3>2 DEF InPhase
    <3>4. QED
      BY <1>4, <2>3, <3>3 DEF Stretch
  <2>5. QED
    BY <2>1, <2>2, <2>4
<1>5. ASSUME NEW x \in Threads, NEW y \in Threads
      PROVE  /\ pc'[x] = "wave" /\ pc'[y] = "wave" /\ last_barrier'[y] = last_barrier'[x]
                  => current'[y] = current'[x]
             /\ pc'[x] = "roots" /\ pc'[y] = "wave" /\ last_barrier'[y] = last_barrier'[x] + Stride
                  => current'[y] = FilterBlacklists(FrontiersUnion, y)'
             /\ pc'[x] = "merge" /\ pc'[y] = "wave" /\ last_barrier'[y] = last_barrier'[x] + Stride
                  => current'[y] = FrontiersUnion'
  <2>1. pc'[x] = "wave" /\ pc'[y] = "wave" /\ last_barrier'[y] = last_barrier'[x] => current'[y] = current'[x]
    BY <1>1, <1>2 DEF FrontierInv
  <2>2. ASSUME pc'[x] \in {"roots", "merge"}, pc'[y] = "wave", last_barrier'[y] = last_barrier'[x] + Stride
        PROVE  /\ pc[x] = pc'[x] /\ pc[y] = "wave" /\ last_barrier[y] = last_barrier[x] + Stride
               /\ UNCHANGED <<next, black>>
    BY <1>1, <1>2, <1>4, <2>2
  <2>3. QED
    BY <2>1, <2>2, FrontiersStay DEF FrontierInv
<1>6. QED
  BY <1>3, <1>5 DEF FrontierInv

\* A thread computes its frontier for the next round: it is the one that the threads ahead of
\* it have, and that those still with it will have.
LEMMA FrontierComputed ==
  ASSUME BarrierInv, ControlInv, InPhase, FrontierInv, NEW t \in Threads, Passed(t), Reach(t, "wave"),
         UNCHANGED <<next, black>>, NEW frontier, current' = [current EXCEPT ![t] = frontier],
         \/ pc[t] = "roots" /\ frontier = FilterBlacklists(FrontiersUnion, t)
         \/ pc[t] = "merge" /\ frontier = FrontiersUnion
  PROVE  FrontierInv'
<1>1. /\ pc'[t] = "wave"
      /\ \A u \in Threads : u # t => pc'[u] = pc[u]
  BY DEF Reach, Goto, ControlInv
<1>2. Arrive(t)
  BY DEF Reach
<1>3. /\ current' = [u \in Threads |-> current'[u]] /\ current'[t] = frontier
      /\ \A u \in Threads : u # t => current'[u] = current[u]
  BY DEF FrontierInv
<1>4. Stretch(pc[t]) = pc[t]
  BY DEF Stretch
<1>5. ASSUME NEW u \in Threads, u # t
      PROVE  /\ last_barrier'[u] = last_barrier[u]
             /\ pc[u] = "wave" /\ last_barrier'[u] = last_barrier'[t] => current[u] = frontier
             /\ last_barrier'[u] # last_barrier'[t] + Stride
             /\ last_barrier'[t] = last_barrier'[u] + Stride => Stretch(pc[u]) = pc[t]
  <2>1. /\ Stride > 1 /\ last_barrier'[t] = last_barrier[t] + Stride /\ last_barrier'[u] = last_barrier[u]
        /\ last_barrier[t] \in Nat
        /\ last_barrier[u] = last_barrier[t] \/ last_barrier[u] = last_barrier[t] + Stride
    BY <1>2, <1>5, Arrival
  <2>2. Stride \in Nat
    BY BlocksAssumption
  <2>3. pc[u] = "wave" /\ last_barrier'[u] = last_barrier'[t] => current[u] = frontier
    BY <2>1 DEF FrontierInv, FilterBlacklists
  <2>4. last_barrier[u] = last_barrier[t] => Stretch(pc[u]) = pc[t]
    BY <1>4 DEF InPhase
  <2>5. QED
    BY <2>1, <2>2, <2>3, <2>4
<1>6. Stride # 0 /\ last_barrier' \in [Threads -> Nat] /\ Stride \in Nat
  <2>1. last_barrier \in [Threads -> Nat] /\ Stride \in Nat \ {0}
    BY BarrierTypes, BlocksAssumption
  <2>2. QED
    BY <1>2, <2>1 DEF Arrive
<1>7. ASSUME NEW x \in Threads, NEW y \in Threads
      PROVE  /\ pc'[x] = "wave" /\ pc'[y] = "wave" /\ last_barrier'[y] = last_barrier'[x]
                  => current'[y] = current'[x]
             /\ pc'[x] = "roots" /\ pc'[y] = "wave" /\ last_barrier'[y] = last_barrier'[x] + Stride
                  => current'[y] = FilterBlacklists(FrontiersUnion, y)'
             /\ pc'[x] = "merge" /\ pc'[y] = "wave" /\ last_barrier'[y] = last_barrier'[x] + Stride
                  => current'[y] = FrontiersUnion'
  <2>1. CASE x = y
    BY <1>1, <1>6, <2>1
  <2>2. CASE x # t /\ y # t
    BY <1>1, <1>3, <1>5, <2>2, FrontiersStay DEF FrontierInv
  <2>3. CASE x = t /\ y # t
    BY <1>1, <1>3, <1>5, <2>3
  <2>4. CASE x # t /\ y = t
    <3>1. pc'[x] = pc[x] /\ current'[x] = current[x] /\ current'[y] = frontier
      BY <1>1, <1>3, <2>4
    <3>2. last_barrier'[y] = last_barrier'[x] /\ pc'[x] = "wave" => current'[y] = current'[x]
      BY <1>5, <2>4, <3>1
    <3>3. pc[x] \in {"roots", "merge"} /\ last_barrier'[y] = last_barrier'[x] + Stride => pc[x] = pc[t]
      BY <1>5, <2>4 DEF Stretch
    <3>4. QED
      BY <2>4, <3>1, <3>2, <3>3, FrontiersStay DEF FilterBlacklists
  <2>5. QED
    BY <2>1, <2>2, <2>3, <2>4
<1>8. QED
  BY <1>3, <1>7 DEF FrontierInv

----------------------------------------------------------------------------

(* The steps.                                                              *)

\* A plan without a gather is one stretch.
LEMMA RunLocalInv ==
  ASSUME QueryInv, NEW t \in Threads, status = "running", UNCHANGED <<planVars, world>>, RunLocal(t)
  PROVE  QueryInv' /\ [BarrierNext]_barrierVars
<1>1. /\ pc[t] = "start" /\ ~HasGather /\ Goto(t, "done") /\ Passed(t)
      /\ UNCHANGED <<plan, status, barrierVars, registry, missed, filled, next, black, current>>
  BY DEF RunLocal, threadVars, planVars, QueryInv, ControlInv, AtBarrier
<1>2. Stretch("done") = Stretch(pc[t])
  BY <1>1 DEF Stretch
<1>3. (BarrierInv /\ ControlInv /\ InPhase)'
  BY <1>1, <1>2, GoOn DEF QueryInv, Labels
<1>4. KeptInv'
  BY <1>1, KeptByStep DEF QueryInv, KeptInv, Labels
<1>5. FrontierInv'
  BY <1>1, FrontierKept DEF QueryInv, Labels
<1>6. QED
  BY <1>1, <1>3, <1>4, <1>5 DEF QueryInv

\* The key is in the registry before anything is in the hash table.
LEMMA RegisterHashTableInv ==
  ASSUME QueryInv, NEW t \in Threads, status = "running", UNCHANGED <<planVars, world>>,
         RegisterHashTable(t)
  PROVE  QueryInv' /\ [BarrierNext]_barrierVars
<1>1. /\ pc[t] = "start" /\ HasGather /\ Goto(t, "child") /\ Passed(t) /\ Register(t, {"hashtable"})
      /\ UNCHANGED <<plan, status, barrierVars, missed, filled, next, black, current>>
  BY DEF RegisterHashTable, planVars, QueryInv, ControlInv, AtBarrier
<1>2. Stretch("child") = Stretch(pc[t])
  BY <1>1 DEF Stretch
<1>3. (BarrierInv /\ ControlInv /\ InPhase)'
  BY <1>1, <1>2, GoOn DEF QueryInv, Labels
<1>4. KeptInv'
  BY <1>1, KeptByStep DEF QueryInv, KeptInv, Register, Labels, Keys
<1>5. FrontierInv'
  BY <1>1, FrontierKept DEF QueryInv, Labels
<1>6. QED
  BY <1>1, <1>3, <1>4, <1>5 DEF QueryInv

\* The hash table is filled before the thread arrives.
LEMMA ProduceChildInv ==
  ASSUME QueryInv, NEW t \in Threads, status = "running", UNCHANGED <<planVars, world>>,
         ProduceChild(t)
  PROVE  QueryInv' /\ [BarrierNext]_barrierVars
<1>1. /\ pc[t] = "child" /\ Reach(t, "look up") /\ Goto(t, "look up") /\ Arrive(t) /\ Passed(t)
      /\ filled' = filled \cup {t} /\ HasGather
      /\ UNCHANGED <<plan, status, registry, missed, next, black, current>>
  BY DEF ProduceChild, planVars, QueryInv, ControlInv, AtBarrier, Reach
<1>2. Stretch("look up") = After(Stretch(pc[t]))
  BY <1>1 DEF Stretch, After
<1>3. (BarrierInv /\ ControlInv /\ InPhase)'
  BY <1>1, <1>2, GoAhead DEF QueryInv, AtBarrier
<1>4. KeptInv'
  BY <1>1, KeptByStep DEF QueryInv, KeptInv, Labels
<1>5. FrontierInv'
  BY <1>1, FrontierKept DEF QueryInv, Labels
<1>6. QED
  BY <1>1, <1>3, <1>4, <1>5 DEF QueryInv, BarrierNext

\* All hash tables are in the registry when a thread has passed the barrier.
LEMMA LookUpHashTablesInv ==
  ASSUME QueryInv, NEW t \in Threads, status = "running", UNCHANGED <<planVars, world>>,
         LookUpHashTables(t)
  PROVE  QueryInv' /\ [BarrierNext]_barrierVars
<1>1. /\ pc[t] = "look up" /\ Goto(t, "gather") /\ Passed(t) /\ HasGather /\ LookUp({"hashtable"})
      /\ UNCHANGED <<plan, status, barrierVars, registry, filled, next, black, current>>
  BY DEF LookUpHashTables, planVars, QueryInv, ControlInv
<1>2. Stretch("gather") = Stretch(pc[t])
  BY <1>1 DEF Stretch
<1>3. (BarrierInv /\ ControlInv /\ InPhase)'
  BY <1>1, <1>2, GoOn DEF QueryInv, Labels
<1>4. KeptInv'
  BY <1>1, KeptByStep DEF QueryInv, KeptInv, Labels
<1>5. FrontierInv'
  BY <1>1, FrontierKept DEF QueryInv, Labels
<1>6. missed' = {}
  BY <1>1, LookUpFinds DEF QueryInv
<1>7. QED
  BY <1>1, <1>3, <1>4, <1>5, <1>6 DEF QueryInv

\* A gather goes on without a barrier.
LEMMA GatherRefsInv ==
  ASSUME QueryInv, NEW t \in Threads, status = "running", UNCHANGED <<planVars, world>>, GatherRefs(t)
  PROVE  QueryInv' /\ [BarrierNext]_barrierVars
<1>1. /\ pc[t] = "gather" /\ ~IsCascade /\ Goto(t, "consume") /\ Passed(t) /\ HasGather
      /\ UNCHANGED <<plan, status, barrierVars, registry, missed, filled, next, black, current>>
  BY DEF GatherRefs, planVars, QueryInv, ControlInv, AtBarrier
<1>2. Stretch("consume") = Stretch(pc[t])
  BY <1>1 DEF Stretch
<1>3. (BarrierInv /\ ControlInv /\ InPhase)'
  BY <1>1, <1>2, GoOn DEF QueryInv, Labels
<1>4. KeptInv'
  BY <1>1, KeptByStep DEF QueryInv, KeptInv, Labels
<1>5. FrontierInv'
  BY <1>1, FrontierKept DEF QueryInv, Labels
<1>6. QED
  BY <1>1, <1>3, <1>4, <1>5 DEF QueryInv

\* A thread that has consumed its temporary tables arrives, and waits to release them.
LEMMA ConsumeTempInv ==
  ASSUME QueryInv, NEW t \in Threads, status = "running", UNCHANGED <<planVars, world>>, ConsumeTemp(t)
  PROVE  QueryInv' /\ [BarrierNext]_barrierVars
<1>1. /\ pc[t] = "consume" /\ ~IsCascade /\ Passed(t) /\ HasGather
      /\ Reach(t, "release") /\ Goto(t, "release") /\ Arrive(t)
      /\ UNCHANGED <<plan, status, registry, missed, filled, next, black, current>>
  BY DEF ConsumeTemp, planVars, QueryInv, ControlInv, AtBarrier, Reach
<1>2. Stretch("release") = After(Stretch(pc[t]))
  BY <1>1 DEF Stretch, After
<1>3. (BarrierInv /\ ControlInv /\ InPhase)'
  BY <1>1, <1>2, GoAhead DEF QueryInv, AtBarrier
<1>4. KeptInv'
  BY <1>1, KeptByStep DEF QueryInv, KeptInv, Labels
<1>5. FrontierInv'
  BY <1>1, FrontierKept DEF QueryInv, Labels
<1>6. QED
  BY <1>1, <1>3, <1>4, <1>5 DEF QueryInv, BarrierNext

\* The blacklist and the first frontier are in the registry before the thread arrives; no
\* thread reads them before all have.
LEMMA CascadeRefsInv ==
  ASSUME QueryInv, NEW t \in Threads, status = "running", UNCHANGED <<planVars, world>>, CascadeRefs(t)
  PROVE  QueryInv' /\ [BarrierNext]_barrierVars
<1>1. /\ pc[t] = "gather" /\ IsCascade /\ Passed(t) /\ HasGather
      /\ Reach(t, "collect") /\ Goto(t, "collect") /\ Arrive(t)
      /\ Register(t, {"blacklist", "next_frontier"})
      /\ UNCHANGED <<plan, status, missed, filled, current>>
  BY DEF CascadeRefs, planVars, QueryInv, ControlInv, AtBarrier, Reach
<1>2. Stretch("collect") = After(Stretch(pc[t])) /\ Stretch(pc[t]) = "search"
  BY <1>1 DEF Stretch, After
<1>3. (BarrierInv /\ ControlInv /\ InPhase)'
  BY <1>1, <1>2, GoAhead DEF QueryInv, AtBarrier
<1>4. KeptInv'
  BY <1>1, KeptByStep DEF QueryInv, KeptInv, Register, Labels, Keys
<1>5. FrontierInv'
  BY <1>1, <1>2, FrontierKept DEF QueryInv, Labels
<1>6. QED
  BY <1>1, <1>3, <1>4, <1>5 DEF QueryInv, BarrierNext

\* All blacklists and frontiers are in the registry.
LEMMA CollectFrontiersInv ==
  ASSUME QueryInv, NEW t \in Threads, status = "running", UNCHANGED <<planVars, world>>,
         CollectFrontiers(t)
  PROVE  QueryInv' /\ [BarrierNext]_barrierVars
<1>1. /\ pc[t] = "collect" /\ IsCascade /\ Passed(t) /\ HasGather
      /\ Reach(t, "roots") /\ Goto(t, "roots") /\ Arrive(t) /\ LookUp({"blacklist", "next_frontier"})
      /\ UNCHANGED <<plan, status, registry, filled, next, black, current>>
  BY DEF CollectFrontiers, planVars, QueryInv, ControlInv, Reach
<1>2. Stretch("roots") = After(Stretch(pc[t]))
  BY <1>1 DEF Stretch, After
<1>3. (BarrierInv /\ ControlInv /\ InPhase)'
  BY <1>1, <1>2, GoAhead DEF QueryInv, AtBarrier
<1>4. KeptInv'
  BY <1>1, KeptByStep DEF QueryInv, KeptInv, Labels
<1>5. FrontierInv'
  BY <1>1, FrontierKept DEF QueryInv, Labels
<1>6. missed' = {}
  BY <1>1, LookUpFinds DEF QueryInv
<1>7. QED
  BY <1>1, <1>3, <1>4, <1>5, <1>6 DEF QueryInv, BarrierNext

\* Each thread computes the roots for itself, from what none changes meanwhile.
LEMMA BroadcastRootsInv ==
  ASSUME QueryInv, NEW t \in Threads, status = "running", UNCHANGED <<planVars, world>>,
         BroadcastRoots(t)
  PROVE  QueryInv' /\ [BarrierNext]_barrierVars
<1>1. /\ pc[t] = "roots" /\ IsCascade /\ Passed(t) /\ HasGather
      /\ Reach(t, "wave") /\ Goto(t, "wave") /\ Arrive(t)
      /\ current' = [current EXCEPT ![t] = FilterBlacklists(FrontiersUnion, t)]
      /\ UNCHANGED <<plan, status, registry, missed, filled, next, black>>
  BY DEF BroadcastRoots, planVars, QueryInv, ControlInv, Reach
<1>2. Stretch("wave") = After(Stretch(pc[t]))
  BY <1>1 DEF Stretch, After
<1>3. (BarrierInv /\ ControlInv /\ InPhase)'
  BY <1>1, <1>2, GoAhead DEF QueryInv, AtBarrier
<1>4. KeptInv'
  BY <1>1, KeptByStep DEF QueryInv, KeptInv, Labels
<1>5. FrontierInv'
  BY <1>1, FrontierComputed DEF QueryInv
<1>6. QED
  BY <1>1, <1>3, <1>4, <1>5 DEF QueryInv, BarrierNext

\* In a round a thread writes its own next frontier, which no thread merges before all have
\* arrived.
LEMMA WaveInv ==
  ASSUME QueryInv, NEW t \in Threads, status = "running", UNCHANGED <<planVars, world>>, Wave(t)
  PROVE  QueryInv' /\ [BarrierNext]_barrierVars
<1>1. /\ pc[t] = "wave" /\ IsCascade /\ Passed(t) /\ HasGather
      /\ Reach(t, "merge") /\ Goto(t, "merge") /\ Arrive(t)
      /\ UNCHANGED <<plan, status, registry, missed, filled, black, current>>
  BY DEF Wave, planVars, QueryInv, ControlInv, Reach
<1>2. Stretch("merge") = After(Stretch(pc[t])) /\ Stretch(pc[t]) = "wave"
  BY <1>1 DEF Stretch, After
<1>3. (BarrierInv /\ ControlInv /\ InPhase)'
  BY <1>1, <1>2, GoAhead DEF QueryInv, AtBarrier
<1>4. KeptInv'
  BY <1>1, KeptByStep DEF QueryInv, KeptInv, Labels
<1>5. FrontierInv'
  BY <1>1, <1>2, FrontierKept DEF QueryInv, Labels
<1>6. QED
  BY <1>1, <1>3, <1>4, <1>5 DEF QueryInv, BarrierNext

\* Each thread merges the frontiers for itself; none clears its own before all have.
LEMMA MergeFrontiersInv ==
  ASSUME QueryInv, NEW t \in Threads, status = "running", UNCHANGED <<planVars, world>>,
         MergeFrontiers(t)
  PROVE  QueryInv' /\ [BarrierNext]_barrierVars
<1>1. /\ pc[t] = "merge" /\ IsCascade /\ Passed(t) /\ HasGather
      /\ Reach(t, "wave") /\ Goto(t, "wave") /\ Arrive(t)
      /\ current' = [current EXCEPT ![t] = FrontiersUnion]
      /\ UNCHANGED <<plan, status, registry, missed, filled, next, black>>
  BY DEF MergeFrontiers, planVars, QueryInv, ControlInv, Reach
<1>2. Stretch("wave") = After(Stretch(pc[t]))
  BY <1>1 DEF Stretch, After
<1>3. (BarrierInv /\ ControlInv /\ InPhase)'
  BY <1>1, <1>2, GoAhead DEF QueryInv, AtBarrier
<1>4. KeptInv'
  BY <1>1, KeptByStep DEF QueryInv, KeptInv, Labels
<1>5. FrontierInv'
  BY <1>1, FrontierComputed DEF QueryInv
<1>6. QED
  BY <1>1, <1>3, <1>4, <1>5 DEF QueryInv, BarrierNext

\* What a thread releases, no other looks for any more.
LEMMA ReleaseInv ==
  ASSUME QueryInv, NEW t \in Threads, status = "running", UNCHANGED <<planVars, world>>, Release(t)
  PROVE  QueryInv' /\ [BarrierNext]_barrierVars
<1>1. /\ pc[t] = "release" \/ pc[t] = "wave"
      /\ Passed(t) /\ HasGather /\ Goto(t, "done")
      /\ pc[t] = "release" => ~IsCascade
      /\ pc[t] = "wave" => IsCascade
      /\ filled' = filled \ {t} /\ registry' = [registry EXCEPT ![t] = {}]
      /\ UNCHANGED <<plan, status, barrierVars, missed, current>>
  BY DEF Release, planVars, QueryInv, ControlInv
<1>2. Stretch("done") = Stretch(pc[t]) /\ Stretch(pc[t]) \in {"release", "wave"}
  BY <1>1 DEF Stretch
<1>3. (BarrierInv /\ ControlInv /\ InPhase)'
  BY <1>1, <1>2, GoOn DEF QueryInv, Labels
<1>4. KeptInv'
  BY <1>1, KeptByStep DEF QueryInv, KeptInv, Labels
<1>5. FrontierInv'
  BY <1>1, <1>2, FrontierKept DEF QueryInv, Labels
<1>6. QED
  BY <1>1, <1>3, <1>4, <1>5 DEF QueryInv

\* Each step of a thread.
LEMMA StepInv ==
  ASSUME QueryInv, NEW t \in Threads, Step(t)
  PROVE  QueryInv' /\ [BarrierNext]_barrierVars
  BY RunLocalInv, RegisterHashTableInv, ProduceChildInv, LookUpHashTablesInv, GatherRefsInv,
     ConsumeTempInv, CascadeRefsInv, CollectFrontiersInv, BroadcastRootsInv, WaveInv,
     MergeFrontiersInv, ReleaseInv DEF Step

\* What happens before the threads run and after they have ended.
LEMMA OutsideInv ==
  ASSUME QueryInv, Compile \/ BeginTask \/ EndTask \/ UNCHANGED vars
  PROVE  QueryInv' /\ [BarrierNext]_barrierVars
<1>1. /\ pc' = pc
      /\ UNCHANGED <<arrived, last_barrier, registry, missed, filled, temp, next, black, current>>
  BY DEF Compile, BeginTask, EndTask, vars, threadVars, barrierVars
<1>2. plan' = plan \/ \A t \in Threads : pc[t] = "start"
  <2>1. CASE Compile
    <3>1. status \notin {"running", "done"}
      BY <2>1 DEF Compile, PlanNext, VisitCall, ValidateStmt, PlanMatch, PlanForeach, GenerateCode
    <3>2. QED
      BY <3>1 DEF QueryInv, ControlInv
  <2>2. CASE BeginTask \/ EndTask \/ UNCHANGED vars
    BY <2>2 DEF BeginTask, EndTask, vars, planVars
  <2>3. QED
    BY <2>1, <2>2
<1>3. status' \notin {"running", "done"} => status \notin {"running", "done"}
  BY DEF Compile, PlanNext, VisitCall, ValidateStmt, PlanMatch, PlanForeach, GenerateCode,
         BeginTask, EndTask, vars, planVars
<1>4. BarrierInv'
  BY <1>1, BarrierStepInv DEF QueryInv, barrierVars
<1>5. ControlInv'
  <2>1. CASE plan' = plan
    BY <1>1, <1>3, <2>1, StretchesStay DEF QueryInv, ControlInv, Passed
  <2>2. CASE \A t \in Threads : pc[t] = "start"
    BY <1>1, <2>2 DEF QueryInv, ControlInv, Passed, AtBarrier
  <2>3. QED
    BY <1>2, <2>1, <2>2
<1>6. InPhase'
  <2>1. CASE plan' = plan
    BY <1>1, <2>1, StretchesStay DEF QueryInv, InPhase
  <2>2. CASE \A t \in Threads : pc[t] = "start"
    BY <1>1, <2>2 DEF QueryInv, InPhase, Stretch, After
  <2>3. QED
    BY <1>2, <2>1, <2>2
<1>7. KeptInv' /\ missed' = {}
  BY <1>1 DEF QueryInv, KeptInv
<1>8. FrontierInv'
  BY <1>1 DEF QueryInv, FrontierInv, FrontiersUnion, FilterBlacklists
<1>9. QED
  BY <1>1, <1>4, <1>5, <1>6, <1>7, <1>8 DEF QueryInv, barrierVars

\* Every step of the query is one of the barrier, or leaves it alone, and keeps the invariant.
LEMMA QueryStepInv == QueryInv /\ [Next]_vars => QueryInv' /\ [BarrierNext]_barrierVars
  BY StepInv, OutsideInv DEF Next

\* At first no thread has done anything.
LEMMA QueryInitInv == Init => QueryInv /\ BarrierInit
<1> SUFFICES ASSUME Init PROVE QueryInv
  BY DEF Init
<1>1. BarrierInv
  BY BarrierInitInv DEF Init
<1>2. ControlInv
  BY BlocksAssumption DEF Init, ControlInv, BarrierInit, Passed, AtBarrier, Labels
<1>3. InPhase
  BY BlocksAssumption DEF Init, InPhase, BarrierInit
<1>4. KeptInv /\ missed = {} /\ FrontierInv
  BY DEF Init, KeptInv, FrontierInv
<1>5. QED
  BY <1>1, <1>2, <1>3, <1>4 DEF QueryInv

\* For any number of threads, any plan and any state of the tables: the threads of a query are
\* in step at every moment, and nothing they look for is missing.
THEOREM QueryInvariant == Spec => []QueryInv
  BY QueryInitInv, QueryStepInv, PTL DEF Spec

\* The invariant gives what the barriers are there for.
LEMMA QueryInvSeparates == QueryInv => BarriersSeparate
<1> SUFFICES ASSUME QueryInv PROVE BarriersSeparate
  OBVIOUS
<1>1. \A t \in Threads : pc[t] = "gather" => filled = Threads
  BY SearchFindsFilled DEF QueryInv
<1>2. QED
  BY <1>1 DEF QueryInv, FrontierInv, BarriersSeparate

\* A thread that gathers finds all hash tables filled, the threads start each round of a
\* cascade with the same frontier, and no look-up in the registry finds a key that is missing
\* or dangling (the code the producer generates around consume_gather and the cascade).
THEOREM BarriersKeepApart == Spec => []BarriersSeparate
  BY QueryInvariant, QueryInvSeparates, PTL

\* The generated code uses the barrier as the barrier requires: no thread arrives at one before
\* it has passed the one before.
THEOREM QueryUsesBarrier == Spec => BarrierSpec
  BY QueryInvariant, QueryInitInv, QueryStepInv, PTL DEF Spec, BarrierSpec

\* So the threads of a query stay in step.
THEOREM QueryKeepsStep == Spec => []Lockstep
  BY QueryUsesBarrier, BarrierKeepsStep, PTL

----------------------------------------------------------------------------

(* No thread is left waiting for one that has ended.                       *)

\* A thread that leaves the rounds of a cascade has nothing to follow; those that are a round
\* ahead had the same frontier, and something to follow.
EndInv ==
  /\ \A t \in Threads : pc[t] = "done" /\ HasGather /\ IsCascade => current[t] = {}
  /\ \A t \in Threads : pc[t] = "merge" => current[t] # {}
  /\ \A t, u \in Threads :
       /\ pc[t] = "wave" /\ pc[u] = "done" /\ last_barrier[t] = last_barrier[u]
            => current[t] = current[u]
       /\ pc[t] = "merge" /\ pc[u] \in {"wave", "done"} /\ last_barrier[t] = last_barrier[u] + Stride
            => current[t] = current[u]

\* A step to anywhere but a round or the end.
LEMMA EndKept ==
  ASSUME BarrierInv, ControlInv, EndInv, NEW t \in Threads, plan' = plan, current' = current,
         NEW label \in Labels, label \notin {"wave", "merge", "done"}, Goto(t, label),
         UNCHANGED barrierVars \/ (Passed(t) /\ Arrive(t))
  PROVE  EndInv'
<1>1. /\ pc'[t] = label
      /\ \A u \in Threads : u # t => pc'[u] = pc[u]
  BY DEF Goto, ControlInv
<1>2. \A u \in Threads : u # t => last_barrier'[u] = last_barrier[u]
  BY Arrival DEF barrierVars
<1>3. QED
  BY <1>1, <1>2, StretchesStay DEF EndInv

\* The end of a thread: what others know of its frontier they knew in the last round.
LEMMA EndReached ==
  ASSUME BarrierInv, ControlInv, FrontierInv, EndInv, NEW t \in Threads, plan' = plan,
         current' = current, Goto(t, "done"), UNCHANGED barrierVars,
         \/ ~HasGather
         \/ pc[t] = "release"
         \/ pc[t] = "wave" /\ current[t] = {}
  PROVE  EndInv'
<1>1. /\ pc'[t] = "done"
      /\ \A u \in Threads : u # t => pc'[u] = pc[u]
      /\ last_barrier' = last_barrier
  BY DEF Goto, ControlInv, barrierVars
<1>2. HasGather' = HasGather /\ IsCascade' = IsCascade
  BY StretchesStay
<1>3. \A u \in Threads : pc'[u] = "done" /\ HasGather' /\ IsCascade' => current'[u] = {}
  BY <1>1, <1>2 DEF EndInv, ControlInv
<1>4. \A u \in Threads : pc'[u] = "merge" => current'[u] # {}
  BY <1>1 DEF EndInv
<1>5. ASSUME NEW x \in Threads, NEW y \in Threads
      PROVE  /\ pc'[x] = "wave" /\ pc'[y] = "done" /\ last_barrier'[x] = last_barrier'[y]
                  => current'[x] = current'[y]
             /\ pc'[x] = "merge" /\ pc'[y] \in {"wave", "done"}
                  /\ last_barrier'[x] = last_barrier'[y] + Stride => current'[x] = current'[y]
  <2>1. CASE y # t
    BY <1>1, <2>1 DEF EndInv
  <2>2. CASE y = t /\ x # t
    <3>1. CASE pc[t] = "wave"
      BY <1>1, <2>2, <3>1 DEF EndInv, FrontierInv
    <3>2. CASE pc'[x] \notin {"wave", "merge"}
      BY <3>2
    <3>3. CASE pc[x] \in {"wave", "merge"} /\ pc[t] # "wave"
      BY <3>3 DEF ControlInv
    <3>4. QED
      BY <1>1, <2>2, <3>1, <3>2, <3>3
  <2>3. CASE y = t /\ x = t
    BY <1>1, <2>3
  <2>4. QED
    BY <2>1, <2>2, <2>3
<1>6. QED
  BY <1>3, <1>4, <1>5 DEF EndInv

\* A round: whoever is still at its beginning has the same frontier, and it is not empty.
LEMMA EndRound ==
  ASSUME BarrierInv, ControlInv, FrontierInv, EndInv, NEW t \in Threads, plan' = plan,
         current' = current, Passed(t), pc[t] = "wave", current[t] # {}, Reach(t, "merge")
  PROVE  EndInv'
<1>1. /\ pc'[t] = "merge" /\ Arrive(t)
      /\ \A u \in Threads : u # t => pc'[u] = pc[u]
  BY DEF Reach, Goto, ControlInv
<1>2. ASSUME NEW u \in Threads, u # t
      PROVE  /\ last_barrier'[u] = last_barrier[u]
             /\ last_barrier'[t] = last_barrier'[u] + Stride => last_barrier[t] = last_barrier[u]
  <2>1. /\ last_barrier'[t] = last_barrier[t] + Stride /\ last_barrier'[u] = last_barrier[u]
        /\ last_barrier[t] \in Nat /\ Stride > 1
        /\ last_barrier[u] = last_barrier[t] \/ last_barrier[u] = last_barrier[t] + Stride
    BY <1>1, <1>2, Arrival
  <2>2. QED
    BY <2>1, BlocksAssumption
<1>3. HasGather' = HasGather /\ IsCascade' = IsCascade
  BY StretchesStay
<1>4. ASSUME NEW x \in Threads, NEW y \in Threads
      PROVE  /\ pc'[x] = "wave" /\ pc'[y] = "done" /\ last_barrier'[x] = last_barrier'[y]
                  => current'[x] = current'[y]
             /\ pc'[x] = "merge" /\ pc'[y] \in {"wave", "done"}
                  /\ last_barrier'[x] = last_barrier'[y] + Stride => current'[x] = current'[y]
  <2>1. CASE y = t
    BY <1>1, <2>1
  <2>2. CASE y # t /\ x # t
    BY <1>1, <1>2, <2>2 DEF EndInv
  <2>3. CASE y # t /\ x = t
    <3>1. last_barrier'[x] = last_barrier'[y] + Stride => last_barrier[t] = last_barrier[y]
      BY <1>2, <2>3
    <3>2. QED
      BY <1>1, <2>3, <3>1 DEF EndInv, FrontierInv
  <2>4. QED
    BY <2>1, <2>2, <2>3
<1>5. QED
  BY <1>1, <1>3, <1>4 DEF EndInv

\* The beginning of a round: no thread has ended it yet.
LEMMA EndBegun ==
  ASSUME BarrierInv, ControlInv, EndInv, NEW t \in Threads, plan' = plan, Passed(t),
         pc[t] \in {"roots", "merge"}, Reach(t, "wave"),
         NEW frontier, current' = [current EXCEPT ![t] = frontier], FrontierInv
  PROVE  EndInv'
<1>1. /\ pc'[t] = "wave" /\ Arrive(t)
      /\ \A u \in Threads : u # t => pc'[u] = pc[u] /\ current'[u] = current[u]
  BY DEF Reach, Goto, ControlInv, FrontierInv
<1>2. ASSUME NEW u \in Threads, u # t
      PROVE  /\ last_barrier'[u] = last_barrier[u]
             /\ last_barrier'[u] # last_barrier'[t] + Stride
             /\ last_barrier'[u] = last_barrier'[t] => ~Passed(u)
  <2>1. /\ last_barrier'[t] = last_barrier[t] + Stride /\ last_barrier'[u] = last_barrier[u]
        /\ last_barrier[t] \in Nat /\ Stride > 1
        /\ last_barrier[u] = last_barrier[t] \/ last_barrier[u] = last_barrier[t] + Stride
    BY <1>1, <1>2, Arrival
  <2>2. Passed(u) => last_barrier[u] = last_barrier[t]
    BY OthersAreClose
  <2>3. QED
    BY <2>1, <2>2, BlocksAssumption
<1>3. HasGather' = HasGather /\ IsCascade' = IsCascade
  BY StretchesStay
<1>4. ASSUME NEW x \in Threads, NEW y \in Threads
      PROVE  /\ pc'[x] = "wave" /\ pc'[y] = "done" /\ last_barrier'[x] = last_barrier'[y]
                  => current'[x] = current'[y]
             /\ pc'[x] = "merge" /\ pc'[y] \in {"wave", "done"}
                  /\ last_barrier'[x] = last_barrier'[y] + Stride => current'[x] = current'[y]
  <2>1. CASE x = t /\ y = t
    BY <1>1, <2>1
  <2>2. CASE y # t /\ x # t
    BY <1>1, <1>2, <2>2 DEF EndInv
  <2>3. CASE y # t /\ x = t
    <3>1. pc[y] = "done" => Passed(y)
      BY DEF ControlInv, AtBarrier
    <3>2. QED
      BY <1>1, <1>2, <2>3, <3>1
  <2>4. CASE y = t /\ x # t
    BY <1>1, <1>2, <2>4
  <2>5. QED
    BY <2>1, <2>2, <2>3, <2>4
<1>5. QED
  BY <1>1, <1>3, <1>4 DEF EndInv

\* Each step of a thread is one of these.
LEMMA EndStep ==
  ASSUME QueryInv, EndInv, NEW t \in Threads, Step(t)
  PROVE  EndInv'
<1>1. /\ BarrierInv /\ ControlInv /\ FrontierInv /\ plan' = plan
      /\ pc[t] \notin AtBarrier => Passed(t)
  BY DEF QueryInv, ControlInv, Step, planVars
<1>2. CASE RunLocal(t)
  BY <1>1, <1>2, EndReached DEF RunLocal, threadVars
<1>3. CASE RegisterHashTable(t)
  BY <1>1, <1>3, EndKept DEF RegisterHashTable, Labels
<1>4. CASE ProduceChild(t)
  BY <1>1, <1>4, EndKept DEF ProduceChild, Reach, AtBarrier, Labels
<1>5. CASE LookUpHashTables(t)
  BY <1>1, <1>5, EndKept DEF LookUpHashTables, Labels
<1>6. CASE GatherRefs(t)
  BY <1>1, <1>6, EndKept DEF GatherRefs, Labels
<1>7. CASE ConsumeTemp(t)
  BY <1>1, <1>7, EndKept DEF ConsumeTemp, Reach, AtBarrier, Labels
<1>8. CASE CascadeRefs(t)
  BY <1>1, <1>8, EndKept DEF CascadeRefs, Reach, AtBarrier, Labels
<1>9. CASE CollectFrontiers(t)
  BY <1>1, <1>9, EndKept DEF CollectFrontiers, Reach, Labels
<1>10. CASE BroadcastRoots(t)
  BY <1>1, <1>10, EndBegun DEF BroadcastRoots
<1>11. CASE Wave(t)
  BY <1>1, <1>11, EndRound DEF Wave, MoreToFollow
<1>12. CASE MergeFrontiers(t)
  BY <1>1, <1>12, EndBegun DEF MergeFrontiers
<1>13. CASE Release(t)
  BY <1>1, <1>13, EndReached DEF Release, MoreToFollow
<1>14. QED
  BY <1>2, <1>3, <1>4, <1>5, <1>6, <1>7, <1>8, <1>9, <1>10, <1>11, <1>12, <1>13 DEF Step

\* Before the threads run and after they have ended nothing changes for them.
LEMMA EndOutside ==
  ASSUME QueryInv, EndInv, Compile \/ BeginTask \/ EndTask \/ UNCHANGED vars
  PROVE  EndInv'
<1>1. pc' = pc /\ last_barrier' = last_barrier /\ current' = current
  BY DEF Compile, BeginTask, EndTask, vars, threadVars, barrierVars
<1>2. plan' = plan \/ \A t \in Threads : pc[t] = "start"
  <2>1. CASE Compile
    <3>1. status \notin {"running", "done"}
      BY <2>1 DEF Compile, PlanNext, VisitCall, ValidateStmt, PlanMatch, PlanForeach, GenerateCode
    <3>2. QED
      BY <3>1 DEF QueryInv, ControlInv
  <2>2. CASE BeginTask \/ EndTask \/ UNCHANGED vars
    BY <2>2 DEF BeginTask, EndTask, vars, planVars
  <2>3. QED
    BY <2>1, <2>2
<1>3. QED
  BY <1>1, <1>2, StretchesStay DEF EndInv

\* As long as not all threads are done, one of them can take its next step.
SomeThreadReady == status = "running" => (\A t \in Threads : pc[t] = "done") \/ \E t \in Threads : Ready(t)

\* Some thread waits for the base, and has passed it.  If all that are there have ended, nobody
\* can be ahead: behind a plain gather there is no barrier left, and in a cascade those ahead
\* had something to follow and those that have ended had not, with the same frontier.
LEMMA EndInvReady ==
  ASSUME QueryInv, EndInv, status = "running", NEW z \in Threads, pc[z] # "done"
  PROVE  \E t \in Threads : Ready(t)
<1>1. BarrierInv /\ ControlInv /\ InPhase
  BY DEF QueryInv
<1>2. PICK t \in Threads : Passed(t)
  <2>1. CASE Stride = 1
    BY <1>1, <2>1 DEF BarrierInv, Passed
  <2>2. CASE Stride # 1
    <3>1. PICK base \in Nat : InStep(base)
      BY <1>1, <2>2 DEF BarrierInv
    <3>2. PICK u \in Threads : u \notin Ahead(base)
      BY <3>1 DEF InStep, Ahead
    <3>3. last_barrier[u] = base
      BY <3>1, <3>2 DEF InStep, Ahead
    <3>4. arrived >= base
      BY <3>1, FewAhead, BlocksAssumption DEF InStep
    <3>5. QED
      BY <3>3, <3>4 DEF Passed
  <2>3. QED
    BY <2>1, <2>2
<1>3. CASE pc[t] # "done"
  BY <1>2, <1>3 DEF Ready
<1>4. CASE pc[t] = "done" /\ last_barrier[z] = last_barrier[t]
  <2>1. Passed(z)
    BY <1>2, <1>4 DEF Passed
  <2>2. QED
    BY <2>1 DEF Ready
<1>5. CASE pc[t] = "done" /\ last_barrier[z] # last_barrier[t]
  <2>1. last_barrier[z] = last_barrier[t] + Stride
    BY <1>1, <1>2, <1>5, OthersAreClose
  <2>2. Stretch(pc[z]) = After(Stretch(pc[t]))
    BY <1>1, <2>1 DEF InPhase
  <2>3. HasGather /\ IsCascade /\ pc[z] = "merge"
    BY <1>1, <1>5, <2>2 DEF Stretch, After, ControlInv, Labels
  <2>4. current[t] = {} /\ current[z] # {} /\ current[z] = current[t]
    BY <1>5, <2>1, <2>3 DEF EndInv
  <2>5. QED
    BY <2>4
<1>6. QED
  BY <1>3, <1>4, <1>5

\* For any number of threads: the threads of a query never all wait for each other, and none
\* waits for one that has left the rounds of a cascade (the loop the producer generates around
\* the frontiers, whose condition each thread evaluates for itself).
THEOREM SomeThreadGoesOn == Spec => []SomeThreadReady
<1>1. Init => EndInv
  BY DEF Init, EndInv
<1>2. QueryInv /\ EndInv /\ [Next]_vars => EndInv'
  BY EndStep, EndOutside DEF Next
<1>3. QueryInv /\ EndInv => SomeThreadReady
  BY EndInvReady DEF SomeThreadReady
<1>4. QED
  BY QueryInvariant, <1>1, <1>2, <1>3, PTL DEF Spec

----------------------------------------------------------------------------

(* The types.                                                              *)

\* The sources of references in the blocks of a thread.
OwnSources(t) == {s \in Sources : BlockOffset(Block(s)) = t}

\* Between two runs of a task nothing is left that names entities of the tables as they were.
TypeInv ==
  /\ status \in {"visiting", "planning", "generating", "generated", "running", "done", "refused"}
  /\ chain \in Scripts /\ RefsBetween(world.refs)
  /\ temp = [t \in Threads |-> temp[t]] /\ black = [t \in Threads |-> black[t]]
  /\ next = [t \in Threads |-> next[t]] /\ current = [t \in Threads |-> current[t]]
  /\ \A t \in Threads :
       /\ next[t] \subseteq Entities /\ current[t] \subseteq Entities
       /\ temp[t] \subseteq OwnSources(t) /\ black[t] \subseteq OwnSources(t)
       /\ pc[t] = "start" => temp[t] = {} /\ black[t] = {}

\* A thread reads the references of its own blocks.
LEMMA RefsAreOwn ==
  ASSUME RefsBetween(world.refs), NEW t \in Threads
  PROVE  /\ RefsOf(t) \subseteq OwnSources(t) /\ RefsOf(t) \subseteq Entities
         /\ \A s \in RefsOf(t) : world.refs[s] \in Entities
<1> SUFFICES ASSUME NEW s \in RefsOf(t)
             PROVE  s \in OwnSources(t) /\ s \in Entities /\ world.refs[s] \in Entities
  OBVIOUS
<1>1. s \in Sources /\ IsSelected(Block(s), t)
  BY DEF RefsOf
<1>2. s \in Entities /\ world.refs[s] \in Entities
  BY <1>1 DEF Sources, RefsBetween
<1>3. Block(s) \in Nat
  <2>1. s \in Nat /\ BlockSize \in Nat \ {0}
    BY <1>2, QueryAssumption
  <2>2. QED
    BY <2>1, Division DEF Block
<1>4. BlockOffset(Block(s)) = t
  BY <1>1, <1>3, SelectedByOwner
<1>5. QED
  BY <1>1, <1>2, <1>4 DEF OwnSources

\* A step of a thread that leaves it with what it may have.
LEMMA TypeKept ==
  ASSUME QueryInv, TypeInv, NEW t \in Threads, UNCHANGED <<planVars, world>>,
         NEW label, label # "start", Goto(t, label),
         temp' = [u \in Threads |-> temp'[u]], black' = [u \in Threads |-> black'[u]],
         next' = [u \in Threads |-> next'[u]], current' = [u \in Threads |-> current'[u]],
         \A u \in Threads : u # t => /\ temp'[u] = temp[u] /\ black'[u] = black[u]
                                     /\ next'[u] = next[u] /\ current'[u] = current[u],
         next'[t] \subseteq Entities, current'[t] \subseteq Entities,
         temp'[t] \subseteq OwnSources(t), black'[t] \subseteq OwnSources(t)
  PROVE  TypeInv'
<1>1. \A u \in Threads : pc'[u] = IF u = t THEN label ELSE pc[u]
  BY DEF Goto, QueryInv, ControlInv
<1>2. \A u : OwnSources(u)' = OwnSources(u)
  BY DEF OwnSources, Sources
<1>3. status' = status /\ chain' = chain /\ world' = world
  BY DEF planVars
<1>4. ASSUME NEW u \in Threads
      PROVE  /\ next'[u] \subseteq Entities /\ current'[u] \subseteq Entities
             /\ temp'[u] \subseteq OwnSources(u)' /\ black'[u] \subseteq OwnSources(u)'
             /\ pc'[u] = "start" => temp'[u] = {} /\ black'[u] = {}
  BY <1>1, <1>2 DEF TypeInv
<1>5. QED
  BY <1>3, <1>4 DEF TypeInv

\* Each step of a thread does.
LEMMA TypeStep ==
  ASSUME QueryInv, TypeInv, NEW t \in Threads, Step(t)
  PROVE  TypeInv'
<1>1. /\ UNCHANGED <<planVars, world>> /\ RefsBetween(world.refs)
      /\ temp = [u \in Threads |-> temp[u]] /\ black = [u \in Threads |-> black[u]]
      /\ next = [u \in Threads |-> next[u]] /\ current = [u \in Threads |-> current[u]]
      /\ next[t] \subseteq Entities /\ current[t] \subseteq Entities
      /\ temp[t] \subseteq OwnSources(t) /\ black[t] \subseteq OwnSources(t)
  BY DEF Step, TypeInv
<1>2. /\ RefsOf(t) \subseteq OwnSources(t) /\ RefsOf(t) \subseteq Entities
      /\ \A s \in RefsOf(t) : world.refs[s] \in Entities
  BY <1>1, RefsAreOwn
<1>3. FrontiersUnion \subseteq Entities
  BY DEF FrontiersUnion, TypeInv
<1>4. CASE RunLocal(t) \/ RegisterHashTable(t) \/ LookUpHashTables(t) \/ CollectFrontiers(t) \/ ConsumeTemp(t)
  <2>1. temp' = temp /\ black' = black /\ next' = next /\ current' = current
    BY <1>4 DEF RunLocal, RegisterHashTable, LookUpHashTables, CollectFrontiers, ConsumeTemp, threadVars
  <2>2. \E label \in {"done", "child", "gather", "roots", "release"} : Goto(t, label)
    BY <1>4 DEF RunLocal, RegisterHashTable, LookUpHashTables, CollectFrontiers, ConsumeTemp, Reach
  <2>3. QED
    BY <1>1, <2>1, <2>2, TypeKept
<1>5. CASE ProduceChild(t) \/ GatherRefs(t)
  <2>1. PICK entities \in SUBSET RefsOf(t) : temp' = [temp EXCEPT ![t] = entities]
    BY <1>5 DEF ProduceChild, GatherRefs, GatheredBy
  <2>2. black' = black /\ next' = next /\ current' = current
    BY <1>5 DEF ProduceChild, GatherRefs
  <2>3. \E label \in {"look up", "consume"} : Goto(t, label)
    BY <1>5 DEF ProduceChild, GatherRefs, Reach
  <2>4. /\ temp' = [u \in Threads |-> temp'[u]] /\ temp'[t] = entities
        /\ \A u \in Threads : u # t => temp'[u] = temp[u]
    BY <1>1, <2>1
  <2>5. QED
    BY <1>1, <1>2, <2>2, <2>3, <2>4, TypeKept
<1>6. CASE CascadeRefs(t)
  <2>1. /\ temp' = [temp EXCEPT ![t] = GatheredBy(t)] /\ next' = [next EXCEPT ![t] = FindRoots(t).next]
        /\ black' = [black EXCEPT ![t] = FindRoots(t).black] /\ current' = current /\ Goto(t, "collect")
    BY <1>6 DEF CascadeRefs, Reach
  <2>2. GatheredBy(t) \subseteq RefsOf(t) /\ FindRoots(t).next \subseteq Entities /\ FindRoots(t).black = RefsOf(t)
    BY <1>2 DEF GatheredBy, FindRoots
  <2>3. /\ temp' = [u \in Threads |-> temp'[u]] /\ temp'[t] = GatheredBy(t)
        /\ next' = [u \in Threads |-> next'[u]] /\ next'[t] = FindRoots(t).next
        /\ black' = [u \in Threads |-> black'[u]] /\ black'[t] = FindRoots(t).black
        /\ \A u \in Threads : u # t => temp'[u] = temp[u] /\ next'[u] = next[u] /\ black'[u] = black[u]
    BY <1>1, <2>1
  <2>4. /\ temp'[t] \subseteq OwnSources(t) /\ black'[t] \subseteq OwnSources(t)
        /\ next'[t] \subseteq Entities /\ current'[t] \subseteq Entities
        /\ current' = [u \in Threads |-> current'[u]]
        /\ \A u \in Threads : u # t => current'[u] = current[u]
    BY <1>1, <1>2, <2>1, <2>2, <2>3
  <2>5. UNCHANGED <<planVars, world>> /\ Goto(t, "collect") /\ "collect" # "start"
    BY <1>1, <2>1
  <2>6. QED
    BY <2>3, <2>4, <2>5, TypeKept
<1>7. CASE BroadcastRoots(t) \/ MergeFrontiers(t)
  <2>1. PICK frontier \in SUBSET Entities : current' = [current EXCEPT ![t] = frontier]
    BY <1>3, <1>7 DEF BroadcastRoots, MergeFrontiers, FilterBlacklists
  <2>2. temp' = temp /\ black' = black /\ next' = next /\ Goto(t, "wave")
    BY <1>7 DEF BroadcastRoots, MergeFrontiers, Reach
  <2>3. /\ current' = [u \in Threads |-> current'[u]] /\ current'[t] = frontier
        /\ \A u \in Threads : u # t => current'[u] = current[u]
    BY <1>1, <2>1
  <2>4. QED
    BY <1>1, <2>2, <2>3, TypeKept
<1>8. CASE Wave(t)
  <2>1. PICK blocks : next' = [next EXCEPT ![t] = UNION {Followed(t, b) : b \in Range(blocks)}]
    BY <1>8 DEF Wave
  <2>2. temp' = temp /\ black' = black /\ current' = current /\ Goto(t, "merge")
    BY <1>8 DEF Wave, Reach
  <2>3. \A b : Followed(t, b) \subseteq Entities
    BY <1>2 DEF Followed
  <2>4. /\ next' = [u \in Threads |-> next'[u]] /\ next'[t] \subseteq Entities
        /\ \A u \in Threads : u # t => next'[u] = next[u]
    BY <1>1, <2>1, <2>3
  <2>5. QED
    BY <1>1, <2>2, <2>4, TypeKept
<1>9. CASE Release(t)
  <2>1. /\ temp' = [temp EXCEPT ![t] = {}] /\ next' = [next EXCEPT ![t] = {}]
        /\ black' = [black EXCEPT ![t] = {}] /\ current' = current /\ Goto(t, "done")
    BY <1>9 DEF Release
  <2>2. /\ temp' = [u \in Threads |-> temp'[u]] /\ temp'[t] = {}
        /\ next' = [u \in Threads |-> next'[u]] /\ next'[t] = {}
        /\ black' = [u \in Threads |-> black'[u]] /\ black'[t] = {}
        /\ \A u \in Threads : u # t => temp'[u] = temp[u] /\ next'[u] = next[u] /\ black'[u] = black[u]
    BY <1>1, <2>1
  <2>3. /\ temp'[t] \subseteq OwnSources(t) /\ black'[t] \subseteq OwnSources(t)
        /\ next'[t] \subseteq Entities /\ current'[t] \subseteq Entities
        /\ current' = [u \in Threads |-> current'[u]]
        /\ \A u \in Threads : u # t => current'[u] = current[u]
    BY <1>1, <2>1, <2>2
  <2>4. UNCHANGED <<planVars, world>> /\ Goto(t, "done") /\ "done" # "start"
    BY <1>1, <2>1
  <2>5. QED
    BY <2>2, <2>3, <2>4, TypeKept
<1>10. QED
  BY <1>4, <1>5, <1>6, <1>7, <1>8, <1>9 DEF Step

\* A task begins on new tables when no thread has anything of the old.
LEMMA TypeOutside ==
  ASSUME QueryInv, TypeInv, Compile \/ BeginTask \/ EndTask \/ UNCHANGED vars
  PROVE  TypeInv'
<1>1. /\ pc' = pc /\ temp' = temp /\ black' = black /\ next' = next /\ current' = current /\ chain' = chain
  BY DEF Compile, PlanNext, VisitCall, ValidateStmt, PlanMatch, PlanForeach, GenerateCode, BeginTask, EndTask,
         vars, threadVars, planVars
<1>2. status' \in {"visiting", "planning", "generating", "generated", "running", "done", "refused"}
  BY DEF Compile, PlanNext, VisitCall, ValidateStmt, PlanMatch, PlanForeach, GenerateCode, BeginTask, EndTask,
         vars, planVars, TypeInv
<1>3. CASE BeginTask
  <2>1. \A t \in Threads : pc[t] = "start"
    BY <1>3 DEF BeginTask, QueryInv, ControlInv
  <2>2. \A t \in Threads : temp[t] = {} /\ black[t] = {}
    BY <2>1 DEF TypeInv
  <2>3. RefsBetween(world'.refs)
    BY <1>3, QueryAssumption DEF BeginTask, TypeInv
  <2>4. QED
    BY <1>1, <1>2, <2>2, <2>3 DEF TypeInv
<1>4. CASE Compile \/ EndTask \/ UNCHANGED vars
  <2>1. world' = world
    BY <1>4 DEF Compile, EndTask, vars
  <2>2. \A t : OwnSources(t)' = OwnSources(t)
    BY <2>1 DEF OwnSources, Sources
  <2>3. QED
    BY <1>1, <1>2, <2>1, <2>2 DEF TypeInv
<1>5. QED
  BY <1>3, <1>4

\* The types of the variables, and what a thread has gathered or blacklisted are entities of
\* its own blocks that have a reference (consume_gather and find_roots_and_blacklist), for any
\* number of threads, any size of blocks and chunks and any references.
THEOREM QueryTypeCorrect == Spec => []QueryTypeOK
<1>1. Init => TypeInv
  <2> SUFFICES ASSUME Init PROVE TypeInv
    OBVIOUS
  <2>1. RefsBetween(world.refs)
    BY DEF Init, NoWorld, RefsBetween
  <2>2. status = "visiting" /\ chain \in Scripts
    BY DEF Init, PlanInit
  <2>3. QED
    BY <2>1, <2>2 DEF Init, TypeInv
<1>2. QueryInv /\ TypeInv /\ [Next]_vars => TypeInv'
  BY TypeStep, TypeOutside DEF Next
<1>3. QueryInv /\ TypeInv => QueryTypeOK
  <2> SUFFICES ASSUME QueryInv, TypeInv PROVE QueryTypeOK
    OBVIOUS
  <2>1. arrived \in Nat /\ last_barrier \in [Threads -> Nat]
    BY BarrierTypes DEF QueryInv
  <2>2. \A t \in Threads : \A s \in temp[t] \cup black[t] : s \in Sources /\ BlockOffset(Block(s)) = t
    BY DEF TypeInv, OwnSources
  <2>3. QED
    BY <2>1, <2>2 DEF QueryTypeOK, QueryInv, ControlInv, KeptInv, TypeInv
<1>4. QED
  BY QueryInvariant, <1>1, <1>2, <1>3, PTL DEF Spec
===========================================================================
