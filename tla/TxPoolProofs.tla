---------------------------- MODULE TxPoolProofs ----------------------------
(***************************************************************************)
(* The steps of the pool keep its invariant, and the invariant implies the *)
(* properties of TxPool, for any transactions, references and blocks.      *)
(*                                                                         *)
(* The theorems assume Liberties = {}.  The client frees no version above  *)
(* the safepoint that is not the writer's own, as the assertion in         *)
(* fdb_txpool_alloc_free demands (MCTxPoolPinned shows that                *)
(* SnapshotReadable fails otherwise); and a writer collects no garbage     *)
(* once it has freed a reference itself.  Nothing in tx.h forbids that:    *)
(* MCTxPool checks it inside writers that are not the oldest transaction;  *)
(* inside the oldest SnapshotReadable fails with it.                       *)
(*                                                                         *)
(* Three facts carry the argument.  The safepoint of a collection is below *)
(* every version in use, or what it collects is freed for all versions     *)
(* above it (CollectsSafely), so a cut and a collapse hide nothing.  The   *)
(* thread that collects a reference is alone with it (CollectsAlone), so   *)
(* nobody stores between its steps.  And a version that has left its chain *)
(* with its data stays, as an entry of a garbage list, for the readers on  *)
(* it, until a forced collection; one without data has no reader.          *)
(***************************************************************************)
EXTENDS TxPoolInv

---------------------------------------------------------------------------
\* The collection of a reference.

\* What a thread that is not the writer has freed is gone for the writer.
LEMMA FreedElsewhere ==
  ASSUME PoolInv, NEW w \in Txs, IsWriting(w), NEW r \in Rooted, ~FreedEarlier(w, r),
         NEW u \in Txs, u # w, NEW i \in DOMAIN garbage[u]
  PROVE  garbage[u][i] # p_main[r]
<1> SUFFICES ASSUME garbage[u][i] = p_main[r] PROVE FALSE
  OBVIOUS
<1>1. PoolTypeOK /\ TxInv /\ HistInv /\ r \in Refs /\ RootedInv(r)
  BY DEF PoolInv, RefInv, Rooted
<1>2. /\ m_last_write_committed_id < m_txversion[w] /\ m_txversion[w] \in Nat
      /\ m_last_write_committed_id \in Nat /\ ~IsWriting(u)
  BY <1>1, WriterBounds, OneWriter
<1>3. Last(r).val = NULL /\ Last(r).ver <= m_last_write_committed_id
  BY <1>1, <1>2 DEF PoolInv, GarbageInv, FreedBy
<1>4. Last(r).ver \in Nat /\ (Last(r).ver <= m_txversion[w] => FreedAt(r, m_txversion[w]))
  BY <1>1, <1>2, <1>3, HistoryTop DEF RootedInv
<1>5. FreedAt(r, m_txversion[w]) /\ Last(r).ver # m_txversion[w]
  BY <1>2, <1>3, <1>4
<1>6. QED
  BY <1>5 DEF FreedEarlier, Last

\* While a reference is collected no other thread collects it or has it in its garbage.
Alone(t, r) ==
  \A u \in Txs \ {t} :
    /\ \A i \in DOMAIN garbage[u] : garbage[u][i] # p_main[r]
    /\ call[u].op \notin {"none", "walk"} /\ call[u].then # "sweep" => call[u].ref # r

\* Whoever collects a reference is alone with it: a writer because there is one, a sweep
\* because it only meets references that are freed.
LEMMA CollectsAlone ==
  ASSUME PoolInv, NEW t \in Txs, call[t].op \notin {"none", "walk"},
         NEW r \in Rooted, call[t].root = p_main[r]
  PROVE  Alone(t, r)
<1>1. CollectInv(t) /\ TxInv /\ HeadsInv
  BY DEF PoolInv, CallInv
<1> SUFFICES ASSUME NEW u \in Txs, u # t
             PROVE  /\ \A i \in DOMAIN garbage[u] : garbage[u][i] # p_main[r]
                    /\ call[u].op \notin {"none", "walk"} /\ call[u].then # "sweep" => call[u].ref # r
  BY DEF Alone
<1>2. CASE call[t].then = "sweep"
  <2>1. \E i \in DOMAIN garbage[t] : garbage[t][i] = p_main[r]
    BY <1>1, <1>2 DEF CollectInv, SweepCall
  <2>2. ASSUME call[u].op \notin {"none", "walk"}, call[u].then # "sweep", call[u].ref = r
        PROVE  FALSE
    <3>1. WriterCall(u)
      BY <2>2 DEF PoolInv, CallInv, CollectInv
    <3>2. QED
      BY <2>1, <2>2, <3>1, FreedElsewhere DEF WriterCall
  <2>3. QED
    BY <1>1, <2>1, <2>2 DEF HeadsInv
<1>3. CASE call[t].then # "sweep"
  <2>1. WriterCall(t)
    BY <1>1, <1>3 DEF CollectInv
  <2>2. call[t].ref = r /\ IsWriting(t) /\ ~FreedEarlier(t, r)
    <3>1. /\ call[t].ref \in Rooted /\ call[t].root = p_main[call[t].ref]
          /\ IsWriting(t) /\ ~FreedEarlier(t, call[t].ref)
      BY <2>1 DEF WriterCall
    <3>2. call[t].ref = r
      BY <1>1, <3>1 DEF HeadsInv
    <3>3. QED
      BY <3>1, <3>2
  <2>3. \A i \in DOMAIN garbage[u] : garbage[u][i] # p_main[r]
    BY <2>2, FreedElsewhere
  <2>4. ASSUME call[u].op \notin {"none", "walk"}, call[u].then # "sweep" PROVE FALSE
    <3>1. IsWriting(u)
      BY <2>4 DEF PoolInv, CallInv, CollectInv, WriterCall
    <3>2. QED
      BY <1>1, <2>2, <3>1, OneWriter
  <2>5. QED
    BY <2>3, <2>4
<1>4. QED
  BY <1>2, <1>3

\* What a writer sweeps was freed before it began.
LEMMA SweptIsGone ==
  ASSUME PoolInv, NEW t \in Txs, call[t].op \notin {"none", "walk"}, call[t].then = "sweep",
         NEW r \in Rooted, call[t].root = p_main[r], IsWriting(t)
  PROVE  FreedEarlier(t, r)
<1>1. SweepCall(t)
  BY DEF PoolInv, CallInv, CollectInv
<1>2. QED
  BY <1>1 DEF SweepCall, Rooted

\* The safepoint of a collection is not above what a transaction reads that has a use for r.
LEMMA CollectsSafely ==
  ASSUME PoolInv, NEW t \in Txs, call[t].op \notin {"none", "walk"},
         NEW r \in Rooted, call[t].root = p_main[r], NEW v \in LiveVersions
  PROVE  FreedAt(r, v) \/ call[t].orv <= v
<1>1. CollectInv(t) /\ TxInv
  BY DEF PoolInv, CallInv
<1>2. CASE call[t].then = "sweep"
  BY <1>1, <1>2 DEF CollectInv, SweepCall, Rooted
<1>3. CASE call[t].then # "sweep"
  BY <1>1, <1>3, WriterBounds DEF CollectInv, WriterCall
<1>4. QED
  BY <1>2, <1>3

\* Where a collection works: on the root of a reference or on a block without successor.
LEMMA CollectRoot ==
  ASSUME PoolInv, NEW t \in Txs, call[t].op \notin {"none", "walk"}
  PROVE  /\ call[t].root \in Blocks
         /\ \/ \E r \in Rooted : call[t].root = p_main[r]
            \/ /\ call[t].then = "sweep" /\ IsLeftover(call[t].root)
               /\ p_next_version[call[t].root] = NULL
<1>1. CollectInv(t) /\ ShapeInv
  BY InvShape DEF PoolInv, CallInv
<1>2. CASE call[t].then = "sweep"
  <2>1. IsEntry(call[t].root)
    BY <1>1, <1>2 DEF CollectInv, SweepCall, IsEntry
  <2>2. QED
    BY <1>1, <1>2, <2>1, SweepRoot
<1>3. CASE call[t].then # "sweep"
  <2>1. call[t].ref \in Rooted /\ call[t].root = p_main[call[t].ref]
    BY <1>1, <1>3 DEF CollectInv, WriterCall
  <2>2. QED
    BY <1>1, <2>1, NullIsNoBlock DEF Rooted, ShapeInv, PoolTypeOK
<1>4. QED
  BY <1>2, <1>3

\* The call that a collection belongs to is not disturbed by what the collection does.
LEMMA CollectGoesOn ==
  ASSUME PoolInv, PoolTypeOK', NEW t \in Txs, call[t].op \notin {"none", "walk"},
         UNCHANGED <<txvars, p_main, hist>>, used' \subseteq used,
         call'[t].then = call[t].then, call'[t].ref = call[t].ref, call'[t].root = call[t].root,
         call'[t].orv = call[t].orv,
         call'[t].op \in {"ptr", "free"} => call[t].then # "sweep",
         call'[t].op = "ptr" => call[t].then # "free",
         call'[t].op = "free" => call[t].then = "free",
         \A b \in {call[t].root} \cup {p_main[r] : r \in Rooted} :
           (\E i \in DOMAIN garbage'[t] : garbage'[t][i] = b) <=> (\E i \in DOMAIN garbage[t] : garbage[t][i] = b),
         call[t].then # "sweep" => m_ts'[FreeCandidate(call[t].root)'] = m_ts[FreeCandidate(call[t].root)],
         call[t].then = "free" /\ p_data[call[t].root] # NULL => p_data'[call[t].root] # NULL
  PROVE  IF call'[t].then = "sweep" THEN SweepCall(t)' ELSE WriterCall(t)'
<1>1. CollectInv(t) /\ PoolTypeOK
  BY DEF PoolInv, CallInv
<1>2. /\ LiveVersions' = LiveVersions /\ Rooted' = Rooted /\ p_main' = p_main /\ hist' = hist
      /\ m_txversion' = m_txversion /\ m_ortxversion' = m_ortxversion
      /\ (IsWriting(t)' <=> IsWriting(t)) /\ (IsWriter(t)' <=> IsWriter(t))
  BY SameTx DEF txvars, Rooted
<1>3. CASE call[t].then = "sweep"
  <2>1. SweepCall(t)
    BY <1>1, <1>3 DEF CollectInv
  <2>2. \A r, v : FreedAt(r, v)' <=> FreedAt(r, v)
    BY <1>2 DEF FreedAt, HistoryAt
  <2>3. \E i \in DOMAIN garbage'[t] : garbage'[t][i] = call'[t].root
    BY <2>1 DEF SweepCall
  <2>4. \A i \in DOMAIN garbage'[t] : garbage'[t][i] \in Blocks
    <3>1. garbage'[t] \in Seq(Blocks)
      BY DEF PoolTypeOK
    <3>2. QED
      BY <3>1, SeqFacts
  <2>5. ASSUME NEW r \in Refs, \E i \in DOMAIN garbage'[t] : garbage'[t][i] = p_main[r]
        PROVE  \E i \in DOMAIN garbage[t] : garbage[t][i] = p_main[r]
    BY <2>4, <2>5, NullIsNoBlock DEF Rooted
  <2>6. \A r : FreedEarlier(t, r)' <=> FreedEarlier(t, r)
    BY <1>2, <2>2 DEF FreedEarlier
  <2>7. QED
    BY <1>2, <1>3, <2>1, <2>2, <2>3, <2>5, <2>6 DEF SweepCall
<1>4. CASE call[t].then # "sweep"
  <2>1. WriterCall(t)
    BY <1>1, <1>4 DEF CollectInv
  <2>2. PICK r \in Rooted : r = call[t].ref
    BY <2>1 DEF WriterCall
  <2>3. /\ FreedEarlier(t, call[t].ref)' <=> FreedEarlier(t, r)
        /\ FreedAt(call[t].ref, m_txversion[t])' <=> FreedAt(r, m_txversion[t])
        /\ FreeBlocks # {} => FreeBlocks' # {}
    BY <1>2, <2>2 DEF FreedEarlier, FreedAt, HistoryAt, FreeBlocks
  <2>4. FreeCandidate(call[t].root)' = FreeCandidate(call[t].root)' /\ call'[t].root = call[t].root
    OBVIOUS
  <2>5. WriterCall(t)'
    BY <1>2, <1>4, <2>1, <2>2, <2>3 DEF WriterCall
  <2>6. QED
    BY <1>4, <2>5
<1>5. QED
  BY <1>3, <1>4

\* Nothing is cut: what the safepoint passes is one version or none.
LEMMA SeverStays ==
  ASSUME PoolInv, NEW t \in Txs, call[t].op = "sever",
         ~(/\ YoungestAt(call[t].root, call[t].orv) # NULL
           /\ p_next_version[YoungestAt(call[t].root, call[t].orv)] # NULL),
         Goto(t, "copy"),
         UNCHANGED <<p_main, m_ts, p_data, p_next_version, used, garbage, held, hist, txvars>>
  PROVE  PoolInv'
<1> USE NullIsNoBlock
<1>1. PoolTypeOK /\ ShapeInv /\ CallInv(t) /\ HeldInv(t) /\ CollectRest(t) /\ CollectInv(t)
  BY InvShape, CollectParts DEF PoolInv, CallInv
<1>2. /\ call' \in [Txs -> Calls] /\ call'[t] = [call[t] EXCEPT !.op = "copy"]
      /\ call'[t].op = "copy" /\ call'[t].then = call[t].then /\ call'[t].ref = call[t].ref
      /\ call'[t].root = call[t].root /\ call'[t].at = call[t].at /\ call'[t].orv = call[t].orv
      /\ \A u \in Txs \ {t} : call'[u] = call[u] /\ held'[u] = held[u]
  <2>1. PICK d : d = [call[t] EXCEPT !.op = "copy"]
    OBVIOUS
  <2>2. call' = [call EXCEPT ![t] = d]
    BY <2>1 DEF Goto
  <2>3. /\ d \in Calls /\ d.op = "copy" /\ d.then = call[t].then /\ d.ref = call[t].ref
        /\ d.root = call[t].root /\ d.at = call[t].at /\ d.orv = call[t].orv
    BY <1>1, <2>1, CallFields DEF Calls
  <2>4. call' \in [Txs -> Calls] /\ call'[t] = d /\ \A u \in Txs \ {t} : call'[u] = call[u]
    BY <1>1, <2>2, <2>3, CallSet
  <2>5. QED
    BY <2>1, <2>3, <2>4
<1>3. /\ UNCHANGED blocks /\ p_main' = p_main /\ m_ts' = m_ts /\ p_data' = p_data
      /\ p_next_version' = p_next_version /\ garbage' = garbage /\ used' = used
  BY DEF blocks
<1>4. PoolTypeOK'
  BY <1>1, <1>2, <1>3 DEF PoolTypeOK
<1>5. IF call'[t].then = "sweep" THEN SweepCall(t)' ELSE WriterCall(t)'
  <2>1. FreeCandidate(call[t].root)' = FreeCandidate(call[t].root)
    BY <1>2, <1>3 DEF FreeCandidate
  <2>2. UNCHANGED <<txvars, p_main, hist>> /\ call[t].op \notin {"none", "walk"}
    OBVIOUS
  <2>3. \A b : (\E i \in DOMAIN garbage'[t] : garbage'[t][i] = b) <=> (\E i \in DOMAIN garbage[t] : garbage[t][i] = b)
    BY <1>3
  <2>4. /\ m_ts'[FreeCandidate(call[t].root)'] = m_ts[FreeCandidate(call[t].root)]
        /\ p_data'[call[t].root] = p_data[call[t].root] /\ used' \subseteq used
    BY <1>3, <2>1
  <2>5. call'[t].op \notin {"ptr", "free"}
    BY <1>2
  <2>6. QED
    BY <1>2, <1>4, <2>2, <2>3, <2>4, <2>5, CollectGoesOn, ZenonT(30)
<1>6. Severed(t)
  <2>1. PICK root \in Blocks : root = call[t].root
    BY CollectRoot
  <2>2. CASE \E r \in Rooted : root = p_main[r]
    <3>1. PICK r \in Rooted : root = p_main[r]
      BY <2>2
    <3>2. ChainOfRef(r) /\ call[t].orv \in Nat
      BY <1>1, ChainsOfRefs, CallFields
    <3>3. \A x \in Versions(r) : m_ts[x] \in Nat
      BY <1>1, <3>2 DEF ChainOfRef, PoolTypeOK
    <3> DEFINE w == YoungestAt(p_main[r], call[t].orv)
    <3>4. IF w = NULL THEN \A x \in Versions(r) : m_ts[x] > call[t].orv
          ELSE /\ w \in Versions(r) /\ m_ts[w] <= call[t].orv
               /\ \A x \in Versions(r) : m_ts[x] <= call[t].orv => m_ts[x] <= m_ts[w]
      BY <1>1, <3>2, WalkEnds
    <3>5. w = NULL \/ p_next_version[w] = NULL
      BY <2>1, <3>1
    <3> HIDE DEF w
    <3>6. ASSUME NEW b \in Versions(r), m_ts[b] <= call[t].orv PROVE p_next_version[b] = NULL
      <4>1. w # NULL /\ w \in Versions(r) /\ m_ts[b] <= m_ts[w]
        BY <3>2, <3>3, <3>4, <3>6
      <4>2. m_ts[b] < m_ts[w] => p_next_version[w] # NULL
        BY <3>2, <3>6, <4>1 DEF ChainOfRef
      <4>3. m_ts[b] = m_ts[w]
        BY <3>3, <3>5, <3>6, <4>1, <4>2
      <4>4. b = w
        BY <3>2, <3>6, <4>1, <4>3 DEF ChainOfRef
      <4>5. QED
        BY <3>5, <4>1, <4>4
    <3>7. QED
      BY <2>1, <3>1, <3>6 DEF Severed, Versions
  <2>3. CASE p_next_version[root] = NULL
    <3>1. Chain(NULL) = {}
      BY <1>1, ChainUnfolds DEF Chain, LinksOn, PoolTypeOK
    <3>2. QED
      BY <2>1, <2>3, <3>1 DEF Severed
  <2>4. QED
    BY <2>1, <2>2, <2>3, CollectRoot
<1>7. Severed(t)'
  BY <1>2, <1>3, <1>6 DEF Severed, Chain
<1>8. CollectInv(t)'
  BY <1>1, <1>2, <1>5, <1>7 DEF CollectInv, CollectRest
<1>9. CallInv(t)'
  BY <1>1, <1>2, <1>8 DEF CallInv, txvars, Idle, NoCall
<1>10. HeldInv(t)'
  BY <1>1, <1>3, SameHeld
<1>11. QED
  BY <1>2, <1>3, <1>4, <1>9, <1>10, CallStep

\* A version that somebody may be on is not behind the one the collection keeps.
LEMMA KeepsBehind ==
  ASSUME PoolInv, NEW t \in Txs, call[t].op \notin {"none", "walk"},
         NEW r \in Rooted, call[t].root = p_main[r],
         NEW k \in Versions(r), m_ts[k] <= call[t].orv
  PROVE  /\ \A u \in Txs : call[u].op = "walk" /\ call[u].ref = r /\ call[u].at \in Versions(r)
                             => m_ts[k] <= m_ts[call[u].at]
         /\ \A u \in Txs : held[u] # NULL /\ held[u].ref = r /\ held[u].block \in Versions(r)
                             => m_ts[k] <= m_ts[held[u].block]
<1>1. PoolTypeOK /\ ShapeInv /\ TxInv /\ ChainOfRef(r) /\ CollectInv(t)
  BY InvShape, ChainsOfRefs DEF PoolInv, CallInv
<1>2. /\ call[t].orv \in Nat /\ m_txversion \in [Txs -> Nat] /\ m_ortxversion \in [Txs -> Nat]
      /\ \A x \in Versions(r) : m_ts[x] \in Nat
  BY <1>1, CallFields DEF ChainOfRef, PoolTypeOK, TxInv, TypeOK
<1>3. ASSUME NEW u \in Txs, call[u].op = "walk", call[u].ref = r, call[u].at \in Versions(r)
      PROVE  m_ts[k] <= m_ts[call[u].at]
  <2> DEFINE v == m_txversion[u]
  <2>1. WalkInv(u)
    BY <1>3 DEF PoolInv, CallInv
  <2>2. v \in LiveVersions /\ ~FreedAt(r, v) /\ v \in Nat
    BY <1>2, <1>3, <2>1 DEF WalkInv, LiveVersions, Running
  <2>3. call[t].orv <= v
    BY <2>2, CollectsSafely
  <2>4. m_ts[k] <= v
    BY <1>2, <2>2, <2>3
  <2>5. CASE call[u].at = NULL
    BY <1>1, <1>3, <2>5, NullIsNoBlock DEF ChainOfRef
  <2>6. CASE \A b \in Versions(r) : m_ts[b] <= v => m_ts[b] <= m_ts[call[u].at]
    BY <2>4, <2>6
  <2>7. CASE IsLeftover(call[u].at)
    BY <1>1, <1>3, <2>7 DEF ChainOfRef, IsLeftover, IsHead
  <2>8. QED
    BY <1>3, <2>1, <2>5, <2>6, <2>7 DEF WalkInv
<1>4. ASSUME NEW u \in Txs, held[u] # NULL, held[u].ref = r, held[u].block \in Versions(r)
      PROVE  m_ts[k] <= m_ts[held[u].block]
  <2> DEFINE v == m_txversion[u]
             b == held[u].block
  <2>1. HeldInv(u)
    BY DEF PoolInv
  <2>2. /\ v \in LiveVersions /\ v \in Nat /\ ~FreedEarlier(u, r) /\ pc[u] = "running"
        /\ b # p_main[r] /\ ~IsLeftover(b)
    BY <1>1, <1>2, <1>4, <2>1 DEF HeldInv, LiveVersions, Running, ChainOfRef, IsLeftover, IsHead
  <2>3. IF IsWriter(u) THEN m_ts[b] > m_ortxversion[u]
        ELSE \A x \in Versions(r) : m_ts[x] <= v => m_ts[x] <= m_ts[b]
    BY <1>4, <2>1, <2>2 DEF HeldInv
  <2>4. CASE IsWriter(u)
    <3>1. IsWriting(u)
      BY <2>2, <2>4 DEF IsWriting
    <3>2. u = t
      <4> SUFFICES ASSUME u # t PROVE FALSE
        OBVIOUS
      <4>1. \A i \in DOMAIN garbage[t] : garbage[t][i] # p_main[r]
        BY <2>2, <3>1, FreedElsewhere
      <4>2. call[t].then = "sweep" => ~SweepCall(t)
        BY <4>1 DEF SweepCall
      <4>3. call[t].then # "sweep" => ~WriterCall(t)
        BY <1>1, <3>1, OneWriter DEF WriterCall
      <4>4. QED
        BY <1>1, <4>2, <4>3 DEF CollectInv
    <3>3. call[t].orv = m_ortxversion[t]
      BY <1>1, <2>2, <3>1, <3>2, SweptIsGone DEF CollectInv, WriterCall
    <3>4. QED
      BY <1>2, <1>4, <2>3, <2>4, <3>2, <3>3
  <2>5. CASE ~IsWriter(u)
    <3>1. ~FreedAt(r, v)
      BY <2>2, <2>5 DEF FreedEarlier
    <3>2. call[t].orv <= v
      BY <2>2, <3>1, CollectsSafely
    <3>3. QED
      BY <1>2, <2>2, <2>3, <2>5, <3>2
  <2>6. QED
    BY <2>4, <2>5
<1>5. QED
  BY <1>3, <1>4

\* The chain is cut behind the version that the safepoint keeps.
LEMMA SeverCuts ==
  ASSUME PoolInv, NEW t \in Txs, call[t].op = "sever",
         YoungestAt(call[t].root, call[t].orv) # NULL,
         p_next_version[YoungestAt(call[t].root, call[t].orv)] # NULL,
         p_next_version' = [p_next_version EXCEPT ![YoungestAt(call[t].root, call[t].orv)] = NULL],
         call' = [call EXCEPT ![t].op = "drop",
                              ![t].at = p_next_version[YoungestAt(call[t].root, call[t].orv)]],
         UNCHANGED <<p_main, m_ts, p_data, used, garbage, held, hist, txvars>>
  PROVE  PoolInv'
<1> USE NullIsNoBlock
<1> DEFINE orv == call[t].orv
<1>1. PoolTypeOK /\ ShapeInv /\ TxInv /\ CallInv(t) /\ CollectRest(t) /\ CollectInv(t)
  BY InvShape, CollectParts DEF PoolInv, CallInv
<1>2. Descends(p_next_version) /\ LinksOn(p_next_version)
  BY <1>1, LinksDescend DEF Descends
<1>3. PICK r \in Rooted : call[t].root = p_main[r]
  <2>1. p_next_version[call[t].root] = NULL => YoungestAt(call[t].root, orv) = NULL
    BY <1>2, WalkUnfolds DEF YoungestAt
  <2>2. QED
    BY <2>1, CollectRoot
<1>4. ChainOfRef(r) /\ orv \in Nat /\ m_ts \in [Blocks -> Nat]
  BY <1>1, ChainsOfRefs, CallFields DEF PoolTypeOK
<1>5. PICK k \in Versions(r) : k = YoungestAt(call[t].root, orv)
  BY <1>1, <1>3, <1>4, WalkEnds
<1>6. m_ts[k] <= orv /\ \A x \in Versions(r) : m_ts[x] <= orv => m_ts[x] <= m_ts[k]
  BY <1>1, <1>3, <1>4, <1>5, WalkEnds
<1>7. PICK cut \in Blocks : cut = p_next_version[k]
  <2>1. k \in Blocks
    BY <1>4 DEF ChainOfRef
  <2>2. QED
    BY <1>2, <1>5, <2>1 DEF LinksOn
<1>8. /\ k \in Blocks /\ k \in used /\ ~IsHead(k) /\ cut \in used /\ ~IsHead(cut) /\ k # p_main[r]
      /\ \A x \in Versions(r) : x \in Blocks /\ m_ts[x] \in Nat
  BY <1>1, <1>4, <1>7 DEF ChainOfRef, ShapeInv, LinksInv, IsHead
<1>9. /\ p_next_version' = [p_next_version EXCEPT ![k] = NULL]
      /\ \A b \in Blocks : p_next_version'[b] = IF b = k THEN NULL ELSE p_next_version[b]
      /\ p_main' = p_main /\ m_ts' = m_ts /\ p_data' = p_data /\ used' = used
      /\ garbage' = garbage /\ held' = held /\ hist' = hist /\ Rooted' = Rooted
  BY <1>2, <1>5, <1>8 DEF LinksOn, Rooted
<1>10. /\ call' \in [Txs -> Calls] /\ call'[t].op = "drop" /\ call'[t].at = cut
       /\ call'[t].then = call[t].then /\ call'[t].ref = call[t].ref
       /\ call'[t].root = call[t].root /\ call'[t].orv = orv
       /\ \A u \in Txs \ {t} : call'[u] = call[u] /\ held'[u] = held[u]
  <2>1. PICK d : d = [call[t] EXCEPT !.op = "drop", !.at = cut]
    OBVIOUS
  <2>2. call' = [call EXCEPT ![t] = d]
    BY <1>5, <1>7, <2>1
  <2>3. /\ d \in Calls /\ d.op = "drop" /\ d.at = cut /\ d.then = call[t].then
        /\ d.ref = call[t].ref /\ d.root = call[t].root /\ d.orv = call[t].orv
    BY <1>1, <1>7, <2>1, CallFields DEF Calls
  <2>4. call' \in [Txs -> Calls] /\ call'[t] = d /\ \A u \in Txs \ {t} : call'[u] = call[u]
    BY <1>1, <2>2, <2>3, CallSet
  <2>5. QED
    BY <2>3, <2>4
<1>11. PoolTypeOK'
  BY <1>1, <1>9, <1>10 DEF PoolTypeOK
\* The heads are what they were, and the block cut off.
<1>12. \A b : /\ IsRoot(b)' <=> IsRoot(b)
              /\ IsEntry(b)' <=> IsEntry(b)
              /\ IsLeftover(b)' <=> IsLeftover(b)
              /\ IsDropped(b)' <=> IsDropped(b) \/ b = cut
              /\ IsHead(b)' <=> IsHead(b) \/ b = cut
  <2>1. \A b : /\ IsRoot(b)' <=> IsRoot(b)
               /\ IsEntry(b)' <=> IsEntry(b)
    BY <1>9 DEF IsRoot, IsEntry
  <2>2. \A b : IsDropped(b)' <=> (IsDropped(b) \/ b = cut)
    BY <1>10 DEF IsDropped
  <2>3. QED
    BY <2>1, <2>2 DEF IsHead, IsLeftover
<1>13. LinksInv'
  <2>1. ASSUME NEW b \in Blocks, p_next_version'[b] # NULL
        PROVE  /\ b \in used /\ p_next_version'[b] \in used
               /\ ~IsHead(p_next_version[b])'
               /\ ~IsRoot(b)' => m_ts[p_next_version'[b]] < m_ts[b]
    <3>1. PICK n \in Blocks : n = p_next_version[b] /\ n = p_next_version'[b] /\ b # k
      BY <1>2, <1>9, <2>1 DEF LinksOn
    <3>2. n # cut /\ n # NULL
      BY <1>1, <1>7, <1>8, <2>1, <3>1 DEF ShapeInv, LinksInv
    <3>3. b \in used /\ n \in used /\ ~IsHead(n) /\ (~IsRoot(b) => m_ts[n] < m_ts[b])
      BY <1>1, <3>1, <3>2 DEF ShapeInv, LinksInv
    <3>4. ~IsHead(n)'
      BY <1>12, <3>2, <3>3
    <3>5. ~IsHead(p_next_version[b])'
      BY <3>1, <3>4 DEF IsHead, IsRoot, IsEntry, IsDropped
    <3>6. QED
      BY <1>12, <3>1, <3>3, <3>5
  <2>2. \A a, b \in Blocks :
          p_next_version'[a] # NULL /\ p_next_version'[a] = p_next_version'[b] => a = b
    BY <1>1, <1>9 DEF ShapeInv, LinksInv
  <2>3. ASSUME NEW b \in used
        PROVE  InTime(m_ts[b])' /\ (IsHead(b)' \/ \E a \in Blocks : p_next_version'[a] = b)
    <3>1. InTime(m_ts[b])'
      BY <1>1, <1>9, SameTx DEF ShapeInv, LinksInv
    <3>2. CASE IsHead(b)
      BY <1>12, <3>1, <3>2
    <3>3. CASE \E a \in Blocks : p_next_version[a] = b
      <4>1. PICK a \in Blocks : p_next_version[a] = b
        BY <3>3
      <4>2. CASE a = k
        BY <1>7, <1>12, <3>1, <4>1, <4>2
      <4>3. CASE a # k
        BY <1>9, <3>1, <4>1, <4>3
      <4>4. QED
        BY <4>2, <4>3
    <3>4. QED
      BY <1>1, <3>2, <3>3 DEF ShapeInv, LinksInv
  <2>4. QED
    BY <1>9, <2>1, <2>2, <2>3 DEF LinksInv
<1>14. HeadsInv'
  <2>1. \A b \in Blocks : /\ IsHead(b)' => b \in used
                          /\ IsLeftover(b)' => p_next_version'[b] = NULL
                          /\ IsDropped(b)' => ~IsRoot(b)' /\ ~IsEntry(b)'
    BY <1>1, <1>8, <1>9, <1>12 DEF ShapeInv, HeadsInv, IsHead
  <2>2. \A u \in Txs : call[u].op = "drop" => u # t /\ call[u].at # cut
    BY <1>8 DEF IsHead, IsDropped
  <2>3. \A u, w \in Txs :
          call'[u].op = "drop" /\ call'[w].op = "drop" /\ call'[u].at = call'[w].at => u = w
    BY <1>1, <1>10, <2>2 DEF ShapeInv, HeadsInv
  <2>4. /\ \A q, s \in Rooted' : p_main'[q] = p_main'[s] => q = s
        /\ \A u, w \in Txs : \A i \in DOMAIN garbage'[u], j \in DOMAIN garbage'[w] :
             garbage'[u][i] = garbage'[w][j] => u = w /\ i = j
    BY <1>1, <1>9 DEF ShapeInv, HeadsInv
  <2>5. \A b \in Blocks : IsHead(b)' => b \in used'
    BY <1>9, <2>1
  <2>6. QED
    BY <2>1, <2>3, <2>4, <2>5 DEF HeadsInv
<1>15. ShapeInv'
  BY <1>1, <1>11, <1>13, <1>14, TxInvNext DEF ShapeInv
\* What is left of the chain of r.
<1>16. Versions(r)' = {x \in Versions(r) : m_ts[k] <= m_ts[x]}
  <2>1. PICK top \in Blocks : top = p_next_version[p_main[r]] /\ top # NULL
    <3>1. p_next_version[p_main[r]] # NULL
      BY <1>4, <1>8 DEF ChainOfRef
    <3>2. p_next_version[p_main[r]] \in Blocks
      BY <1>4, <3>1 DEF ChainOfRef
    <3>3. QED
      BY <3>1, <3>2
  <2>2. Ordered(p_next_version, m_ts, top)
    BY <1>1, <1>4, <2>1, ShapeOrdered DEF ChainOfRef, IsHead
  <2>3. Descends(p_next_version)'
    BY <1>15, LinksDescend, PTL
  <2>4. \A x \in Blocks : x \in ChainOf(p_next_version', top)
                          <=> x \in ChainOf(p_next_version, top) /\ m_ts[k] <= m_ts[x]
    <3>1. k \in ChainOf(p_next_version, top)
      BY <2>1 DEF Versions, Chain
    <3>2. p_next_version' = Cut(p_next_version, k)
      BY <1>9 DEF Cut
    <3>3. Descends(p_next_version) /\ m_ts \in [Blocks -> Nat]
      BY <1>2, <1>4
    <3>4. \A x \in Blocks : x \in ChainOf(Cut(p_next_version, k), top)
                            <=> x \in ChainOf(p_next_version, top) /\ m_ts[k] <= m_ts[x]
      BY <2>2, <3>1, <3>3, ChainCut
    <3>5. QED
      BY <3>2, <3>4
  <2>5. p_next_version'[p_main'[r]] = top
    BY <1>4, <1>8, <1>9, <2>1 DEF ChainOfRef
  <2>6. ChainOf(p_next_version', top) \in SUBSET Blocks /\ ChainOf(p_next_version, top) \in SUBSET Blocks
    BY <1>2, <2>1, <2>3, ChainClosed
  <2>7. QED
    BY <2>1, <2>4, <2>5, <2>6 DEF Versions, Chain
<1>17. k \in Versions(r)' /\ Versions(r)' \subseteq Versions(r)
  BY <1>8, <1>16
<1>18. /\ LiveVersions' = LiveVersions /\ m_last_write_committed_id' = m_last_write_committed_id
       /\ pc' = pc /\ m_txversion' = m_txversion /\ m_ortxversion' = m_ortxversion
       /\ \A u : (IsWriting(u)' <=> IsWriting(u)) /\ (IsWriter(u)' <=> IsWriter(u))
       /\ \A s, v : HistoryAt(s, v)' = HistoryAt(s, v) /\ (FreedAt(s, v)' <=> FreedAt(s, v))
       /\ \A s : Last(s)' = Last(s)
       /\ LiveVersions \subseteq Nat
  BY <1>1, <1>9, SameTx, LiveNat DEF txvars, HistoryAt, FreedAt, Last
<1>19. FreeCandidate(p_main[r])' = FreeCandidate(p_main[r]) /\ FreeCandidate(call[t].root)' = FreeCandidate(call[t].root)
  BY <1>3, <1>4, <1>8, <1>9, <1>10 DEF FreeCandidate, ChainOfRef
<1>20. RefInv(r)'
  <2>1. RootedInv(r) /\ p_main[r] # NULL
    BY DEF PoolInv, RefInv, Rooted
  <2>2. ASSUME NEW v \in LiveVersions, NEW y \in Blocks, Seen(r, v, y)'
        PROVE  FreedAt(r, v) \/ p_data[y] = HistoryAt(r, v)
    <3> SUFFICES ASSUME ~FreedAt(r, v) PROVE p_data[y] = HistoryAt(r, v)
      OBVIOUS
    <3>1. orv <= v /\ v \in Nat
      BY <1>3, <1>18, CollectsSafely
    <3>2. m_ts[k] <= v
      BY <1>4, <1>6, <1>8, <3>1
    <3>3. /\ y \in Versions(r)' /\ m_ts[y] <= v
          /\ \A x \in Versions(r)' : m_ts[x] <= v => m_ts[x] <= m_ts[y]
      BY <1>8, <1>9, <1>17, <2>2, <3>1, <3>2 DEF Seen
    <3>4. ASSUME NEW x \in Versions(r), m_ts[x] <= v PROVE m_ts[x] <= m_ts[y]
      BY <1>8, <1>16, <1>17, <3>1, <3>2, <3>3, <3>4
    <3>5. Seen(r, v, y)
      BY <1>17, <3>3, <3>4 DEF Seen
    <3>6. QED
      BY <2>1, <3>5 DEF RootedInv
  <2>3. Unlinking(p_main[r]) => Unlinking(p_main[r])'
    BY <1>9, <1>10 DEF Unlinking
  <2>4. RootedInv(r)'
    <3>1. /\ m_ts'[p_main'[r]] <= m_last_write_committed_id'
          /\ \A b \in Versions(r)' : m_ts'[p_main'[r]] < m_ts'[b]
          /\ hist'[r] # <<>>
          /\ m_ts'[FreeCandidate(p_main[r])'] = Last(r)'.ver
      BY <1>9, <1>17, <1>18, <1>19, <2>1 DEF RootedInv
    <3>2. \A v \in LiveVersions', y \in Blocks :
            Seen(r, v, y)' => FreedAt(r, v)' \/ p_data'[y] = HistoryAt(r, v)'
      BY <1>9, <1>18, <2>2
    <3>3. \A b \in Versions(r)' : p_data'[b] = NULL => p_data'[p_main'[r]] # NULL \/ Unlinking(p_main[r])'
      BY <1>9, <1>17, <2>1, <2>3 DEF RootedInv
    <3>4. QED
      BY <1>9, <3>1, <3>2, <3>3 DEF RootedInv
  <2>5. QED
    BY <1>9, <2>1, <2>4 DEF RefInv
<1>21. Frame(t, {r})
  <2>1. ASSUME NEW s \in Refs, s # r PROVE SameRef(s)
    <3>1. ASSUME s \in Rooted, NEW b \in Chain(p_main[s]) PROVE p_next_version'[b] = p_next_version[b]
      <4>1. k \notin Chain(p_main[s])
        BY <1>1, <1>4, <2>1, <3>1, RefsApart DEF ChainOfRef
      <4>2. b \in Blocks
        BY <1>1, <3>1, ChainsOfRefs DEF ChainOfRef
      <4>3. QED
        BY <1>9, <3>1, <4>1, <4>2
    <3>2. QED
      BY <1>9, <3>1 DEF SameRef
  <2>2. SameLeftovers(t)
    BY <1>9, <1>12 DEF SameLeftovers
  <2>3. Alone(t, r)
    BY <1>3, CollectsAlone
  <2>4. QED
    BY <1>9, <1>10, <2>1, <2>2, <2>3 DEF Frame, Alone
<1>22. CallInv(t)'
  <2>1. IF call'[t].then = "sweep" THEN SweepCall(t)' ELSE WriterCall(t)'
    <3>1. UNCHANGED <<txvars, p_main, hist>> /\ call[t].op \notin {"none", "walk"}
      OBVIOUS
    <3>2. \A b : (\E i \in DOMAIN garbage'[t] : garbage'[t][i] = b) <=> (\E i \in DOMAIN garbage[t] : garbage[t][i] = b)
      BY <1>9
    <3>3. call'[t].op \notin {"ptr", "free"} /\ used' \subseteq used
      BY <1>9, <1>10
    <3>4. m_ts'[FreeCandidate(call[t].root)'] = m_ts[FreeCandidate(call[t].root)] /\ p_data'[call[t].root] = p_data[call[t].root]
      BY <1>9, <1>19
    <3>5. QED
      BY <1>10, <1>11, <3>1, <3>2, <3>3, <3>4, CollectGoesOn
  <2>2. Severed(t)'
    <3>1. ASSUME NEW b \in Versions(r)', m_ts[b] <= orv PROVE p_next_version'[b] = NULL
      <4>1. b \in Versions(r) /\ m_ts[b] = m_ts[k]
        BY <1>6, <1>8, <1>16, <3>1
      <4>2. b = k
        BY <1>4, <4>1 DEF ChainOfRef
      <4>3. QED
        BY <1>8, <1>9, <4>2
    <3>2. QED
      BY <1>3, <1>9, <1>10, <3>1 DEF Severed, Versions
  <2>3. IsRoot(call[t].root)'
    BY <1>3, <1>9, <1>10 DEF IsRoot, Rooted
  <2>4. CollectInv(t)'
    BY <1>10, <2>1, <2>2, <2>3 DEF CollectInv
  <2>5. QED
    BY <1>1, <1>10, <1>18, <2>4 DEF CallInv, Idle, NoCall
<1>23. ASSUME NEW u \in Txs, held[u] # NULL, held[u].ref = r PROVE HeldInv(u)'
  <2>1. HeldInv(u) /\ held'[u] = held[u] /\ r \in Rooted'
    BY <1>9 DEF PoolInv
  <2>2. held[u].block \in Versions(r) => held[u].block \in Versions(r)'
    BY <1>3, <1>6, <1>16, <1>23, KeepsBehind
  <2>3. /\ FreedEarlier(u, r)' <=> FreedEarlier(u, r)
        /\ \A b : IsLeftover(b)' <=> IsLeftover(b)
    BY <1>9, <1>12, <1>18 DEF FreedEarlier
  <2>4. QED
    BY <1>9, <1>17, <1>23, <2>1, <2>2, <2>3, HoldOn DEF HeldInv
<1>24. ASSUME NEW u \in Txs \ {t}, call[u].op = "walk", call[u].ref = r PROVE WalkInv(u)'
  <2>1. WalkInv(u) /\ call'[u] = call[u] /\ r \in Rooted' /\ p_main'[r] = p_main[r] /\ hist'[r] = hist[r]
    BY <1>9, <1>10, <1>24 DEF PoolInv, CallInv
  <2>2. call[u].at \in Versions(r) => call[u].at \in Versions(r)'
    BY <1>3, <1>6, <1>16, <1>24, KeepsBehind
  <2>3. \A b : IsLeftover(b)' <=> IsLeftover(b)
    BY <1>12
  <2>4. PICK a : a = call[u].at
    OBVIOUS
  <2>5. \/ a = NULL /\ \A b \in Versions(r)' : m_ts'[b] > m_txversion[u]
        \/ /\ a \in Versions(r)'
           /\ \A b \in Versions(r)' : m_ts'[b] <= m_txversion[u] => m_ts'[b] <= m_ts'[a]
        \/ /\ IsLeftover(a)' /\ m_ts'[a] <= m_txversion[u]
           /\ p_data'[a] # NULL /\ p_data'[a] = HistoryAt(r, m_txversion[u])
    BY <1>9, <1>17, <1>24, <2>1, <2>2, <2>3, <2>4 DEF WalkInv
  <2>6. QED
    BY <1>24, <2>1, <2>4, <2>5, WalkOn
<1>26. HistInv'
  BY <1>9, SameTx DEF PoolInv, HistInv
<1>27. \A i \in DOMAIN garbage'[t] : \A s \in Refs : p_main'[s] = garbage'[t][i] => FreedBy(t, s)'
  BY <1>9, <1>18 DEF PoolInv, GarbageInv, FreedBy
<1>28. /\ \A u \in Txs \ {t} : call[u].op = "walk" /\ call[u].ref \in {r} => WalkInv(u)'
       /\ \A u \in Txs : held[u] # NULL /\ held[u].ref \in {r} => HeldInv(u)'
       /\ held'[t] = held[t]
  BY <1>9, <1>23, <1>24
<1>29. QED
  <2>1. {r} \in SUBSET Refs
    BY DEF Rooted
  <2>2. QED
    BY <1>11, <1>13, <1>14, <1>20, <1>21, <1>22, <1>26, <1>27, <1>28, <2>1, PoolFrame

\* The first step of fdb_txpool_alloc_gc, cut or no cut, keeps the invariant.
LEMMA Severs ==
  ASSUME PoolInv, NEW t \in Txs, Sever(t)
  PROVE  PoolInv'
<1>1. CASE /\ YoungestAt(call[t].root, call[t].orv) # NULL
           /\ p_next_version[YoungestAt(call[t].root, call[t].orv)] # NULL
  BY <1>1, SeverCuts DEF Sever
<1>2. CASE ~(/\ YoungestAt(call[t].root, call[t].orv) # NULL
             /\ p_next_version[YoungestAt(call[t].root, call[t].orv)] # NULL)
  BY <1>2, SeverStays DEF Sever
<1>3. QED
  BY <1>1, <1>2

\* No link leads into S or out of it.
Closed(S) ==
  \A b \in Blocks : p_next_version[b] # NULL => (b \in S <=> p_next_version[b] \in S)

\* The heads in S are no heads any more.
HeadsWithout(S) ==
  \A b \in Blocks : /\ IsHead(b)' <=> (IsHead(b) /\ b \notin S)
                    /\ IsRoot(b)' => IsRoot(b)
                    /\ IsRoot(b) /\ b \notin S => IsRoot(b)'

\* Blocks go back to the pool together with what they are linked to.
LEMMA ReleaseLinks ==
  ASSUME ShapeInv, UNCHANGED txvars, NEW S \in SUBSET Blocks, Release(S),
         Closed(S), HeadsWithout(S)
  PROVE  /\ used' = used \ S
         /\ m_ts' \in [Blocks -> Nat] /\ p_data' \in [Blocks -> Nat \cup {NULL}]
         /\ p_next_version' \in [Blocks -> Blocks \cup {NULL}]
         /\ \A b \in Blocks : /\ m_ts'[b] = IF b \in S THEN 0 ELSE m_ts[b]
                              /\ p_data'[b] = IF b \in S THEN NULL ELSE p_data[b]
                              /\ p_next_version'[b] = IF b \in S THEN NULL ELSE p_next_version[b]
         /\ LinksInv'
<1> USE NullIsNoBlock
<1>1. /\ used' = used \ S
      /\ m_ts' \in [Blocks -> Nat] /\ p_data' \in [Blocks -> Nat \cup {NULL}]
      /\ p_next_version' \in [Blocks -> Blocks \cup {NULL}]
      /\ \A b \in Blocks : /\ m_ts'[b] = IF b \in S THEN 0 ELSE m_ts[b]
                           /\ p_data'[b] = IF b \in S THEN NULL ELSE p_data[b]
                           /\ p_next_version'[b] = IF b \in S THEN NULL ELSE p_next_version[b]
  BY DEF Release, ShapeInv, PoolTypeOK
<1>2. p_next_version \in [Blocks -> Blocks \cup {NULL}] /\ LinksInv /\ used \subseteq Blocks
  BY DEF ShapeInv, PoolTypeOK
<1>4. \A x \in Blocks : /\ IsHead(x)' <=> (IsHead(x) /\ x \notin S)
                        /\ IsRoot(x)' => IsRoot(x)
                        /\ IsRoot(x) /\ x \notin S => IsRoot(x)'
  BY Zenon DEF HeadsWithout
<1>3. LinksInv'
  <2>1. ASSUME NEW b \in Blocks, p_next_version'[b] # NULL
        PROVE  /\ b \in used' /\ p_next_version'[b] \in used'
               /\ ~IsHead(p_next_version[b])'
               /\ ~IsRoot(b)' => m_ts'[p_next_version'[b]] < m_ts'[b]
    <3>1. PICK n \in Blocks : n = p_next_version[b] /\ n = p_next_version'[b] /\ b \notin S
      <4>1. b \notin S /\ p_next_version'[b] = p_next_version[b] /\ p_next_version[b] # NULL
        BY <1>1, <2>1
      <4>2. p_next_version[b] \in Blocks
        BY <1>2, <4>1
      <4>3. QED
        BY <4>1, <4>2
    <3>2. n # NULL /\ n \notin S
      BY <2>1, <3>1 DEF Closed
    <3>3. b \in used /\ n \in used /\ ~IsHead(n) /\ (~IsRoot(b) => m_ts[n] < m_ts[b])
      BY <3>1, <3>2 DEF LinksInv, ShapeInv
    <3>4. ~IsHead(n)' /\ (~IsRoot(b)' => ~IsRoot(b))
      BY <1>4, <3>1, <3>2, <3>3
    <3>5. ~IsHead(p_next_version[b])'
      BY <3>1, <3>4 DEF IsHead, IsRoot, IsEntry, IsDropped
    <3>6. QED
      BY <1>1, <3>1, <3>2, <3>3, <3>4, <3>5
  <2>2. \A a, b \in Blocks :
          p_next_version'[a] # NULL /\ p_next_version'[a] = p_next_version'[b] => a = b
    BY <1>1, <1>2 DEF LinksInv
  <2>3. ASSUME NEW b \in used'
        PROVE  InTime(m_ts[b])' /\ (IsHead(b)' \/ \E a \in Blocks : p_next_version'[a] = b)
    <3>1. b \in used /\ b \notin S /\ b \in Blocks /\ m_ts'[b] = m_ts[b]
      BY <1>1, <1>2
    <3>2. InTime(m_ts[b])'
      BY <1>2, <3>1, SameTx DEF LinksInv
    <3>3. CASE IsHead(b)
      <4>1. IsHead(b)'
        BY <1>4, <3>1, <3>3
      <4>2. QED
        BY <3>2, <4>1
    <3>4. CASE \E a \in Blocks : p_next_version[a] = b
      BY <1>1, <3>1, <3>2, <3>4, <1>2 DEF Closed
    <3>5. QED
      BY <1>2, <3>1, <3>3, <3>4 DEF LinksInv
  <2>4. QED
    BY <2>1, <2>2, <2>3 DEF LinksInv
<1>5. QED
  BY <1>1, <1>3

\* The versions that a collection has cut off belong to no reference.
LEMMA DroppedApart ==
  ASSUME ShapeInv, NEW a \in Blocks, IsHead(a)
  PROVE  /\ Chain(a) \in SUBSET Blocks /\ a \in Chain(a)
         /\ Closed(Chain(a))
         /\ \A b \in Chain(a) : IsHead(b) => b = a
         /\ \A b \in Blocks : IsHead(b) /\ b # a => Chain(b) \cap Chain(a) = {}
<1> USE NullIsNoBlock
<1>1. Descends(p_next_version) /\ LinksOn(p_next_version)
  BY LinksDescend DEF Descends
<1>2. \A x, y \in Blocks : p_next_version[x] # NULL /\ p_next_version[x] = p_next_version[y] => x = y
  BY DEF ShapeInv, LinksInv
<1>3. \A x \in Blocks, b \in Blocks : IsHead(b) => p_next_version[x] # b
  BY DEF ShapeInv, LinksInv
<1>4. /\ Chain(a) \in SUBSET Blocks /\ a \in Chain(a)
      /\ \A x \in Chain(a) : p_next_version[x] \in Chain(a) \cup {NULL}
  BY <1>1, ChainClosed, ChainUnfolds DEF Chain
<1>5. ASSUME NEW x \in Chain(a), x # a PROVE \E y \in Chain(a) : p_next_version[y] = x
  BY <1>1, <1>5, ChainPredecessor DEF Chain
<1>6. \A b \in Chain(a) : IsHead(b) => b = a
  BY <1>3, <1>4, <1>5
<1>7. ASSUME NEW b \in Blocks, p_next_version[b] # NULL, p_next_version[b] \in Chain(a) PROVE b \in Chain(a)
  <2>1. p_next_version[b] # a
    BY <1>3
  <2>2. PICK y \in Chain(a) : p_next_version[y] = p_next_version[b]
    BY <1>5, <1>7, <2>1
  <2>3. QED
    BY <1>2, <1>4, <1>7, <2>2
<1>8. ASSUME NEW b \in Blocks, IsHead(b), b # a PROVE Chain(b) \cap Chain(a) = {}
  BY <1>1, <1>2, <1>3, <1>8, ChainsApart DEF Chain
<1>9. QED
  BY <1>4, <1>6, <1>7, <1>8 DEF Closed

\* The older versions go back to the pool: nobody is on them and nothing leads to them.
LEMMA Drops ==
  ASSUME PoolInv, NEW t \in Txs, Drop(t)
  PROVE  PoolInv'
<1> USE NullIsNoBlock
<1>1. /\ PoolTypeOK /\ ShapeInv /\ TxInv /\ CallInv(t) /\ CollectRest(t) /\ CollectInv(t)
      /\ call[t].op = "drop"
  BY InvShape, CollectParts DEF PoolInv, CallInv, Drop
<1>2. PICK a \in Blocks : a = call[t].at
  BY <1>1, CallFields DEF CollectRest
<1>3. IsDropped(a) /\ IsHead(a) /\ ~IsRoot(a) /\ ~IsEntry(a)
  <2>1. IsDropped(a)
    BY <1>1, <1>2 DEF IsDropped
  <2>2. QED
    BY <1>1, <2>1 DEF IsHead, ShapeInv, HeadsInv
<1>4. PICK S \in SUBSET Blocks : S = Chain(a)
  BY <1>1, <1>3, DroppedApart
<1>5. /\ a \in S /\ Closed(S)
      /\ \A b \in S : IsHead(b) => b = a
      /\ \A b \in Blocks : IsHead(b) /\ b # a => Chain(b) \cap S = {}
  <2>1. /\ a \in Chain(a) /\ Closed(Chain(a))
        /\ \A b \in Chain(a) : IsHead(b) => b = a
        /\ \A b \in Blocks : IsHead(b) /\ b # a => Chain(b) \cap Chain(a) = {}
    BY <1>1, <1>3, DroppedApart
  <2>2. QED
    BY <1>4, <2>1 DEF Closed
<1>6. /\ Release(S) /\ UNCHANGED <<p_main, garbage, held, hist, txvars>>
      /\ call' = [call EXCEPT ![t].op = "copy", ![t].at = NULL]
      /\ p_main' = p_main /\ garbage' = garbage /\ held' = held /\ hist' = hist
  BY <1>2, <1>4 DEF Drop
<1>7. /\ call' \in [Txs -> Calls] /\ call'[t].op = "copy" /\ call'[t].at = NULL
      /\ call'[t].then = call[t].then /\ call'[t].ref = call[t].ref
      /\ call'[t].root = call[t].root /\ call'[t].orv = call[t].orv
      /\ \A u \in Txs \ {t} : call'[u] = call[u] /\ held'[u] = held[u]
  <2>1. call' = [call EXCEPT ![t] = [call[t] EXCEPT !.op = "copy", !.at = NULL]]
    BY <1>1, <1>6 DEF PoolTypeOK
  <2>2. [call[t] EXCEPT !.op = "copy", !.at = NULL] \in Calls
    BY <1>1, CallFields DEF Calls
  <2>3. QED
    BY <1>1, <1>6, <2>1, <2>2, CallFields DEF PoolTypeOK, Calls
<1>8. \A b : /\ IsRoot(b)' <=> IsRoot(b)
             /\ IsEntry(b)' <=> IsEntry(b)
             /\ IsLeftover(b)' <=> IsLeftover(b)
             /\ IsDropped(b)' <=> IsDropped(b) /\ b # a
             /\ IsHead(b)' <=> IsHead(b) /\ b # a
  <2>1. \A b : (IsRoot(b)' <=> IsRoot(b)) /\ (IsEntry(b)' <=> IsEntry(b))
    BY <1>6 DEF IsRoot, IsEntry
  <2>2. \A u \in Txs \ {t} : call[u].op = "drop" => call[u].at # a
    BY <1>1, <1>2 DEF ShapeInv, HeadsInv
  <2>3. ASSUME NEW b PROVE IsDropped(b)' <=> (IsDropped(b) /\ b # a)
    <3>1. ASSUME NEW u \in Txs PROVE (call'[u].op = "drop" /\ call'[u].at = b) <=> (u # t /\ call[u].op = "drop" /\ call[u].at = b)
      BY <1>7
    <3>2. QED
      BY <1>2, <2>2, <3>1 DEF IsDropped
  <2>4. QED
    BY <1>3, <2>1, <2>3 DEF IsHead, IsLeftover
<1>9. /\ used' = used \ S
      /\ m_ts' \in [Blocks -> Nat] /\ p_data' \in [Blocks -> Nat \cup {NULL}]
      /\ p_next_version' \in [Blocks -> Blocks \cup {NULL}]
      /\ \A b \in Blocks : /\ m_ts'[b] = IF b \in S THEN 0 ELSE m_ts[b]
                           /\ p_data'[b] = IF b \in S THEN NULL ELSE p_data[b]
                           /\ p_next_version'[b] = IF b \in S THEN NULL ELSE p_next_version[b]
      /\ LinksInv'
  <2>1. HeadsWithout(S)
    BY <1>5, <1>8 DEF HeadsWithout
  <2>2. QED
    BY <1>1, <1>5, <1>6, <2>1, ReleaseLinks
<1>10. PoolTypeOK'
  BY <1>1, <1>6, <1>7, <1>9 DEF PoolTypeOK
<1>11. HeadsInv'
  <2>1. \A b \in Blocks : /\ IsHead(b)' => b \in used'
                          /\ IsLeftover(b)' => p_next_version'[b] = NULL
                          /\ IsDropped(b)' => ~IsRoot(b)' /\ ~IsEntry(b)'
    BY <1>1, <1>5, <1>8, <1>9 DEF ShapeInv, HeadsInv
  <2>2. \A u, w \in Txs :
          call'[u].op = "drop" /\ call'[w].op = "drop" /\ call'[u].at = call'[w].at => u = w
    BY <1>1, <1>7 DEF ShapeInv, HeadsInv
  <2>3. /\ \A q, s \in Rooted' : p_main'[q] = p_main'[s] => q = s
        /\ \A u, w \in Txs : \A i \in DOMAIN garbage'[u], j \in DOMAIN garbage'[w] :
             garbage'[u][i] = garbage'[w][j] => u = w /\ i = j
    BY <1>1, <1>6 DEF ShapeInv, HeadsInv, Rooted
  <2>4. QED
    BY <2>1, <2>2, <2>3 DEF HeadsInv
<1>12. ShapeInv' /\ HistInv'
  BY <1>1, <1>6, <1>9, <1>10, <1>11, TxInvNext, SameTx DEF ShapeInv, PoolInv, HistInv
<1>13. ASSUME NEW s \in Refs PROVE SameRef(s)
  <2>1. ASSUME s \in Rooted, NEW b \in Chain(p_main[s])
        PROVE  m_ts'[b] = m_ts[b] /\ p_data'[b] = p_data[b] /\ p_next_version'[b] = p_next_version[b]
    <3>1. ChainOfRef(s)
      BY <1>1, <2>1, ChainsOfRefs
    <3>2. IsHead(p_main[s]) /\ p_main[s] # a /\ p_main[s] \in Blocks /\ b \in Blocks
      BY <1>3, <2>1, <3>1 DEF ChainOfRef, IsHead
    <3>3. b \notin S
      BY <1>5, <2>1, <3>2
    <3>4. QED
      BY <1>9, <3>2, <3>3
  <2>2. QED
    BY <1>6, <2>1 DEF SameRef
<1>14. Frame(t, {})
  <2>1. SameLeftovers(t)
    BY <1>3, <1>5, <1>8, <1>9 DEF SameLeftovers, IsLeftover, IsHead
  <2>2. QED
    BY <1>6, <1>7, <1>9, <1>13, <2>1 DEF Frame
<1>15. PICK r \in Rooted : call[t].root = p_main[r]
  BY <1>1, CollectRoot DEF CollectRest, IsLeftover
<1>16. SameRef(r) /\ SameChain(call[t].root) /\ call[t].root \in Blocks
  <2>1. SameRef(r)
    BY <1>13 DEF Rooted
  <2>2. SameChain(p_main[r])
    BY <1>1, <1>12, <2>1, SameRefChain
  <2>3. QED
    BY <1>6, <1>7, <1>15, <2>1, <2>2 DEF SameChain, Chain, IsRoot
<1>17. CallInv(t)'
  <2>1. IF call'[t].then = "sweep" THEN SweepCall(t)' ELSE WriterCall(t)'
    <3>1. UNCHANGED <<txvars, p_main, hist>> /\ call[t].op \notin {"none", "walk"}
      BY <1>1, <1>6
    <3>2. \A b : (\E i \in DOMAIN garbage'[t] : garbage'[t][i] = b) <=> (\E i \in DOMAIN garbage[t] : garbage[t][i] = b)
      BY <1>6
    <3>3. call'[t].op \notin {"ptr", "free"} /\ used' \subseteq used
      BY <1>7, <1>9
    <3>4. /\ m_ts'[FreeCandidate(call[t].root)'] = m_ts[FreeCandidate(call[t].root)]
          /\ p_data'[call[t].root] = p_data[call[t].root]
      <4>1. p_next_version'[call[t].root] = p_next_version[call[t].root]
        BY <1>16 DEF SameChain
      <4>2. FreeCandidate(call[t].root)' = FreeCandidate(call[t].root)
        BY <1>7, <4>1 DEF FreeCandidate
      <4>3. QED
        BY <1>16, <4>2 DEF SameChain, FreeCandidate
    <3>5. QED
      BY <1>7, <1>10, <3>1, <3>2, <3>3, <3>4, CollectGoesOn
  <2>2. Severed(t)'
    <3>1. Chain(p_next_version[call[t].root])' = Chain(p_next_version[call[t].root])
      <4>1. PICK b \in Blocks : b = call[t].root /\ b = call'[t].root
        BY <1>7, <1>16
      <4>2. Chain(p_next_version[b])' = Chain(p_next_version[b])
        BY <1>16, <4>1 DEF SameChain, Chain
      <4>3. QED
        BY <4>1, <4>2 DEF Chain
    <3>2. Severed(t)
      BY <1>1 DEF CollectRest
    <3>3. QED
      BY <1>7, <1>16, <3>1, <3>2 DEF Severed, SameChain
  <2>3. CollectInv(t)'
    BY <1>7, <2>1, <2>2 DEF CollectInv
  <2>4. QED
    BY <1>1, <1>6, <1>7, <2>3 DEF CallInv, Idle, NoCall, txvars
<1>18. \A i \in DOMAIN garbage'[t] : \A s \in Refs : p_main'[s] = garbage'[t][i] => FreedBy(t, s)'
  <2>1. \A s : FreedBy(t, s)' <=> FreedBy(t, s)
    BY <1>6, SameTx DEF FreedBy, Last, txvars
  <2>2. QED
    BY <1>6, <2>1 DEF PoolInv, GarbageInv
<1>19. QED
  BY <1>1, <1>6, <1>9, <1>10, <1>11, <1>12, <1>14, <1>17, <1>18, PoolFrame

\* A step to the next label of a collection changes nothing else of a call.
LEMMA GotoFields ==
  ASSUME PoolTypeOK, NEW t \in Txs,
         NEW op \in {"none", "walk", "sever", "drop", "copy", "unlink", "reclaim", "ptr", "free"},
         Goto(t, op)
  PROVE  /\ call' \in [Txs -> Calls] /\ call'[t].op = op
         /\ call'[t].then = call[t].then /\ call'[t].ref = call[t].ref
         /\ call'[t].root = call[t].root /\ call'[t].orv = call[t].orv /\ call'[t].at = call[t].at
         /\ \A u \in Txs \ {t} : call'[u] = call[u]
<1>1. call' = [call EXCEPT ![t] = [call[t] EXCEPT !.op = op]]
  BY DEF Goto, PoolTypeOK
<1>2. [call[t] EXCEPT !.op = op] \in Calls
  BY CallFields DEF Calls
<1>3. QED
  BY <1>1, <1>2, CallFields DEF PoolTypeOK, Calls

\* The writer sees the last store to a reference.
LEMMA WriterSeesLast ==
  ASSUME PoolInv, NEW t \in Txs, IsWriting(t), NEW r \in Rooted
  PROVE  /\ Last(r).ver \in Nat /\ Last(r).ver <= m_txversion[t] /\ m_txversion[t] \in Nat
         /\ HistoryAt(r, m_txversion[t]) = Last(r).val
         /\ FreedAt(r, m_txversion[t]) <=> Last(r).val = NULL
         /\ ~FreedAt(r, m_txversion[t]) => p_data[FreeCandidate(p_main[r])] # NULL
         /\ \A i \in DOMAIN hist[r] : hist[r][i].ver <= m_txversion[t]
<1>1. PoolTypeOK /\ TxInv /\ HistInv /\ r \in Refs /\ RootedInv(r)
  BY DEF PoolInv, RefInv, Rooted
<1>2. /\ m_txversion[t] \in Nat /\ m_last_write_committed_id \in Nat
      /\ m_last_write_committed_id < m_txversion[t] /\ m_txversion[t] \in LiveVersions
      /\ \A v : InTime(v) => v <= m_last_write_committed_id \/ v = m_txversion[t]
  BY <1>1, WriterBounds
<1>3. /\ DOMAIN hist[r] = 1..Len(hist[r])
      /\ \A i \in DOMAIN hist[r] : hist[r][i].ver \in Nat
      /\ Len(hist[r]) \in DOMAIN hist[r]
  BY <1>1, HistoryTypes DEF RootedInv
<1>4. \A i \in DOMAIN hist[r] : hist[r][i].ver <= m_txversion[t]
  BY <1>1, <1>2, <1>3 DEF HistInv
<1>5. Last(r).ver \in Nat /\ Last(r).ver <= m_txversion[t]
  BY <1>3, <1>4 DEF Last
<1>6. /\ HistoryAt(r, m_txversion[t]) = Last(r).val
      /\ FreedAt(r, m_txversion[t]) <=> Last(r).val = NULL
  BY <1>1, <1>2, <1>5, HistoryTop DEF RootedInv
<1>7. ASSUME ~FreedAt(r, m_txversion[t]) PROVE p_data[FreeCandidate(p_main[r])] # NULL
  <2>1. FreeCandidate(p_main[r]) \in Blocks /\ Seen(r, m_txversion[t], FreeCandidate(p_main[r]))
    BY WriterSeesTop
  <2>2. p_data[FreeCandidate(p_main[r])] = HistoryAt(r, m_txversion[t])
    BY <1>1, <1>2, <1>7, <2>1 DEF RootedInv
  <2>3. QED
    BY <1>6, <1>7, <2>2
<1>8. QED
  BY <1>2, <1>4, <1>5, <1>6, <1>7

\* A step that adds versions too young for the readers of r, or none, leaves them where they are.
Reading(u) == pc[u] = "running" /\ ~IsWriter(u)

\* If the versions of r stay where they are and new ones are too young for its readers, those
\* find what they look for and their pointers stay good.
LEMMA ReadersGoOn ==
  ASSUME PoolInv, UNCHANGED txvars, NEW r \in Rooted, r \in Rooted', p_main'[r] = p_main[r],
         \A b \in Versions(r) : b \in Versions(r)' /\ m_ts'[b] = m_ts[b],
         \A b \in Versions(r)' : b \notin Versions(r) =>
           \A u \in Txs : Reading(u) => ~(m_ts'[b] <= m_txversion[u]) /\ m_ts'[b] > m_txversion[u],
         \A u \in Txs : Reading(u) =>
           /\ HistoryAt(r, m_txversion[u])' = HistoryAt(r, m_txversion[u])
           /\ FreedAt(r, m_txversion[u])' <=> FreedAt(r, m_txversion[u]),
         \A b \in Blocks : IsLeftover(b) /\ p_data[b] # NULL =>
           IsLeftover(b)' /\ m_ts'[b] = m_ts[b] /\ p_data'[b] = p_data[b]
  PROVE  /\ \A u \in Txs : call[u].op = "walk" /\ call[u].ref = r /\ call'[u] = call[u] => WalkInv(u)'
         /\ \A u \in Txs : Reading(u) /\ held[u] # NULL /\ held[u].ref = r /\ held'[u] = held[u]
                             => HeldInv(u)'
<1>0. ShapeInv
  BY InvShape
<1>1. ASSUME NEW u \in Txs, call[u].op = "walk", call[u].ref = r, call'[u] = call[u]
      PROVE  WalkInv(u)'
  <2>1. WalkInv(u)
    BY <1>1 DEF PoolInv, CallInv
  <2>2. PICK a : a = call[u].at
    OBVIOUS
  <2>3. /\ call'[u].ref = r /\ call'[u].at = a /\ call'[u].root = p_main[r] /\ Reading(u)
        /\ pc'[u] = "running" /\ m_txversion' = m_txversion /\ m_tx_type' = m_tx_type
        /\ ~FreedAt(r, m_txversion[u])
    BY <1>1, <2>1, <2>2 DEF WalkInv, txvars, Reading
  <2>4. /\ FreedAt(call[u].ref, m_txversion[u])' <=> FreedAt(r, m_txversion[u])
        /\ HistoryAt(call[u].ref, m_txversion[u])' = HistoryAt(r, m_txversion[u])
        /\ Versions(call[u].ref)' = Versions(r)'
        /\ IsLeftover(call[u].at)' <=> IsLeftover(a)'
    <3>1. /\ FreedAt(call[u].ref, m_txversion[u])' <=> FreedAt(r, m_txversion[u])'
          /\ HistoryAt(call[u].ref, m_txversion[u])' = HistoryAt(r, m_txversion[u])'
      BY <2>3 DEF FreedAt, HistoryAt
    <3>2. /\ Versions(call[u].ref)' = Versions(r)'
          /\ IsLeftover(call[u].at)' <=> IsLeftover(a)'
      BY <2>3 DEF Versions, Chain, IsLeftover, IsEntry, IsRoot
    <3>3. QED
      BY <2>3, <3>1, <3>2
  <2>5. CASE a = NULL /\ \A b \in Versions(r) : m_ts[b] > m_txversion[u]
    <3>1. \A b \in Versions(r)' : m_ts'[b] > m_txversion[u]
      BY <2>3, <2>5
    <3>2. QED
      BY <2>3, <2>4, <2>5, <3>1 DEF WalkInv, IsWriter, Reading
  <2>6. CASE a \in Versions(r) /\ \A b \in Versions(r) : m_ts[b] <= m_txversion[u] => m_ts[b] <= m_ts[a]
    <3>1. a \in Versions(r)' /\ \A b \in Versions(r)' : m_ts'[b] <= m_txversion[u] => m_ts'[b] <= m_ts'[a]
      BY <2>3, <2>6
    <3>2. QED
      BY <2>3, <2>4, <3>1 DEF WalkInv, IsWriter, Reading
  <2>7. CASE /\ IsLeftover(a) /\ m_ts[a] <= m_txversion[u]
             /\ p_data[a] # NULL /\ p_data[a] = HistoryAt(r, m_txversion[u])
    <3>1. a \in Blocks
      BY <1>0, <2>7, SweepRoot DEF IsLeftover
    <3>2. IsLeftover(a)' /\ m_ts'[a] = m_ts[a] /\ p_data'[a] = p_data[a]
      BY <2>7, <3>1
    <3>3. QED
      BY <2>3, <2>4, <2>7, <3>2 DEF WalkInv, IsWriter, Reading
  <2>8. QED
    BY <1>1, <2>1, <2>2, <2>5, <2>6, <2>7 DEF WalkInv
<1>2. ASSUME NEW u \in Txs, Reading(u), held[u] # NULL, held[u].ref = r, held'[u] = held[u]
      PROVE  HeldInv(u)'
  <2>1. HeldInv(u)
    BY DEF PoolInv
  <2>2. PICK b : b = held[u].block
    OBVIOUS
  <2>3. /\ held'[u] # NULL /\ pc[u] = "running" /\ held'[u].ref = r /\ held'[u].block = b /\ ~IsWriter(u)
        /\ ~FreedEarlier(u, r)
    BY <1>2, <2>1, <2>2 DEF HeldInv, Reading
  <2>4. ~FreedEarlier(u, r)'
    <3>1. ~FreedAt(r, m_txversion[u])
      BY <2>3 DEF FreedEarlier
    <3>2. ~FreedAt(r, m_txversion[u])'
      BY <1>2, <3>1
    <3>3. QED
      BY <3>2 DEF FreedEarlier
  <2>5. \/ b = p_main'[r]
        \/ /\ b \in Versions(r)'
           /\ \A x \in Versions(r)' : m_ts'[x] <= m_txversion[u] => m_ts'[x] <= m_ts'[b]
        \/ IsLeftover(b)' /\ p_data'[b] # NULL
    <3>1. CASE b = p_main[r]
      BY <3>1
    <3>2. CASE b \in Versions(r) /\ \A x \in Versions(r) : m_ts[x] <= m_txversion[u] => m_ts[x] <= m_ts[b]
      <4>1. \A x \in Versions(r)' : m_ts'[x] <= m_txversion[u] => m_ts'[x] <= m_ts'[b]
        BY <1>2, <3>2
      <4>2. QED
        BY <3>2, <4>1
    <3>3. CASE IsLeftover(b) /\ p_data[b] # NULL
      <4>1. b \in Blocks
        BY <1>0, <3>3, SweepRoot DEF IsLeftover
      <4>2. QED
        BY <3>3, <4>1
    <3>4. QED
      BY <1>2, <2>1, <2>2, <2>3, <3>1, <3>2, <3>3 DEF HeldInv
  <2>6. QED
    BY <2>3, <2>4, <2>5, HoldOn
<1>3. QED
  BY <1>1, <1>2

\* The collection goes on with a step that stores nothing.
LEMMA CopySkips ==
  ASSUME PoolInv, NEW t \in Txs, call[t].op = "copy", ~Collapsible(call[t].root, call[t].orv),
         Goto(t, "reclaim"),
         UNCHANGED <<p_main, m_ts, p_data, p_next_version, used, garbage, held, hist, txvars>>
  PROVE  PoolInv'
<1> USE NullIsNoBlock
<1>1. PoolTypeOK /\ ShapeInv /\ CallInv(t) /\ HeldInv(t) /\ CollectRest(t) /\ CollectInv(t)
  BY InvShape, CollectParts DEF PoolInv, CallInv
<1>2. /\ call' \in [Txs -> Calls] /\ call'[t].op = "reclaim" /\ call'[t].then = call[t].then
      /\ call'[t].ref = call[t].ref /\ call'[t].root = call[t].root /\ call'[t].at = call[t].at
      /\ call'[t].orv = call[t].orv
      /\ \A u \in Txs \ {t} : call'[u] = call[u] /\ held'[u] = held[u]
  BY <1>1, GotoFields
<1>3. /\ UNCHANGED blocks /\ p_main' = p_main /\ m_ts' = m_ts /\ p_data' = p_data
      /\ p_next_version' = p_next_version /\ garbage' = garbage /\ used' = used
  BY DEF blocks
<1>4. PoolTypeOK'
  BY <1>1, <1>2, <1>3 DEF PoolTypeOK
<1>5. IF call'[t].then = "sweep" THEN SweepCall(t)' ELSE WriterCall(t)'
  <2>1. FreeCandidate(call[t].root)' = FreeCandidate(call[t].root)
    BY <1>2, <1>3 DEF FreeCandidate
  <2>2. UNCHANGED <<txvars, p_main, hist>> /\ call[t].op \notin {"none", "walk"}
    OBVIOUS
  <2>3. \A b : (\E i \in DOMAIN garbage'[t] : garbage'[t][i] = b) <=> (\E i \in DOMAIN garbage[t] : garbage[t][i] = b)
    BY <1>3
  <2>4. /\ m_ts'[FreeCandidate(call[t].root)'] = m_ts[FreeCandidate(call[t].root)]
        /\ p_data'[call[t].root] = p_data[call[t].root] /\ used' \subseteq used
    BY <1>3, <2>1
  <2>5. call'[t].op \notin {"ptr", "free"}
    BY <1>2
  <2>6. QED
    BY <1>2, <1>4, <2>2, <2>3, <2>4, <2>5, CollectGoesOn, SMTT(30)
<1>6. p_next_version[call[t].root] # NULL => m_ts[p_next_version[call[t].root]] > call[t].orv
  <2> SUFFICES ASSUME p_next_version[call[t].root] # NULL
               PROVE  m_ts[p_next_version[call[t].root]] > call[t].orv
    OBVIOUS
  <2>1. call[t].root \in Blocks /\ call[t].orv \in Nat
    BY <1>1, CollectRoot, CallFields
  <2>2. PICK y \in Blocks : y = p_next_version[call[t].root]
    BY <1>1, <2>1 DEF PoolTypeOK
  <2>3. y \in Chain(y)
    BY <1>1, ChainUnfolds DEF Chain, LinksOn, PoolTypeOK
  <2>4. m_ts[y] <= call[t].orv => p_next_version[y] = NULL
    BY <1>1, <2>2, <2>3 DEF CollectRest, Severed
  <2>5. ~(m_ts[y] <= call[t].orv)
    BY <2>2, <2>4 DEF Collapsible
  <2>6. m_ts[y] \in Nat
    BY <1>1 DEF PoolTypeOK
  <2>7. QED
    BY <2>1, <2>2, <2>5, <2>6
<1>7. CollectInv(t)'
  BY <1>1, <1>2, <1>3, <1>5, <1>6 DEF CollectInv, CollectRest
<1>8. CallInv(t)'
  BY <1>1, <1>2, <1>7 DEF CallInv, txvars, Idle, NoCall
<1>9. HeldInv(t)'
  BY <1>1, <1>3, SameHeld
<1>10. QED
  BY <1>2, <1>3, <1>4, <1>8, <1>9, CallStep

\* A chain that collapses has one version.
LEMMA OneVersion ==
  ASSUME ShapeInv, NEW r \in Rooted, NEW y \in Blocks, y = p_next_version[p_main[r]],
         p_next_version[y] = NULL
  PROVE  Versions(r) = {y} /\ FreeCandidate(p_main[r]) = y
<1>1. LinksOn(p_next_version)
  BY DEF ShapeInv, PoolTypeOK, LinksOn
<1>2. Chain(y) = {y} \cup Chain(NULL) /\ Chain(NULL) = {}
  BY <1>1, ChainUnfolds DEF Chain
<1>3. QED
  BY <1>2, NullIsNoBlock DEF Versions, FreeCandidate

\* The root takes the data of the version that is about to leave the chain.
LEMMA CopyMoves ==
  ASSUME PoolInv, NEW t \in Txs, call[t].op = "copy", Collapsible(call[t].root, call[t].orv),
         p_data' = [p_data EXCEPT ![call[t].root] = p_data[p_next_version[call[t].root]]],
         Goto(t, "unlink"),
         UNCHANGED <<p_main, m_ts, p_next_version, used, garbage, held, hist, txvars>>
  PROVE  PoolInv'
<1> USE NullIsNoBlock
<1>1. PoolTypeOK /\ ShapeInv /\ TxInv /\ CallInv(t) /\ HeldInv(t) /\ CollectRest(t) /\ CollectInv(t)
  BY InvShape, CollectParts DEF PoolInv, CallInv
<1>2. PICK r \in Rooted : call[t].root = p_main[r]
  BY CollectRoot DEF Collapsible
<1>3. ChainOfRef(r) /\ call[t].orv \in Nat /\ r \in Refs /\ RootedInv(r)
  BY <1>1, ChainsOfRefs, CallFields DEF PoolInv, RefInv, Rooted
<1>4. PICK root \in Blocks : root = p_main[r] /\ root = call[t].root
  BY <1>2, <1>3 DEF ChainOfRef
<1>5. PICK y \in Blocks : y = p_next_version[root] /\ p_next_version[y] = NULL /\ m_ts[y] <= call[t].orv
  BY <1>1, <1>4 DEF Collapsible, PoolTypeOK
<1>6. Versions(r) = {y} /\ FreeCandidate(root) = y /\ y # root
  <2>1. y = p_next_version[p_main[r]]
    BY <1>4, <1>5
  <2>2. Versions(r) = {y} /\ FreeCandidate(p_main[r]) = y
    BY <1>1, <1>5, <2>1, OneVersion
  <2>3. QED
    BY <1>3, <1>4, <2>2 DEF ChainOfRef
<1>7. /\ call' \in [Txs -> Calls] /\ call'[t].op = "unlink" /\ call'[t].then = call[t].then
      /\ call'[t].ref = call[t].ref /\ call'[t].root = root /\ call'[t].at = call[t].at
      /\ call'[t].orv = call[t].orv
      /\ \A u \in Txs \ {t} : call'[u] = call[u] /\ held'[u] = held[u]
  BY <1>1, <1>4, GotoFields
<1>8. /\ p_main' = p_main /\ m_ts' = m_ts /\ p_next_version' = p_next_version /\ garbage' = garbage
      /\ used' = used /\ held' = held /\ hist' = hist /\ Rooted' = Rooted
      /\ p_data' = [p_data EXCEPT ![root] = p_data[y]]
      /\ \A b \in Blocks : p_data'[b] = IF b = root THEN p_data[y] ELSE p_data[b]
  BY <1>1, <1>4, <1>5 DEF Rooted, PoolTypeOK
<1>9. PoolTypeOK'
  <2>1. p_data' \in [Blocks -> Nat \cup {NULL}]
    <3>1. p_data \in [Blocks -> Nat \cup {NULL}] /\ p_data[y] \in Nat \cup {NULL}
      BY <1>1 DEF PoolTypeOK
    <3>2. QED
      BY <1>8, <3>1
  <2>2. QED
    BY <1>1, <1>7, <1>8, <2>1 DEF PoolTypeOK
<1>10. /\ \A b : /\ IsRoot(b)' <=> IsRoot(b)
                 /\ IsEntry(b)' <=> IsEntry(b)
                 /\ IsLeftover(b)' <=> IsLeftover(b)
       /\ LinksInv' /\ HeadsInv'
  BY <1>7, <1>8, SameHeads, SameShape
<1>11. ShapeInv' /\ HistInv'
  BY <1>1, <1>8, <1>9, <1>10, TxInvNext, SameTx DEF ShapeInv, PoolInv, HistInv
<1>12. /\ LiveVersions' = LiveVersions /\ m_last_write_committed_id' = m_last_write_committed_id
       /\ pc' = pc /\ m_txversion' = m_txversion /\ m_ortxversion' = m_ortxversion
       /\ \A u : (IsWriting(u)' <=> IsWriting(u)) /\ (IsWriter(u)' <=> IsWriter(u))
       /\ \A s, v : HistoryAt(s, v)' = HistoryAt(s, v) /\ (FreedAt(s, v)' <=> FreedAt(s, v))
       /\ \A s : Last(s)' = Last(s)
       /\ LiveVersions \subseteq Nat
  BY <1>1, <1>8, SameTx, LiveNat DEF txvars, HistoryAt, FreedAt, Last
<1>13. /\ Versions(r)' = Versions(r) /\ FreeCandidate(p_main[r])' = FreeCandidate(p_main[r])
       /\ \A v, x : Seen(r, v, x)' <=> Seen(r, v, x)
       /\ FreeCandidate(call[t].root)' = y
  BY <1>5, <1>6, <1>7, <1>8 DEF Versions, Chain, FreeCandidate, Seen
<1>14. RefInv(r)'
  <2>1. ASSUME NEW v \in LiveVersions, NEW x \in Blocks, Seen(r, v, x)
        PROVE  FreedAt(r, v) \/ p_data'[x] = HistoryAt(r, v)
    <3>1. CASE x = y
      BY <1>3, <1>6, <1>8, <2>1, <3>1 DEF RootedInv
    <3>2. CASE x = root
      <4>1. m_ts[y] > v
        BY <1>6, <2>1, <3>2 DEF Seen
      <4>2. v \in Nat /\ m_ts[y] \in Nat
        BY <1>1, <1>12 DEF PoolTypeOK
      <4>3. ~(call[t].orv <= v)
        BY <1>3, <1>5, <4>1, <4>2
      <4>4. QED
        BY <1>2, <4>3, CollectsSafely
    <3>3. QED
      BY <1>4, <1>6, <2>1, <3>1, <3>2 DEF Seen
  <2>2. Unlinking(p_main[r])'
    BY <1>4, <1>7, <1>8 DEF Unlinking
  <2>3. RootedInv(r)'
    <3>1. /\ m_ts'[p_main'[r]] <= m_last_write_committed_id'
          /\ \A b \in Versions(r)' : m_ts'[p_main'[r]] < m_ts'[b]
          /\ hist'[r] # <<>>
          /\ m_ts'[FreeCandidate(p_main[r])'] = Last(r)'.ver
      BY <1>3, <1>8, <1>12, <1>13 DEF RootedInv
    <3>2. \A v \in LiveVersions', x \in Blocks :
            Seen(r, v, x)' => FreedAt(r, v)' \/ p_data'[x] = HistoryAt(r, v)'
      BY <1>12, <1>13, <2>1
    <3>3. QED
      BY <2>2, <3>1, <3>2 DEF RootedInv
  <2>4. QED
    BY <1>4, <1>8, <2>3 DEF RefInv
<1>15. Frame(t, {r})
  <2>1. ASSUME NEW s \in Refs, s # r PROVE SameRef(s)
    <3>1. ASSUME s \in Rooted, NEW b \in Chain(p_main[s]) PROVE p_data'[b] = p_data[b]
      <4>1. root \notin Chain(p_main[s])
        BY <1>1, <1>3, <1>4, <2>1, <3>1, RefsApart DEF ChainOfRef
      <4>2. b \in Blocks
        BY <1>1, <3>1, ChainsOfRefs DEF ChainOfRef
      <4>3. QED
        BY <1>8, <3>1, <4>1, <4>2
    <3>2. QED
      BY <1>8, <3>1 DEF SameRef
  <2>2. SameLeftovers(t)
    BY <1>3, <1>4, <1>8, <1>10 DEF SameLeftovers, IsLeftover, ChainOfRef
  <2>3. Alone(t, r)
    BY <1>2, CollectsAlone
  <2>4. QED
    BY <1>7, <1>8, <2>1, <2>2, <2>3 DEF Frame, Alone
<1>16. CallInv(t)'
  <2>1. IF call'[t].then = "sweep" THEN SweepCall(t)' ELSE WriterCall(t)'
    <3>1. UNCHANGED <<txvars, p_main, hist>> /\ call[t].op \notin {"none", "walk"}
      BY <1>8
    <3>2. \A b : (\E i \in DOMAIN garbage'[t] : garbage'[t][i] = b) <=> (\E i \in DOMAIN garbage[t] : garbage[t][i] = b)
      BY <1>8
    <3>3. call'[t].op \notin {"ptr", "free"} /\ used' \subseteq used /\ call'[t].root = call[t].root
      BY <1>4, <1>7, <1>8
    <3>4. m_ts'[FreeCandidate(call[t].root)'] = m_ts[FreeCandidate(call[t].root)]
      BY <1>4, <1>6, <1>8, <1>13
    <3>5. call[t].then = "free" => p_data'[call[t].root] # NULL
      <4> SUFFICES ASSUME call[t].then = "free" PROVE p_data'[root] # NULL
        BY <1>4
      <4>1. WriterCall(t)
        BY <1>1 DEF CollectInv
      <4>2. call[t].ref = r
        BY <1>1, <1>2, <4>1 DEF WriterCall, ShapeInv, HeadsInv
      <4>3. IsWriting(t) /\ ~FreedAt(r, m_txversion[t])
        BY <4>1, <4>2 DEF WriterCall
      <4>4. p_data[y] # NULL
        BY <1>4, <1>6, <4>3, WriterSeesLast
      <4>5. QED
        BY <1>8, <4>4
    <3>6. QED
      BY <1>7, <1>9, <3>1, <3>2, <3>3, <3>4, <3>5, CollectGoesOn
  <2>2. IsRoot(call[t].root)'
    BY <1>7, <1>4, <1>8 DEF IsRoot, Rooted
  <2>3. Collapsible(call[t].root, call[t].orv)'
    BY <1>4, <1>5, <1>7, <1>8 DEF Collapsible
  <2>4. p_data'[call'[t].root] = p_data'[p_next_version'[call'[t].root]]
    BY <1>4, <1>5, <1>6, <1>7, <1>8
  <2>5. CollectInv(t)'
    BY <1>1, <1>7, <2>1, <2>2, <2>3, <2>4 DEF CollectInv, CollectRest
  <2>6. QED
    BY <1>1, <1>7, <1>12, <2>5 DEF CallInv, Idle, NoCall
<1>17. /\ \A u \in Txs : call[u].op = "walk" /\ call[u].ref = r /\ call'[u] = call[u] => WalkInv(u)'
       /\ \A u \in Txs : Reading(u) /\ held[u] # NULL /\ held[u].ref = r /\ held'[u] = held[u] => HeldInv(u)'
  <2>1. \A b \in Blocks : IsLeftover(b) /\ p_data[b] # NULL =>
          IsLeftover(b)' /\ m_ts'[b] = m_ts[b] /\ p_data'[b] = p_data[b]
    BY <1>3, <1>4, <1>8, <1>10 DEF IsLeftover, ChainOfRef
  <2>2. r \in Rooted' /\ p_main'[r] = p_main[r] /\ UNCHANGED txvars
    BY <1>8
  <2>3. /\ \A b \in Versions(r) : b \in Versions(r)' /\ m_ts'[b] = m_ts[b]
        /\ \A b \in Versions(r)' : b \in Versions(r)
    BY <1>8, <1>13
  <2>4. QED
    BY <1>12, <2>1, <2>2, <2>3, ReadersGoOn
<1>18. ASSUME NEW u \in Txs, held[u] # NULL, held[u].ref = r PROVE HeldInv(u)'
  <2>1. HeldInv(u) /\ held'[u] = held[u] /\ r \in Rooted'
    BY <1>8 DEF PoolInv
  <2>2. CASE Reading(u)
    BY <1>17, <1>18, <2>1, <2>2
  <2>3. CASE ~Reading(u)
    <3>1. PICK b : b = held[u].block
      OBVIOUS
    <3>2. IsWriter(u) /\ pc[u] = "running"
      BY <1>18, <2>1, <2>3 DEF HeldInv, Reading
    <3>3. FreedEarlier(u, r)' <=> FreedEarlier(u, r)
      BY <1>8, <1>12 DEF FreedEarlier
    <3>4. b = p_main[r] \/ (b \in Versions(r) /\ m_ts[b] > m_ortxversion[u])
      BY <1>18, <2>1, <3>1, <3>2 DEF HeldInv
    <3>5. QED
      BY <1>8, <1>13, <1>18, <2>1, <3>1, <3>2, <3>3, <3>4, HoldOn DEF HeldInv
  <2>4. QED
    BY <2>2, <2>3
<1>19. \A i \in DOMAIN garbage'[t] : \A s \in Refs : p_main'[s] = garbage'[t][i] => FreedBy(t, s)'
  BY <1>8, <1>12 DEF PoolInv, GarbageInv, FreedBy
<1>20. QED
  <2>1. {r} \in SUBSET Refs /\ call[t].op # "unlink" /\ held'[t] = held[t]
    BY <1>3, <1>8
  <2>2. /\ \A u \in Txs \ {t} : call[u].op = "walk" /\ call[u].ref \in {r} => WalkInv(u)'
        /\ \A u \in Txs : held[u] # NULL /\ held'[u] = held[u] /\ held[u].ref \in {r} => HeldInv(u)'
    BY <1>7, <1>17, <1>18
  <2>3. QED
    BY <1>9, <1>10, <1>11, <1>14, <1>15, <1>16, <1>19, <2>1, <2>2, PoolFrame

\* The copy into the root, or its omission, keeps the invariant.
LEMMA Copies ==
  ASSUME PoolInv, NEW t \in Txs, Copy(t)
  PROVE  PoolInv'
<1>1. CASE Collapsible(call[t].root, call[t].orv)
  BY <1>1, CopyMoves DEF Copy
<1>2. CASE ~Collapsible(call[t].root, call[t].orv)
  BY <1>2, CopySkips DEF Copy
<1>3. QED
  BY <1>1, <1>2

\* An entry in front of a list.
LEMMA PushFacts ==
  ASSUME NEW S, NEW s \in Seq(S), NEW e \in S
  PROVE  /\ <<e>> \o s \in Seq(S) /\ Len(<<e>> \o s) = Len(s) + 1
         /\ DOMAIN (<<e>> \o s) = 1..(Len(s) + 1)
         /\ (<<e>> \o s)[1] = e
         /\ \A i \in 1..Len(s) : (<<e>> \o s)[i + 1] = s[i]
<1>1. <<e>> \in Seq(S) /\ Len(<<e>>) = 1 /\ <<e>>[1] = e
  OBVIOUS
<1>2. Len(s) \in Nat
  BY LenProperties
<1>3. /\ <<e>> \o s \in Seq(S) /\ Len(<<e>> \o s) = Len(<<e>>) + Len(s)
      /\ \A i \in 1..(Len(<<e>>) + Len(s)) :
           (<<e>> \o s)[i] = IF i <= Len(<<e>>) THEN <<e>>[i] ELSE s[i - Len(<<e>>)]
  BY <1>1, ConcatProperties
<1>4. DOMAIN (<<e>> \o s) = 1..Len(<<e>> \o s)
  BY <1>3, LenProperties
<1>5. Len(<<e>> \o s) = Len(s) + 1
  BY <1>1, <1>2, <1>3
<1>6. (<<e>> \o s)[1] = e
  BY <1>1, <1>2, <1>3
<1>7. ASSUME NEW i \in 1..Len(s) PROVE (<<e>> \o s)[i + 1] = s[i]
  <2>1. i + 1 \in 1..(1 + Len(s)) /\ ~(i + 1 <= 1) /\ (i + 1) - 1 = i
    BY <1>2
  <2>2. QED
    BY <1>1, <1>3, <2>1
<1>8. QED
  BY <1>3, <1>4, <1>5, <1>6, <1>7

\* The entries of a garbage list after a block that was in none is put in front of one.
Pushed(t, y) ==
  /\ garbage' \in [Txs -> Seq(Blocks)]
  /\ \A u \in Txs \ {t} : garbage'[u] = garbage[u]
  /\ DOMAIN garbage'[t] = 1..(Len(garbage[t]) + 1)
  /\ garbage'[t][1] = y
  /\ \A i \in DOMAIN garbage[t] : i + 1 \in DOMAIN garbage'[t] /\ garbage'[t][i + 1] = garbage[t][i]
  /\ \A i \in DOMAIN garbage'[t] : i = 1 \/ (i - 1 \in DOMAIN garbage[t] /\ garbage'[t][i] = garbage[t][i - 1])
  /\ \A b : (\E i \in DOMAIN garbage'[t] : garbage'[t][i] = b) <=>
              (b = y \/ \E i \in DOMAIN garbage[t] : garbage[t][i] = b)
  /\ \A b : IsEntry(b)' <=> IsEntry(b) \/ b = y
  /\ ~IsEntry(y) /\ HeadsInv =>
       \A u, w \in Txs : \A i \in DOMAIN garbage'[u], j \in DOMAIN garbage'[w] :
         garbage'[u][i] = garbage'[w][j] => u = w /\ i = j

\* An entry put in front of a garbage list, seen from all the lists.
LEMMA PushEntry ==
  ASSUME PoolTypeOK, NEW t \in Txs, NEW y \in Blocks,
         garbage' = [garbage EXCEPT ![t] = <<y>> \o @]
  PROVE  Pushed(t, y)
<1> DEFINE s == garbage[t]
           z == <<y>> \o garbage[t]
<1>1. garbage \in [Txs -> Seq(Blocks)] /\ s \in Seq(Blocks)
  BY DEF PoolTypeOK
<1>2. Len(s) \in Nat /\ DOMAIN s = 1..Len(s)
  BY <1>1, LenProperties
<1>3. /\ z \in Seq(Blocks) /\ Len(z) = Len(s) + 1
      /\ DOMAIN z = 1..(Len(s) + 1)
      /\ z[1] = y
      /\ \A i \in 1..Len(s) : z[i + 1] = s[i]
  BY <1>1, PushFacts
<1>4. garbage' \in [Txs -> Seq(Blocks)] /\ garbage'[t] = z /\ \A u \in Txs \ {t} : garbage'[u] = garbage[u]
  BY <1>1, <1>3
<1> HIDE DEF z
<1>5. \A i \in DOMAIN s : i + 1 \in DOMAIN z /\ z[i + 1] = s[i]
  BY <1>2, <1>3
<1>6. ASSUME NEW i \in DOMAIN z PROVE i = 1 \/ (i - 1 \in DOMAIN s /\ z[i] = s[i - 1])
  <2> SUFFICES ASSUME i # 1 PROVE i - 1 \in DOMAIN s /\ z[i] = s[i - 1]
    OBVIOUS
  <2>1. i - 1 \in 1..Len(s) /\ (i - 1) + 1 = i
    BY <1>2, <1>3
  <2>2. QED
    BY <1>2, <1>3, <2>1
<1>7. \A b : (\E i \in DOMAIN z : z[i] = b) <=> (b = y \/ \E i \in DOMAIN s : s[i] = b)
  <2> TAKE b
  <2>1. 1 \in DOMAIN z /\ z[1] = y
    BY <1>2, <1>3
  <2>2. ASSUME NEW i \in DOMAIN z, z[i] = b PROVE b = y \/ \E j \in DOMAIN s : s[j] = b
    BY <1>6, <2>1, <2>2
  <2>3. ASSUME NEW j \in DOMAIN s, s[j] = b PROVE \E i \in DOMAIN z : z[i] = b
    BY <1>5, <2>3
  <2>4. QED
    BY <2>1, <2>2, <2>3
<1>8. \A b : IsEntry(b)' <=> IsEntry(b) \/ b = y
  <2> TAKE b
  <2>1. (\E i \in DOMAIN garbage'[t] : garbage'[t][i] = b) <=> (b = y \/ \E i \in DOMAIN garbage[t] : garbage[t][i] = b)
    BY <1>4, <1>7
  <2>2. \A u \in Txs \ {t} : (\E i \in DOMAIN garbage'[u] : garbage'[u][i] = b) <=> (\E i \in DOMAIN garbage[u] : garbage[u][i] = b)
    BY <1>4
  <2>3. IsEntry(b)' <=> \E u \in Txs : \E i \in DOMAIN garbage'[u] : garbage'[u][i] = b
    BY DEF IsEntry
  <2>4. IsEntry(b) <=> \E u \in Txs : \E i \in DOMAIN garbage[u] : garbage[u][i] = b
    BY DEF IsEntry
  <2>5. QED
    BY <2>1, <2>2, <2>3, <2>4
<1>9. ASSUME ~IsEntry(y), HeadsInv, NEW u \in Txs, NEW w \in Txs,
             NEW i \in DOMAIN garbage'[u], NEW j \in DOMAIN garbage'[w],
             garbage'[u][i] = garbage'[w][j]
      PROVE  u = w /\ i = j
  <2>1. /\ \A q \in Txs : \A k \in DOMAIN garbage[q] : garbage[q][k] # y
        /\ \A p, q \in Txs : \A k \in DOMAIN garbage[p], l \in DOMAIN garbage[q] :
             garbage[p][k] = garbage[q][l] => p = q /\ k = l
    BY <1>9 DEF IsEntry, HeadsInv
  <2>2. CASE u # t /\ w # t
    BY <1>4, <1>9, <2>1, <2>2
  <2>3. CASE u = t /\ w # t
    BY <1>3, <1>4, <1>6, <1>9, <2>1, <2>3
  <2>4. CASE u # t /\ w = t
    BY <1>3, <1>4, <1>6, <1>9, <2>1, <2>4
  <2>5. CASE u = t /\ w = t
    <3>1. z[i] = z[j] /\ i \in DOMAIN z /\ j \in DOMAIN z
      BY <1>4, <1>9, <2>5
    <3>2. i \in Int /\ j \in Int
      BY <1>2, <1>3, <3>1
    <3>3. CASE i = 1 \/ j = 1
      BY <1>3, <1>6, <2>1, <2>5, <3>1, <3>3
    <3>4. CASE i # 1 /\ j # 1
      <4>1. i - 1 = j - 1
        BY <1>6, <2>1, <3>1, <3>4
      <4>2. QED
        BY <2>5, <3>2, <4>1
    <3>5. QED
      BY <3>3, <3>4
  <2>6. QED
    BY <2>2, <2>3, <2>4, <2>5
<1>10. /\ DOMAIN garbage'[t] = 1..(Len(garbage[t]) + 1)
       /\ garbage'[t][1] = y
       /\ \A i \in DOMAIN garbage[t] : i + 1 \in DOMAIN garbage'[t] /\ garbage'[t][i + 1] = garbage[t][i]
       /\ \A i \in DOMAIN garbage'[t] : i = 1 \/ (i - 1 \in DOMAIN garbage[t] /\ garbage'[t][i] = garbage[t][i - 1])
       /\ \A b : (\E i \in DOMAIN garbage'[t] : garbage'[t][i] = b) <=>
                   (b = y \/ \E i \in DOMAIN garbage[t] : garbage[t][i] = b)
  <2>1. garbage'[t] = z
    BY <1>4
  <2>2. \A b : (\E i \in DOMAIN garbage'[t] : garbage'[t][i] = b) <=>
                 (b = y \/ \E i \in DOMAIN garbage[t] : garbage[t][i] = b)
    BY <1>7, <2>1
  <2>3. DOMAIN garbage'[t] = 1..(Len(garbage[t]) + 1) /\ garbage'[t][1] = y
    BY <1>3, <2>1
  <2>4. \A i \in DOMAIN garbage[t] : i + 1 \in DOMAIN garbage'[t] /\ garbage'[t][i + 1] = garbage[t][i]
    BY <1>5, <2>1
  <2>5. \A i \in DOMAIN garbage'[t] : i = 1 \/ (i - 1 \in DOMAIN garbage[t] /\ garbage'[t][i] = garbage[t][i - 1])
    BY <1>6, <2>1
  <2>6. QED
    BY <2>2, <2>3, <2>4, <2>5
<1>11. QED
  BY <1>4, <1>8, <1>9, <1>10 DEF Pushed

\* What a collection removes is committed.
LEMMA CollectsCommitted ==
  ASSUME PoolInv, NEW t \in Txs, call[t].op \notin {"none", "walk"},
         NEW r \in Rooted, call[t].root = p_main[r], m_ts[FreeCandidate(p_main[r])] <= call[t].orv
  PROVE  /\ m_ts[FreeCandidate(p_main[r])] <= m_last_write_committed_id
         /\ \A u \in Txs : IsWriting(u) /\ ~FreedEarlier(u, r) =>
              u = t /\ call[t].orv = m_ortxversion[u] /\ call[t].then # "sweep" /\ call[t].ref = r
<1>1. /\ PoolTypeOK /\ TxInv /\ ShapeInv /\ CollectInv(t) /\ RootedInv(r) /\ r \in Refs /\ HistInv
  BY InvShape DEF PoolInv, CallInv, RefInv, Rooted
<1>2. m_ts[FreeCandidate(p_main[r])] = Last(r).ver /\ hist[r] # <<>>
  BY <1>1 DEF RootedInv
<1>3. CASE call[t].then = "sweep"
  <2>1. /\ \E i \in DOMAIN garbage[t] : garbage[t][i] = p_main[r]
        /\ IsWriting(t) => Last(r).ver # m_txversion[t]
    BY <1>1, <1>3, SweptIsGone DEF CollectInv, SweepCall, FreedEarlier, IsWriting, Last
  <2>2. Last(r).val = NULL /\ Last(r).ver <= m_last_write_committed_id
    BY <1>1, <2>1 DEF PoolInv, GarbageInv, FreedBy
  <2>3. ASSUME NEW u \in Txs, IsWriting(u) PROVE FreedEarlier(u, r)
    <3>1. /\ m_txversion[u] \in Nat /\ m_last_write_committed_id < m_txversion[u]
          /\ m_last_write_committed_id \in Nat
      BY <1>1, <2>3, WriterBounds
    <3>2. Last(r).ver \in Nat
      BY <1>1, <1>2, HistoryTop
    <3>3. Last(r).ver <= m_txversion[u] /\ Last(r).ver # m_txversion[u]
      BY <2>2, <3>1, <3>2
    <3>4. FreedAt(r, m_txversion[u])
      BY <1>1, <1>2, <2>2, <3>1, <3>3, HistoryTop
    <3>5. QED
      BY <3>3, <3>4 DEF FreedEarlier, Last
  <2>4. QED
    BY <1>2, <2>2, <2>3
<1>4. CASE call[t].then # "sweep"
  <2>1. WriterCall(t)
    BY <1>1, <1>4 DEF CollectInv
  <2>2. IsWriting(t) /\ call[t].orv = m_ortxversion[t] /\ call[t].ref = r
    BY <1>1, <2>1 DEF WriterCall, ShapeInv, HeadsInv
  <2>3. /\ m_ortxversion[t] \in Nat /\ m_ortxversion[t] <= m_last_write_committed_id
        /\ m_last_write_committed_id \in Nat
    BY <1>1, <2>2, WriterBounds
  <2>4. m_ts[FreeCandidate(p_main[r])] \in Nat
    BY <1>1, <1>2, HistoryTop
  <2>5. \A u \in Txs : IsWriting(u) => u = t
    BY <1>1, <2>2, OneWriter
  <2>6. QED
    BY <1>4, <2>2, <2>3, <2>4, <2>5
<1>5. QED
  BY <1>3, <1>4

\* The version leaves the chain: its data is in the root, and readers on it keep it.
LEMMA Unlinks ==
  ASSUME PoolInv, NEW t \in Txs, Unlink(t)
  PROVE  PoolInv'
<1> USE NullIsNoBlock
<1>1. /\ PoolTypeOK /\ ShapeInv /\ TxInv /\ CallInv(t) /\ HeldInv(t) /\ CollectRest(t) /\ CollectInv(t)
      /\ call[t].op = "unlink" /\ HistInv
  BY InvShape, CollectParts DEF PoolInv, CallInv, Unlink
<1>2. PICK r \in Rooted : call[t].root = p_main[r]
  BY <1>1, CollectRoot DEF CollectRest, IsLeftover
<1>3. ChainOfRef(r) /\ call[t].orv \in Nat /\ r \in Refs /\ RootedInv(r)
  BY <1>1, ChainsOfRefs, CallFields DEF PoolInv, RefInv, Rooted
<1>4. PICK root \in Blocks : root = p_main[r] /\ root = call[t].root
  BY <1>2, <1>3 DEF ChainOfRef
<1>5. PICK y \in Blocks : /\ y = p_next_version[root] /\ p_next_version[y] = NULL /\ m_ts[y] <= call[t].orv
                          /\ p_data[root] = p_data[y]
  BY <1>1, <1>4 DEF CollectRest, Collapsible, PoolTypeOK
<1>6. Versions(r) = {y} /\ FreeCandidate(root) = y /\ y # root /\ ~IsHead(y) /\ y \in used /\ root \in used
  <2>1. y = p_next_version[p_main[r]]
    BY <1>4, <1>5
  <2>2. Versions(r) = {y} /\ FreeCandidate(p_main[r]) = y
    BY <1>1, <1>5, <2>1, OneVersion
  <2>3. QED
    BY <1>3, <1>4, <2>2 DEF ChainOfRef
<1>7. /\ call' \in [Txs -> Calls] /\ call'[t].op = "reclaim" /\ call'[t].then = call[t].then
      /\ call'[t].ref = call[t].ref /\ call'[t].root = root /\ call'[t].at = call[t].at
      /\ call'[t].orv = call[t].orv
      /\ \A u \in Txs \ {t} : call'[u] = call[u] /\ held'[u] = held[u]
  BY <1>1, <1>4, GotoFields DEF Unlink
<1>8. /\ p_main' = p_main /\ p_data' = p_data
      /\ used' = used /\ held' = held /\ hist' = hist /\ Rooted' = Rooted /\ UNCHANGED txvars
      /\ m_ts' \in [Blocks -> Nat] /\ p_next_version' \in [Blocks -> Blocks \cup {NULL}]
      /\ \A b \in Blocks : /\ m_ts'[b] = IF b = root THEN m_ts[y] ELSE m_ts[b]
                           /\ p_next_version'[b] = IF b = root THEN NULL ELSE p_next_version[b]
  BY <1>1, <1>4, <1>5 DEF Rooted, PoolTypeOK, Unlink
<1>9. garbage' = [garbage EXCEPT ![t] = <<y>> \o @]
  BY <1>4, <1>5 DEF Unlink
<1>10. Pushed(t, y)
  BY <1>1, <1>9, PushEntry
<1>11. PoolTypeOK'
  BY <1>1, <1>7, <1>8, <1>10 DEF PoolTypeOK, Pushed
<1>12. \A b : /\ IsRoot(b)' <=> IsRoot(b)
              /\ IsEntry(b)' <=> IsEntry(b) \/ b = y
              /\ IsDropped(b)' <=> IsDropped(b)
              /\ IsHead(b)' <=> IsHead(b) \/ b = y
              /\ IsLeftover(b)' <=> IsLeftover(b) \/ b = y
  <2>1. \A b : IsRoot(b)' <=> IsRoot(b)
    BY <1>8 DEF IsRoot
  <2>2. \A b : IsEntry(b)' <=> IsEntry(b) \/ b = y
    BY <1>10 DEF Pushed
  <2>3. \A b : IsDropped(b)' <=> IsDropped(b)
    BY <1>1, <1>7 DEF IsDropped
  <2>4. QED
    BY <1>6, <2>1, <2>2, <2>3 DEF IsHead, IsLeftover
<1>13. /\ IsHead(root) /\ \A b \in Blocks : p_next_version[b] # root
       /\ \A b \in Blocks : p_next_version[b] = y => b = root
  <2>1. IsHead(root)
    BY <1>3, <1>4 DEF IsHead, ChainOfRef
  <2>2. QED
    BY <1>1, <1>5, <2>1 DEF ShapeInv, LinksInv
<1>14. LinksInv'
  <2>1. ASSUME NEW b \in Blocks, p_next_version'[b] # NULL
        PROVE  /\ b \in used' /\ p_next_version'[b] \in used'
               /\ ~IsHead(p_next_version[b])'
               /\ ~IsRoot(b)' => m_ts'[p_next_version'[b]] < m_ts'[b]
    <3>1. b # root /\ p_next_version'[b] = p_next_version[b] /\ p_next_version[b] # NULL /\ m_ts'[b] = m_ts[b]
      BY <1>8, <2>1
    <3>2. PICK x \in Blocks : x = p_next_version[b] /\ x = p_next_version'[b]
      BY <1>1, <3>1 DEF PoolTypeOK
    <3>3. x # y /\ x # root /\ m_ts'[x] = m_ts[x]
      BY <1>8, <1>13, <3>1, <3>2
    <3>4. ~IsHead(x) /\ b \in used /\ x \in used /\ (~IsRoot(b) => m_ts[x] < m_ts[b])
      BY <1>1, <3>1, <3>2 DEF ShapeInv, LinksInv
    <3>5. ~IsHead(x)'
      BY <1>12, <3>3, <3>4
    <3>6. ~IsHead(p_next_version[b])'
      BY <3>2, <3>5 DEF IsHead, IsRoot, IsEntry, IsDropped
    <3>7. QED
      BY <1>8, <1>12, <3>1, <3>2, <3>3, <3>4, <3>6
  <2>2. ASSUME NEW a \in Blocks, NEW b \in Blocks,
               p_next_version'[a] # NULL, p_next_version'[a] = p_next_version'[b]
        PROVE  a = b
    BY <1>1, <1>8, <2>2 DEF ShapeInv, LinksInv
  <2>3. ASSUME NEW b \in used'
        PROVE  InTime(m_ts[b])' /\ (IsHead(b)' \/ \E a \in Blocks : p_next_version'[a] = b)
    <3>1. b \in used /\ b \in Blocks
      BY <1>1, <1>8, <2>3 DEF PoolTypeOK
    <3>2. InTime(m_ts[b])'
      <4>1. InTime(m_ts[b]) /\ InTime(m_ts[y])
        BY <1>1, <1>6, <3>1 DEF ShapeInv, LinksInv
      <4>2. InTime(m_ts'[b])
        BY <1>8, <3>1, <4>1
      <4>3. QED
        BY <1>8, <4>2, SameTx DEF txvars, InTime, IsWriting, IsWriter
    <3>3. CASE b = y \/ IsHead(b)
      BY <1>12, <3>2, <3>3
    <3>4. CASE b # y /\ ~IsHead(b)
      <4>1. PICK a \in Blocks : p_next_version[a] = b
        BY <1>1, <3>1, <3>4 DEF ShapeInv, LinksInv
      <4>2. a # root
        BY <1>5, <3>4, <4>1
      <4>3. QED
        BY <1>8, <3>2, <4>1, <4>2
    <3>5. QED
      BY <3>3, <3>4
  <2>4. QED
    BY <2>1, <2>2, <2>3 DEF LinksInv
<1>15. HeadsInv'
  <2>1. \A b \in Blocks : /\ IsHead(b)' => b \in used'
                          /\ IsLeftover(b)' => p_next_version'[b] = NULL
                          /\ IsDropped(b)' => ~IsRoot(b)' /\ ~IsEntry(b)'
    BY <1>1, <1>5, <1>6, <1>8, <1>12 DEF ShapeInv, HeadsInv, IsHead
  <2>2. \A u, w \in Txs : \A i \in DOMAIN garbage'[u], j \in DOMAIN garbage'[w] :
          garbage'[u][i] = garbage'[w][j] => u = w /\ i = j
    BY <1>1, <1>6, <1>10 DEF Pushed, IsHead, ShapeInv
  <2>3. \A u, w \in Txs :
          call'[u].op = "drop" /\ call'[w].op = "drop" /\ call'[u].at = call'[w].at => u = w
    BY <1>1, <1>7 DEF ShapeInv, HeadsInv
  <2>4. \A q, s \in Rooted' : p_main'[q] = p_main'[s] => q = s
    BY <1>1, <1>8 DEF ShapeInv, HeadsInv
  <2>5. QED
    BY <2>1, <2>2, <2>3, <2>4 DEF HeadsInv
<1>16. ShapeInv' /\ HistInv'
  BY <1>1, <1>8, <1>11, <1>14, <1>15, TxInvNext, SameTx DEF ShapeInv, HistInv
<1>17. /\ LiveVersions' = LiveVersions /\ m_last_write_committed_id' = m_last_write_committed_id
       /\ pc' = pc /\ m_txversion' = m_txversion /\ m_ortxversion' = m_ortxversion
       /\ \A u : (IsWriting(u)' <=> IsWriting(u)) /\ (IsWriter(u)' <=> IsWriter(u))
       /\ \A s, v : HistoryAt(s, v)' = HistoryAt(s, v) /\ (FreedAt(s, v)' <=> FreedAt(s, v))
       /\ \A s : Last(s)' = Last(s)
       /\ LiveVersions \subseteq Nat
  BY <1>1, <1>8, SameTx, LiveNat DEF txvars, HistoryAt, FreedAt, Last
<1>18. /\ Versions(r)' = {} /\ FreeCandidate(p_main[r])' = root /\ FreeCandidate(call[t].root)' = root
       /\ p_next_version'[root] = NULL
  <2>1. p_next_version'[root] = NULL
    BY <1>8
  <2>2. ChainOf(p_next_version', NULL) = {}
    BY <1>8, ChainUnfolds DEF LinksOn
  <2>3. QED
    BY <1>4, <1>7, <1>8, <2>1, <2>2 DEF Versions, Chain, FreeCandidate
\* Who can still be on the version, and what he finds there.
<1>19. /\ m_ts[y] = Last(r).ver /\ m_ts[y] \in Nat
       /\ m_ts[y] <= m_last_write_committed_id
       /\ \A u \in Txs : IsWriting(u) /\ ~FreedEarlier(u, r) => call[t].orv = m_ortxversion[u]
  <2>1. m_ts[FreeCandidate(p_main[r])] <= call[t].orv /\ FreeCandidate(p_main[r]) = y
    BY <1>4, <1>5, <1>6
  <2>2. m_ts[y] = Last(r).ver /\ m_ts[y] \in Nat
    BY <1>1, <1>3, <2>1 DEF RootedInv, PoolTypeOK
  <2>3. QED
    BY <1>1, <1>2, <2>1, <2>2, CollectsCommitted
<1>20. ASSUME NEW v \in LiveVersions, ~FreedAt(r, v)
       PROVE  m_ts[y] <= v /\ p_data[y] = HistoryAt(r, v) /\ p_data[y] # NULL
  <2>1. v \in Nat
    BY <1>17
  <2>2. call[t].orv <= v
    BY <1>1, <1>2, <1>20, CollectsSafely
  <2>3. m_ts[y] <= v
    BY <1>3, <1>5, <1>19, <2>1, <2>2
  <2>4. Seen(r, v, y)
    BY <1>6, <1>19, <2>3 DEF Seen
  <2>5. p_data[y] = HistoryAt(r, v)
    BY <1>3, <1>20, <2>4 DEF RootedInv
  <2>6. HistoryAt(r, v) = Last(r).val /\ Last(r).val # NULL
    BY <1>1, <1>3, <1>19, <1>20, <2>1, <2>3, HistoryTop DEF RootedInv
  <2>7. QED
    BY <2>3, <2>5, <2>6
<1>21. RefInv(r)'
  <2>1. ASSUME NEW v \in LiveVersions, NEW x \in Blocks, Seen(r, v, x)'
        PROVE  FreedAt(r, v) \/ p_data[x] = HistoryAt(r, v)
    <3>1. x = root
      <4>1. x = p_main'[r]
        BY <1>18, <2>1 DEF Seen
      <4>2. QED
        BY <1>4, <1>8, <4>1
    <3>2. QED
      BY <1>5, <1>20, <3>1
  <2>2. RootedInv(r)'
    <3>1. /\ m_ts'[p_main'[r]] <= m_last_write_committed_id'
          /\ \A b \in Versions(r)' : m_ts'[p_main'[r]] < m_ts'[b]
          /\ hist'[r] # <<>>
          /\ m_ts'[FreeCandidate(p_main[r])'] = Last(r)'.ver
      BY <1>3, <1>4, <1>8, <1>17, <1>18, <1>19 DEF RootedInv
    <3>2. \A v \in LiveVersions', x \in Blocks :
            Seen(r, v, x)' => FreedAt(r, v)' \/ p_data'[x] = HistoryAt(r, v)'
      BY <1>8, <1>17, <2>1
    <3>3. QED
      BY <1>18, <3>1, <3>2 DEF RootedInv
  <2>3. QED
    BY <1>4, <1>8, <2>2 DEF RefInv
<1>22. \A b \in Blocks : IsLeftover(b) => IsLeftover(b)' /\ m_ts'[b] = m_ts[b] /\ p_data'[b] = p_data[b]
  BY <1>3, <1>4, <1>8, <1>12 DEF IsLeftover, ChainOfRef
<1>23. Frame(t, {r})
  <2>1. ASSUME NEW s \in Refs, s # r PROVE SameRef(s)
    <3>1. ASSUME s \in Rooted, NEW b \in Chain(p_main[s])
          PROVE  m_ts'[b] = m_ts[b] /\ p_data'[b] = p_data[b] /\ p_next_version'[b] = p_next_version[b]
      <4>1. root \notin Chain(p_main[s])
        BY <1>1, <1>3, <1>4, <2>1, <3>1, RefsApart DEF ChainOfRef
      <4>2. b \in Blocks
        BY <1>1, <3>1, ChainsOfRefs DEF ChainOfRef
      <4>3. QED
        BY <1>8, <3>1, <4>1, <4>2
    <3>2. QED
      BY <1>8, <3>1 DEF SameRef
  <2>2. SameLeftovers(t)
    BY <1>22 DEF SameLeftovers
  <2>3. Alone(t, r)
    BY <1>1, <1>2, CollectsAlone
  <2>4. \A u \in Txs \ {t} : garbage'[u] = garbage[u]
    BY <1>10 DEF Pushed
  <2>5. QED
    BY <1>7, <1>8, <2>1, <2>2, <2>3, <2>4 DEF Frame, Alone
<1>24. CallInv(t)'
  <2>1. IF call'[t].then = "sweep" THEN SweepCall(t)' ELSE WriterCall(t)'
    <3>1. UNCHANGED <<txvars, p_main, hist>> /\ call[t].op \notin {"none", "walk"}
      BY <1>1, <1>8
    <3>2. \A b \in {call[t].root} \cup {p_main[s] : s \in Rooted} :
            (\E i \in DOMAIN garbage'[t] : garbage'[t][i] = b) <=> (\E i \in DOMAIN garbage[t] : garbage[t][i] = b)
      <4>1. \A b \in {call[t].root} \cup {p_main[s] : s \in Rooted} : b # y
        BY <1>4, <1>6 DEF IsHead, IsRoot, Rooted
      <4>2. QED
        BY <1>10, <4>1 DEF Pushed
    <3>3. call'[t].op \notin {"ptr", "free"} /\ used' \subseteq used /\ call'[t].root = call[t].root
      BY <1>4, <1>7, <1>8
    <3>4. m_ts'[FreeCandidate(call[t].root)'] = m_ts[FreeCandidate(call[t].root)]
      BY <1>4, <1>6, <1>8, <1>18
    <3>5. p_data'[call[t].root] = p_data[call[t].root]
      BY <1>8
    <3>6. QED
      BY <1>1, <1>7, <1>11, <3>1, <3>2, <3>3, <3>4, <3>5, CollectGoesOn
  <2>2. call'[t].at = NULL
    BY <1>1, <1>7 DEF CollectRest
  <2>3. p_next_version'[call'[t].root] = NULL
    BY <1>7, <1>18
  <2>4. CollectInv(t)'
    BY <1>7, <2>1, <2>2, <2>3 DEF CollectInv, CollectRest
  <2>5. QED
    BY <1>1, <1>7, <1>17, <2>4 DEF CallInv, Idle, NoCall
<1>25. r \in Rooted' /\ p_main'[r] = p_main[r]
  BY <1>8
<1>26. ASSUME NEW u \in Txs, u # t, call[u].op = "walk", call[u].ref = r PROVE WalkInv(u)'
  <2>1. WalkInv(u) /\ call'[u] = call[u] /\ UNCHANGED txvars /\ hist'[r] = hist[r]
    BY <1>7, <1>8, <1>26 DEF PoolInv, CallInv
  <2>2. PICK a : a = call[u].at
    OBVIOUS
  <2>3. /\ m_txversion[u] \in LiveVersions /\ ~FreedAt(r, m_txversion[u])
        /\ \/ a = NULL
           \/ a \in Versions(r)
           \/ /\ IsLeftover(a) /\ m_ts[a] <= m_txversion[u]
              /\ p_data[a] # NULL /\ p_data[a] = HistoryAt(r, m_txversion[u])
    BY <1>26, <2>1, <2>2 DEF WalkInv, LiveVersions, Running
  <2>4. CASE a = NULL
    BY <1>18, <1>25, <1>26, <2>1, <2>2, <2>4, WalkOn
  <2>5. CASE a # NULL
    <3>1. /\ IsLeftover(a)' /\ m_ts'[a] <= m_txversion[u]
          /\ p_data'[a] # NULL /\ p_data'[a] = HistoryAt(r, m_txversion[u])
      <4>1. CASE a = y
        BY <1>6, <1>8, <1>12, <1>20, <2>3, <4>1
      <4>2. CASE a # y
        <5>1. IsLeftover(a)
          BY <1>6, <2>3, <2>5, <4>2
        <5>2. a \in Blocks
          BY <1>1, <5>1, SweepRoot DEF IsLeftover
        <5>3. QED
          BY <1>6, <1>22, <2>3, <2>5, <4>2, <5>1, <5>2
      <4>3. QED
        BY <4>1, <4>2
    <3>2. QED
      BY <1>25, <1>26, <2>1, <2>2, <3>1, WalkOn
  <2>6. QED
    BY <2>4, <2>5
<1>27. ASSUME NEW u \in Txs, held[u] # NULL, held[u].ref = r PROVE HeldInv(u)'
  <2>1. HeldInv(u) /\ held'[u] = held[u] /\ UNCHANGED txvars
    BY <1>8 DEF PoolInv
  <2>2. PICK b : b = held[u].block
    OBVIOUS
  <2>3. /\ pc[u] = "running" /\ ~FreedEarlier(u, r)
        /\ \/ b = p_main[r]
           \/ /\ b \in Versions(r)
              /\ IsWriter(u) => m_ts[b] > m_ortxversion[u]
           \/ ~IsWriter(u) /\ IsLeftover(b) /\ p_data[b] # NULL
    BY <1>27, <2>1, <2>2 DEF HeldInv
  <2>4. ~FreedEarlier(u, r)'
    BY <1>8, <1>17, <2>3 DEF FreedEarlier
  <2>5. \/ b = p_main'[r]
        \/ ~IsWriter(u) /\ IsLeftover(b)' /\ p_data'[b] # NULL
    <3>1. CASE b = p_main[r]
      BY <1>8, <3>1
    <3>2. CASE b \in Versions(r) /\ (IsWriter(u) => m_ts[b] > m_ortxversion[u])
      <4>1. b = y
        BY <1>6, <3>2
      <4>2. ~IsWriter(u)
        <5> SUFFICES ASSUME IsWriter(u) PROVE FALSE
          OBVIOUS
        <5>1. IsWriting(u)
          BY <2>3 DEF IsWriting
        <5>2. call[t].orv = m_ortxversion[u]
          BY <1>19, <2>3, <5>1
        <5>3. QED
          BY <1>3, <1>5, <1>19, <3>2, <4>1, <5>2
      <4>3. m_txversion[u] \in LiveVersions /\ ~FreedAt(r, m_txversion[u])
        BY <2>3, <4>2 DEF LiveVersions, Running, FreedEarlier
      <4>4. QED
        BY <1>8, <1>12, <1>20, <4>1, <4>2, <4>3
    <3>3. CASE ~IsWriter(u) /\ IsLeftover(b) /\ p_data[b] # NULL
      <4>1. b \in Blocks
        BY <1>1, <3>3, SweepRoot DEF IsLeftover
      <4>2. QED
        BY <1>22, <3>3, <4>1
    <3>4. QED
      BY <2>3, <3>1, <3>2, <3>3
  <2>6. QED
    BY <1>25, <1>27, <2>1, <2>2, <2>3, <2>4, <2>5, HoldOn
<1>28. ASSUME NEW i \in DOMAIN garbage'[t], NEW s \in Refs, p_main'[s] = garbage'[t][i]
       PROVE  FreedBy(t, s)'
  <2>1. garbage'[t][i] # y
    BY <1>6, <1>8, <1>28 DEF IsHead, IsRoot
  <2>2. \E j \in DOMAIN garbage[t] : garbage[t][j] = p_main[s]
    BY <1>8, <1>10, <1>28, <2>1 DEF Pushed
  <2>3. FreedBy(t, s)
    BY <2>2 DEF PoolInv, GarbageInv
  <2>4. QED
    BY <1>17, <2>3 DEF FreedBy
<1>29. QED
  <2>1. {r} \in SUBSET Refs /\ held'[t] = held[t]
    BY <1>3, <1>8
  <2>2. /\ \A u \in Txs \ {t} : call[u].op = "walk" /\ call[u].ref \in {r} => WalkInv(u)'
        /\ \A u \in Txs : held[u] # NULL /\ held'[u] = held[u] /\ held[u].ref \in {r} => HeldInv(u)'
    BY <1>26, <1>27
  <2>3. \A s \in Rooted \ {r} : p_main[s] # call[t].root
    BY <1>1, <1>2 DEF ShapeInv, HeadsInv
  <2>4. \A s \in {r} : RefInv(s)'
    BY <1>21
  <2>5. QED
    BY <1>11, <1>14, <1>15, <1>16, <1>23, <1>24, <1>28, <2>1, <2>2, <2>3, <2>4, PoolFrame

\* Where a block stands in a list that holds it.
LEMMA PositionIs ==
  ASSUME NEW S, NEW s \in Seq(S), NEW k \in DOMAIN s
  PROVE  Position(s, s[k]) \in DOMAIN s /\ s[Position(s, s[k])] = s[k]
<1> DEFINE P == {i \in DOMAIN s : s[i] = s[k]}
<1>1. P \in SUBSET Nat /\ k \in P
  BY SeqFacts
<1>2. \E n \in P : \A m \in P : n <= m
  BY <1>1, LeastNumber
<1>3. Smallest(P) \in P
  BY <1>2 DEF Smallest
<1>4. QED
  BY <1>3 DEF Position

\* A list without the only occurrence of a block.
LEMMA WithoutFacts ==
  ASSUME NEW S, NEW s \in Seq(S), NEW k \in DOMAIN s,
         \A i, j \in DOMAIN s : s[i] = s[j] => i = j
  PROVE  LET w == Without(s, s[k])
         IN /\ w \in Seq(S)
            /\ \A x : (\E i \in DOMAIN w : w[i] = x) <=> (x # s[k] /\ \E i \in DOMAIN s : s[i] = x)
            /\ \A i, j \in DOMAIN w : w[i] = w[j] => i = j
<1> DEFINE n == Len(s)
           w == Without(s, s[k])
           at(i) == IF i < k THEN i ELSE i + 1
<1>1. n \in Nat /\ DOMAIN s = 1..n /\ k \in 1..n /\ \A i \in 1..n : s[i] \in S
  BY SeqFacts
<1>2. Position(s, s[k]) = k
  BY PositionIs
<1>3. w = [i \in 1..(n - 1) |-> s[at(i)]]
  BY <1>2 DEF Without
<1>4. n - 1 \in Nat /\ \A i \in 1..(n - 1) : at(i) \in 1..n /\ at(i) # k
  BY <1>1
<1>5. DOMAIN w = 1..(n - 1) /\ \A i \in 1..(n - 1) : w[i] = s[at(i)] /\ w[i] \in S
  BY <1>1, <1>3, <1>4
<1>6. w \in Seq(S)
  <2>1. w = [i \in 1..(n - 1) |-> w[i]]
    BY <1>3
  <2>2. w \in [1..(n - 1) -> S]
    BY <1>5, <2>1
  <2>3. QED
    BY <1>4, <2>2, SeqDef
<1>7. \A i, j \in 1..(n - 1) : at(i) = at(j) => i = j
  BY <1>1
<1>8. ASSUME NEW x, NEW i \in DOMAIN s, s[i] = x, x # s[k]
      PROVE  \E j \in DOMAIN w : w[j] = x
  <2>1. CASE i < k
    <3>1. i \in 1..(n - 1) /\ at(i) = i
      BY <1>1, <1>8, <2>1
    <3>2. QED
      BY <1>5, <1>8, <3>1
  <2>2. CASE ~(i < k)
    <3>1. i - 1 \in 1..(n - 1) /\ at(i - 1) = i
      BY <1>1, <1>8, <2>2
    <3>2. QED
      BY <1>5, <1>8, <3>1
  <2>3. QED
    BY <2>1, <2>2
<1> HIDE DEF w, at, n
<1>9. \A i, j \in DOMAIN w : w[i] = w[j] => i = j
  BY <1>1, <1>4, <1>5, <1>7
<1>10. ASSUME NEW i \in DOMAIN w PROVE w[i] # s[k] /\ \E j \in DOMAIN s : s[j] = w[i]
  BY <1>1, <1>4, <1>5
<1>11. QED
  BY <1>6, <1>8, <1>9, <1>10 DEF w

\* The garbage lists after the entry of b has left the one of t.
Removed(t, b) ==
  /\ garbage' \in [Txs -> Seq(Blocks)]
  /\ \A u \in Txs \ {t} : garbage'[u] = garbage[u]
  /\ \A x : (\E i \in DOMAIN garbage'[t] : garbage'[t][i] = x) <=>
              (x # b /\ \E i \in DOMAIN garbage[t] : garbage[t][i] = x)
  /\ \A x : IsEntry(x)' <=> IsEntry(x) /\ x # b
  /\ \A u, w \in Txs : \A i \in DOMAIN garbage'[u], j \in DOMAIN garbage'[w] :
       garbage'[u][i] = garbage'[w][j] => u = w /\ i = j

\* An entry taken out of a garbage list, seen from all the lists.
LEMMA RemoveEntry ==
  ASSUME PoolTypeOK, HeadsInv, NEW t \in Txs, NEW k \in DOMAIN garbage[t], NEW b, b = garbage[t][k],
         garbage' = ForgetEntry(t, b)
  PROVE  Removed(t, b)
<1> DEFINE s == garbage[t]
           z == Without(garbage[t], b)
<1>1. garbage \in [Txs -> Seq(Blocks)] /\ s \in Seq(Blocks)
  BY DEF PoolTypeOK
<1>2. \A u, w \in Txs : \A i \in DOMAIN garbage[u], j \in DOMAIN garbage[w] :
        garbage[u][i] = garbage[w][j] => u = w /\ i = j
  BY DEF HeadsInv
<1>3. /\ z \in Seq(Blocks)
      /\ \A x : (\E i \in DOMAIN z : z[i] = x) <=> (x # b /\ \E i \in DOMAIN s : s[i] = x)
      /\ \A i, j \in DOMAIN z : z[i] = z[j] => i = j
  <2>1. s[k] = b /\ k \in DOMAIN s /\ \A i, j \in DOMAIN s : s[i] = s[j] => i = j
    BY <1>2
  <2> HIDE DEF s
  <2>2. LET w == Without(s, s[k])
        IN /\ w \in Seq(Blocks)
           /\ \A x : (\E i \in DOMAIN w : w[i] = x) <=> (x # s[k] /\ \E i \in DOMAIN s : s[i] = x)
           /\ \A i, j \in DOMAIN w : w[i] = w[j] => i = j
    BY <1>1, <2>1, WithoutFacts
  <2>3. z = Without(s, s[k])
    BY <2>1 DEF s
  <2>4. QED
    BY <2>1, <2>2, <2>3
<1>4. garbage' = [garbage EXCEPT ![t] = z]
  BY DEF ForgetEntry
<1> HIDE DEF z
<1>5. garbage' \in [Txs -> Seq(Blocks)] /\ garbage'[t] = z /\ \A u \in Txs \ {t} : garbage'[u] = garbage[u]
  BY <1>1, <1>3, <1>4
<1>6. \A x : (\E i \in DOMAIN garbage'[t] : garbage'[t][i] = x) <=>
               (x # b /\ \E i \in DOMAIN garbage[t] : garbage[t][i] = x)
  <2>1. \A x : (\E i \in DOMAIN z : z[i] = x) <=> (x # b /\ \E i \in DOMAIN garbage[t] : garbage[t][i] = x)
    BY <1>3
  <2>2. garbage'[t] = z
    BY <1>5
  <2>3. QED
    BY <2>1, <2>2
<1>7. \A x : IsEntry(x)' <=> IsEntry(x) /\ x # b
  <2> TAKE x
  <2>1. (\E i \in DOMAIN garbage'[t] : garbage'[t][i] = x) <=> (x # b /\ \E i \in DOMAIN garbage[t] : garbage[t][i] = x)
    BY <1>6
  <2>2. \A u \in Txs \ {t} : (\E i \in DOMAIN garbage'[u] : garbage'[u][i] = x) <=> (\E i \in DOMAIN garbage[u] : garbage[u][i] = x)
    BY <1>5
  <2>3. IsEntry(x)' <=> \E u \in Txs : \E i \in DOMAIN garbage'[u] : garbage'[u][i] = x
    BY DEF IsEntry
  <2>4. IsEntry(x) <=> \E u \in Txs : \E i \in DOMAIN garbage[u] : garbage[u][i] = x
    BY DEF IsEntry
  <2>5. \A u \in Txs \ {t} : \A i \in DOMAIN garbage[u] : garbage[u][i] # b
    BY <1>2
  <2>6. QED
    BY <2>1, <2>2, <2>3, <2>4, <2>5
<1>8. ASSUME NEW u \in Txs, NEW w \in Txs, NEW i \in DOMAIN garbage'[u], NEW j \in DOMAIN garbage'[w],
             garbage'[u][i] = garbage'[w][j]
      PROVE  u = w /\ i = j
  <2>1. CASE u # t /\ w # t
    BY <1>2, <1>5, <1>8, <2>1
  <2>2. CASE u = t /\ w # t
    <3>1. PICK l \in DOMAIN garbage[t] : garbage[t][l] = garbage'[u][i]
      BY <1>6, <1>8, <2>2
    <3>2. QED
      BY <1>2, <1>5, <1>8, <2>2, <3>1
  <2>3. CASE u # t /\ w = t
    <3>1. PICK l \in DOMAIN garbage[t] : garbage[t][l] = garbage'[w][j]
      BY <1>6, <1>8, <2>3
    <3>2. QED
      BY <1>2, <1>5, <1>8, <2>3, <3>1
  <2>4. CASE u = t /\ w = t
    BY <1>3, <1>5, <1>8, <2>4
  <2>5. QED
    BY <2>1, <2>2, <2>3, <2>4
<1>9. QED
  BY <1>5, <1>6, <1>7, <1>8 DEF Removed

\* What a thread is inside of after it has collected a block.
AfterReclaim(t) ==
  IF call[t].then = "sweep" THEN SweepOn(t, call[t].root)
  ELSE [call[t] EXCEPT !.op = IF call[t].then = "free" THEN "free" ELSE "ptr"]

\* Where a thread is after the collection of a block: in its operation, or at the next entry.
LEMMA ReclaimGoesOn ==
  ASSUME PoolInv, NEW t \in Txs, call[t].op = "reclaim", call' = [call EXCEPT ![t] = AfterReclaim(t)]
  PROVE  /\ call' \in [Txs -> Calls] /\ \A u \in Txs \ {t} : call'[u] = call[u]
         /\ call[t].at = NULL
         /\ \/ call[t].then = "sweep" /\ call'[t] = NoCall
            \/ /\ call[t].then = "sweep" /\ call'[t].op = "sever" /\ call'[t].then = "sweep"
               /\ call'[t].at = NULL /\ call'[t].orv = call[t].orv
               /\ call'[t].root # call[t].root
               /\ \E i \in DOMAIN garbage[t] : garbage[t][i] = call'[t].root
            \/ /\ call[t].then # "sweep" /\ call'[t].op = IF call[t].then = "free" THEN "free" ELSE "ptr"
               /\ call'[t].then = call[t].then /\ call'[t].ref = call[t].ref /\ call'[t].at = NULL
               /\ call'[t].root = call[t].root /\ call'[t].orv = call[t].orv
<1>1. PoolTypeOK /\ HeadsInv /\ CollectRest(t) /\ CollectInv(t)
  BY CollectParts DEF PoolInv, CallInv
<1>2. call[t].at = NULL
  BY <1>1 DEF CollectRest
<1>3. CASE call[t].then # "sweep"
  <2> DEFINE op == IF call[t].then = "free" THEN "free" ELSE "ptr"
  <2>1. call' = [call EXCEPT ![t] = [call[t] EXCEPT !.op = op]]
    BY <1>3 DEF AfterReclaim
  <2>2. op \in {"ptr", "free"}
    OBVIOUS
  <2>3. PICK d : d = [call[t] EXCEPT !.op = op]
    OBVIOUS
  <2> HIDE DEF op
  <2>4. /\ d \in Calls /\ d.op = op /\ d.then = call[t].then /\ d.ref = call[t].ref
        /\ d.at = call[t].at /\ d.root = call[t].root /\ d.orv = call[t].orv
    BY <1>1, <2>2, <2>3, CallFields DEF Calls
  <2>5. /\ call' \in [Txs -> Calls] /\ \A u \in Txs \ {t} : call'[u] = call[u]
        /\ call'[t] = d
    BY <1>1, <2>1, <2>3, <2>4 DEF PoolTypeOK
  <2>6. QED
    BY <1>2, <1>3, <2>4, <2>5 DEF op
<1>4. CASE call[t].then = "sweep"
  <2>1. PICK k \in DOMAIN garbage[t] : garbage[t][k] = call[t].root
    BY <1>1, <1>4 DEF CollectInv, SweepCall
  <2>2. garbage[t] \in Seq(Blocks)
    BY <1>1 DEF PoolTypeOK
  <2>3. Position(garbage[t], call[t].root) = k
    <3>1. Position(garbage[t], garbage[t][k]) \in DOMAIN garbage[t]
          /\ garbage[t][Position(garbage[t], garbage[t][k])] = garbage[t][k]
      BY <2>2, PositionIs
    <3>2. QED
      BY <1>1, <2>1, <3>1 DEF HeadsInv
  <2>4. /\ Len(garbage[t]) \in Nat /\ DOMAIN garbage[t] = 1..Len(garbage[t])
        /\ \A i \in DOMAIN garbage[t] : garbage[t][i] \in Blocks
    BY <2>2, SeqFacts
  <2>5. CASE k < Len(garbage[t])
    <3>1. /\ k + 1 \in DOMAIN garbage[t] /\ k + 1 # k
      BY <2>4, <2>5
    <3>2. PICK x \in Blocks : x = garbage[t][k + 1]
      BY <2>4, <3>1
    <3>3. x # call[t].root
      BY <1>1, <2>1, <3>1, <3>2 DEF HeadsInv
    <3>4. call' = [call EXCEPT ![t] = [call[t] EXCEPT !.op = "sever", !.root = x]]
      BY <1>4, <2>3, <2>5, <3>2 DEF AfterReclaim, SweepOn
    <3>5. PICK d : d = [call[t] EXCEPT !.op = "sever", !.root = x]
      OBVIOUS
    <3>6. /\ d \in Calls /\ d.op = "sever" /\ d.then = call[t].then
          /\ d.at = call[t].at /\ d.root = x /\ d.orv = call[t].orv
      BY <1>1, <3>5, CallFields DEF Calls
    <3>7. /\ call' \in [Txs -> Calls] /\ \A u \in Txs \ {t} : call'[u] = call[u]
          /\ call'[t] = d
      BY <1>1, <3>4, <3>5, <3>6 DEF PoolTypeOK
    <3>8. QED
      BY <1>2, <1>4, <3>1, <3>2, <3>3, <3>6, <3>7
  <2>6. CASE ~(k < Len(garbage[t]))
    <3>1. call' = [call EXCEPT ![t] = NoCall]
      BY <1>4, <2>3, <2>6 DEF AfterReclaim, SweepOn
    <3>2. NoCall \in Calls
      BY <1>1, CallFields
    <3>3. call' \in [Txs -> Calls] /\ call'[t] = NoCall /\ \A u \in Txs \ {t} : call'[u] = call[u]
      BY <1>1, <3>1, <3>2, CallSet
    <3>4. QED
      BY <1>2, <1>4, <3>3
  <2>7. QED
    BY <2>5, <2>6
<1>5. QED
  BY <1>3, <1>4

\* A block that stays: the operation goes on.
LEMMA ReclaimSkips ==
  ASSUME PoolInv, NEW t \in Txs, call[t].op = "reclaim", call' = [call EXCEPT ![t] = AfterReclaim(t)],
         UNCHANGED <<blocks, garbage, p_main, held, hist, txvars>>
  PROVE  PoolInv'
<1> USE NullIsNoBlock
<1>1. PoolTypeOK /\ ShapeInv /\ CallInv(t) /\ HeldInv(t) /\ CollectRest(t) /\ CollectInv(t) /\ TxInv
  BY InvShape, CollectParts DEF PoolInv, CallInv
<1>2. /\ call' \in [Txs -> Calls] /\ \A u \in Txs \ {t} : call'[u] = call[u] /\ held'[u] = held[u]
      /\ \/ call[t].then = "sweep" /\ call'[t] = NoCall
         \/ /\ call[t].then = "sweep" /\ call'[t].op = "sever" /\ call'[t].then = "sweep"
            /\ call'[t].at = NULL /\ call'[t].orv = call[t].orv
            /\ \E i \in DOMAIN garbage[t] : garbage[t][i] = call'[t].root
         \/ /\ call[t].then # "sweep" /\ call'[t].op = IF call[t].then = "free" THEN "free" ELSE "ptr"
            /\ call'[t].then = call[t].then /\ call'[t].ref = call[t].ref /\ call'[t].at = NULL
            /\ call'[t].root = call[t].root /\ call'[t].orv = call[t].orv
  BY ReclaimGoesOn
<1>3. /\ UNCHANGED blocks /\ p_main' = p_main /\ m_ts' = m_ts /\ p_data' = p_data
      /\ p_next_version' = p_next_version /\ garbage' = garbage /\ used' = used /\ held' = held
      /\ hist' = hist /\ UNCHANGED txvars
  BY DEF blocks
<1>4. PoolTypeOK'
  BY <1>1, <1>2, <1>3 DEF PoolTypeOK
<1>5. /\ LiveVersions' = LiveVersions
      /\ pc' = pc /\ \A u : (IsWriting(u)' <=> IsWriting(u))
      /\ \A s, v : FreedAt(s, v)' <=> FreedAt(s, v)
  BY <1>1, <1>3, SameTx DEF txvars, HistoryAt, FreedAt
<1>6. CallInv(t)'
  <2>1. CASE call[t].then = "sweep" /\ call'[t] = NoCall
    BY <2>1 DEF CallInv, Idle, NoCall
  <2>2. CASE /\ call[t].then = "sweep" /\ call'[t].op = "sever" /\ call'[t].then = "sweep"
             /\ call'[t].at = NULL /\ call'[t].orv = call[t].orv
             /\ \E i \in DOMAIN garbage[t] : garbage[t][i] = call'[t].root
    <3>1. SweepCall(t)
      BY <1>1, <2>2 DEF CollectInv
    <3>2. \A s : FreedEarlier(t, s)' <=> FreedEarlier(t, s)
      BY <1>3, <1>5 DEF FreedEarlier, IsWriter, txvars
    <3>3. SweepCall(t)'
      BY <1>3, <1>5, <2>2, <3>1, <3>2 DEF SweepCall
    <3>4. CollectInv(t)'
      BY <2>2, <3>3 DEF CollectInv
    <3>5. QED
      BY <1>1, <1>5, <2>2, <3>4 DEF CallInv, Idle, NoCall
  <2>3. CASE /\ call[t].then # "sweep" /\ call'[t].op = IF call[t].then = "free" THEN "free" ELSE "ptr"
             /\ call'[t].then = call[t].then /\ call'[t].ref = call[t].ref /\ call'[t].at = NULL
             /\ call'[t].root = call[t].root /\ call'[t].orv = call[t].orv
    <3>1. IF call'[t].then = "sweep" THEN SweepCall(t)' ELSE WriterCall(t)'
      <4>1. FreeCandidate(call[t].root)' = FreeCandidate(call[t].root)
        BY <2>3, <1>3 DEF FreeCandidate
      <4>2. UNCHANGED <<txvars, p_main, hist>> /\ call[t].op \notin {"none", "walk"}
        BY <1>3
      <4>3. \A b : (\E i \in DOMAIN garbage'[t] : garbage'[t][i] = b) <=> (\E i \in DOMAIN garbage[t] : garbage[t][i] = b)
        BY <1>3
      <4>4. /\ m_ts'[FreeCandidate(call[t].root)'] = m_ts[FreeCandidate(call[t].root)]
            /\ p_data'[call[t].root] = p_data[call[t].root] /\ used' \subseteq used
        BY <1>3, <4>1
      <4>5. QED
        BY <2>3, <1>4, <4>2, <4>3, <4>4, CollectGoesOn
    <3>2. CollectInv(t)'
      BY <1>1, <1>3, <2>3, <3>1 DEF CollectInv, CollectRest
    <3>3. QED
      BY <1>1, <1>5, <2>3, <3>2 DEF CallInv, Idle, NoCall
  <2>4. QED
    BY <1>2, <2>1, <2>2, <2>3
<1>7. HeldInv(t)'
  BY <1>1, <1>3, SameHeld
<1>8. call'[t].op # "drop"
  BY <1>2 DEF NoCall
<1>9. QED
  BY <1>2, <1>3, <1>4, <1>6, <1>7, <1>8, CallStep

\* A block that goes back to the pool is a sweep's, and nobody can follow it any more.
LEMMA ReclaimSafe ==
  ASSUME PoolInv, NEW t \in Txs, call[t].op = "reclaim", Reclaimable(call[t].root, call[t].orv)
  PROVE  /\ call[t].then = "sweep"
         /\ \A r \in Rooted : p_main[r] = call[t].root => \A v \in LiveVersions : FreedAt(r, v)
         /\ \A r \in Rooted : p_main[r] = call[t].root =>
              \A u \in Txs : IsWriting(u) => FreedEarlier(u, r)
<1>1. PoolTypeOK /\ ShapeInv /\ TxInv /\ CollectInv(t) /\ HistInv /\ call[t].orv \in Nat
  BY InvShape, CallFields DEF PoolInv, CallInv
<1>2. ASSUME NEW r \in Rooted, p_main[r] = call[t].root
      PROVE  /\ call[t].then = "sweep"
             /\ \A v \in LiveVersions : FreedAt(r, v)
             /\ \A u \in Txs : IsWriting(u) => FreedEarlier(u, r)
  <2>1. ChainOfRef(r) /\ RootedInv(r) /\ r \in Refs
    BY <1>1, ChainsOfRefs DEF PoolInv, RefInv, Rooted
  <2>2. PICK root \in Blocks : root = p_main[r] /\ root = call[t].root
    BY <1>2, <2>1 DEF ChainOfRef
  <2>3. p_data[root] = NULL /\ p_next_version[root] = NULL /\ m_ts[root] < call[t].orv /\ m_ts[root] \in Nat
    BY <1>1, <2>2 DEF Reclaimable, PoolTypeOK
  <2>4. Versions(r) = {} /\ FreeCandidate(p_main[r]) = root
    BY <2>1, <2>2, <2>3 DEF ChainOfRef, FreeCandidate
  <2>5. Last(r).ver = m_ts[root] /\ hist[r] # <<>>
    BY <2>1, <2>4 DEF RootedInv
  <2>6. m_ts[FreeCandidate(p_main[r])] <= call[t].orv
    BY <1>1, <2>3, <2>4
  <2>7. /\ m_ts[root] <= m_last_write_committed_id
        /\ \A u \in Txs : IsWriting(u) /\ ~FreedEarlier(u, r) => u = t /\ call[t].then # "sweep" /\ call[t].ref = r
    BY <1>2, <2>4, <2>6, CollectsCommitted
  <2>8. ASSUME NEW v \in LiveVersions PROVE FreedAt(r, v)
    <3>1. v \in Nat
      BY <1>1, LiveNat
    <3>2. FreedAt(r, v) \/ call[t].orv <= v
      BY <1>2, CollectsSafely
    <3>3. SUFFICES ASSUME call[t].orv <= v PROVE FreedAt(r, v)
      BY <3>2
    <3>4. Last(r).ver <= v
      BY <1>1, <2>3, <2>5, <3>1, <3>3
    <3>5. Seen(r, v, root)
      BY <2>2, <2>4 DEF Seen
    <3>6. FreedAt(r, v) \/ HistoryAt(r, v) = NULL
      BY <2>1, <2>3, <3>5 DEF RootedInv
    <3>7. QED
      BY <1>1, <2>1, <2>5, <3>1, <3>4, <3>6, HistoryTop
  <2>9. ASSUME NEW u \in Txs, IsWriting(u) PROVE FreedEarlier(u, r)
    <3>1. /\ m_txversion[u] \in Nat /\ m_last_write_committed_id < m_txversion[u]
          /\ m_last_write_committed_id \in Nat /\ m_txversion[u] \in LiveVersions
      BY <1>1, <2>9, WriterBounds
    <3>2. FreedAt(r, m_txversion[u]) /\ Last(r).ver # m_txversion[u]
      BY <2>3, <2>5, <2>7, <2>8, <3>1
    <3>3. QED
      BY <3>2 DEF FreedEarlier, Last
  <2>10. call[t].then = "sweep"
    <3> SUFFICES ASSUME call[t].then # "sweep" PROVE FALSE
      OBVIOUS
    <3>1. WriterCall(t)
      BY <1>1 DEF CollectInv
    <3>2. IsWriting(t) /\ ~FreedEarlier(t, r)
      BY <1>1, <1>2, <3>1 DEF WriterCall, ShapeInv, HeadsInv
    <3>3. QED
      BY <2>9, <3>2
  <2>11. QED
    BY <2>8, <2>9, <2>10
<1>3. call[t].then = "sweep"
  BY <1>2, CollectRoot
<1>4. QED
  BY <1>2, <1>3

\* A block that is freed by a sweep leaves the pool, the list and its reference together.
LEMMA ReclaimFrees ==
  ASSUME PoolInv, NEW t \in Txs, call[t].op = "reclaim", Reclaimable(call[t].root, call[t].orv),
         call' = [call EXCEPT ![t] = AfterReclaim(t)],
         Release({call[t].root}),
         garbage' = ForgetEntry(t, call[t].root),
         p_main' = [r \in Refs |-> IF p_main[r] = call[t].root THEN NULL ELSE p_main[r]],
         UNCHANGED <<held, hist, txvars>>
  PROVE  PoolInv'
<1> USE NullIsNoBlock
<1>1. /\ PoolTypeOK /\ ShapeInv /\ TxInv /\ CallInv(t) /\ HeldInv(t) /\ CollectRest(t) /\ CollectInv(t)
      /\ HistInv /\ HeadsInv
  BY InvShape, CollectParts DEF PoolInv, CallInv
<1>2. /\ call[t].then = "sweep"
      /\ \A r \in Rooted : p_main[r] = call[t].root => \A v \in LiveVersions : FreedAt(r, v)
      /\ \A r \in Rooted : p_main[r] = call[t].root =>
           \A u \in Txs : IsWriting(u) => FreedEarlier(u, r)
  BY ReclaimSafe
<1>3. SweepCall(t)
  BY <1>1, <1>2 DEF CollectInv
<1>4. PICK root \in Blocks : root = call[t].root
  BY <1>1, CollectRoot
<1>5. PICK k \in DOMAIN garbage[t] : garbage[t][k] = root
  BY <1>3, <1>4 DEF SweepCall
<1>6. p_data[root] = NULL /\ p_next_version[root] = NULL /\ m_ts[root] < call[t].orv
  BY <1>4 DEF Reclaimable
<1>7. Removed(t, root)
  BY <1>1, <1>4, <1>5, RemoveEntry
<1>8. /\ call' \in [Txs -> Calls] /\ \A u \in Txs \ {t} : call'[u] = call[u] /\ held'[u] = held[u]
      /\ \/ call'[t] = NoCall
         \/ /\ call'[t].op = "sever" /\ call'[t].then = "sweep"
            /\ call'[t].at = NULL /\ call'[t].orv = call[t].orv
            /\ call'[t].root # root
            /\ \E i \in DOMAIN garbage[t] : garbage[t][i] = call'[t].root
  BY <1>2, <1>4, ReclaimGoesOn
<1>9. /\ p_main' \in [Refs -> Blocks \cup {NULL}]
      /\ \A r \in Refs : p_main'[r] = IF p_main[r] = root THEN NULL ELSE p_main[r]
      /\ held' = held /\ hist' = hist /\ UNCHANGED txvars /\ Release({root})
  BY <1>1, <1>4 DEF PoolTypeOK
<1>10. /\ IsEntry(root) /\ IsHead(root) /\ ~IsDropped(root)
       /\ \A b \in Blocks : p_next_version[b] # root
  <2>1. IsEntry(root)
    BY <1>5 DEF IsEntry
  <2>2. IsHead(root)
    BY <2>1 DEF IsHead
  <2>3. QED
    BY <1>1, <2>1, <2>2 DEF ShapeInv, HeadsInv, LinksInv
<1>11. \A b : /\ b \in Blocks => (IsRoot(b)' <=> IsRoot(b) /\ b # root)
              /\ IsEntry(b)' <=> IsEntry(b) /\ b # root
              /\ IsDropped(b)' <=> IsDropped(b)
  <2>1. \A b \in Blocks : IsRoot(b)' <=> IsRoot(b) /\ b # root
    BY <1>9 DEF IsRoot
  <2>2. \A b : IsEntry(b)' <=> IsEntry(b) /\ b # root
    BY <1>7 DEF Removed
  <2>3. call'[t].op # "drop" /\ call[t].op # "drop"
    BY <1>8 DEF NoCall
  <2>4. \A b : IsDropped(b)' <=> IsDropped(b)
    BY <1>8, <2>3 DEF IsDropped
  <2>5. QED
    BY <2>1, <2>2, <2>4
<1>12. \A b \in Blocks : /\ IsHead(b)' <=> IsHead(b) /\ b # root
                         /\ IsLeftover(b)' <=> IsLeftover(b) /\ b # root
  BY <1>10, <1>11 DEF IsHead, IsLeftover
<1>13. PICK S \in SUBSET Blocks : S = {root}
  OBVIOUS
<1>14. /\ used' = used \ S
       /\ m_ts' \in [Blocks -> Nat] /\ p_data' \in [Blocks -> Nat \cup {NULL}]
       /\ p_next_version' \in [Blocks -> Blocks \cup {NULL}]
       /\ \A b \in Blocks : /\ m_ts'[b] = IF b \in S THEN 0 ELSE m_ts[b]
                            /\ p_data'[b] = IF b \in S THEN NULL ELSE p_data[b]
                            /\ p_next_version'[b] = IF b \in S THEN NULL ELSE p_next_version[b]
       /\ LinksInv'
  <2>1. HeadsWithout(S)
    BY <1>11, <1>12, <1>13 DEF HeadsWithout
  <2>2. Closed(S)
    BY <1>6, <1>10, <1>13 DEF Closed
  <2>3. Release(S)
    BY <1>9, <1>13
  <2>4. QED
    BY <1>1, <1>9, <2>1, <2>2, <2>3, ReleaseLinks
<1>15. PoolTypeOK'
  <2>1. garbage' \in [Txs -> Seq(Blocks)] /\ used' \subseteq Blocks
    BY <1>1, <1>7, <1>14 DEF PoolTypeOK, Removed
  <2>2. held' = held /\ hist' = hist
    BY <1>9
  <2>3. QED
    BY <1>1, <1>8, <1>9, <1>14, <2>1, <2>2 DEF PoolTypeOK
<1>16. HeadsInv'
  <2>1. \A b \in Blocks : /\ IsHead(b)' => b \in used'
                          /\ IsLeftover(b)' => p_next_version'[b] = NULL
                          /\ IsDropped(b)' => ~IsRoot(b)' /\ ~IsEntry(b)'
    BY <1>1, <1>11, <1>12, <1>13, <1>14 DEF HeadsInv
  <2>2. \A u, w \in Txs : \A i \in DOMAIN garbage'[u], j \in DOMAIN garbage'[w] :
          garbage'[u][i] = garbage'[w][j] => u = w /\ i = j
    BY <1>7 DEF Removed
  <2>3. \A u, w \in Txs :
          call'[u].op = "drop" /\ call'[w].op = "drop" /\ call'[u].at = call'[w].at => u = w
    <3>1. call'[t].op # "drop"
      BY <1>8 DEF NoCall
    <3>2. QED
      BY <1>1, <1>8, <3>1 DEF HeadsInv
  <2>4. \A q, s \in Rooted' : p_main'[q] = p_main'[s] => q = s
    BY <1>1, <1>9 DEF HeadsInv, Rooted
  <2>5. QED
    BY <2>1, <2>2, <2>3, <2>4 DEF HeadsInv
<1>17. ShapeInv' /\ HistInv'
  BY <1>1, <1>9, <1>14, <1>15, <1>16, TxInvNext, SameTx DEF ShapeInv, HistInv
<1>18. /\ LiveVersions' = LiveVersions
       /\ pc' = pc
       /\ \A u : (IsWriting(u)' <=> IsWriting(u)) /\ (IsWriter(u)' <=> IsWriter(u))
       /\ \A s, v : HistoryAt(s, v)' = HistoryAt(s, v) /\ (FreedAt(s, v)' <=> FreedAt(s, v))
       /\ \A s : Last(s)' = Last(s)
       /\ m_last_write_committed_id' = m_last_write_committed_id /\ m_txversion' = m_txversion
  BY <1>9, SameTx DEF txvars, HistoryAt, FreedAt, Last
<1>19. PICK R \in SUBSET Refs : R = {r \in Refs : p_main[r] = root}
  OBVIOUS
<1>20. \A s \in R : /\ s \in Rooted /\ p_main[s] = root /\ p_main'[s] = NULL
                    /\ \A v \in LiveVersions : FreedAt(s, v)
                    /\ \A u \in Txs : IsWriting(u) => FreedEarlier(u, s)
  BY <1>2, <1>4, <1>9, <1>19 DEF Rooted
<1>21. ASSUME NEW s \in R PROVE RefInv(s)'
  BY <1>18, <1>20 DEF RefInv, FreedAt
<1>22. \A b \in Blocks : IsLeftover(b) /\ (p_data[b] # NULL \/ \E u \in Txs \ {t} : \E i \in DOMAIN garbage[u] : garbage[u][i] = b)
         => IsLeftover(b)' /\ m_ts'[b] = m_ts[b] /\ p_data'[b] = p_data[b]
  <2>1. \A u \in Txs \ {t} : \A i \in DOMAIN garbage[u] : garbage[u][i] # root
    BY <1>1, <1>5 DEF HeadsInv
  <2>2. QED
    BY <1>6, <1>12, <1>13, <1>14, <2>1
<1>23. Frame(t, R)
  <2>1. ASSUME NEW s \in Refs \ R PROVE SameRef(s)
    <3>1. ASSUME s \in Rooted, NEW b \in Chain(p_main[s])
          PROVE  m_ts'[b] = m_ts[b] /\ p_data'[b] = p_data[b] /\ p_next_version'[b] = p_next_version[b]
      <4>1. ChainOfRef(s)
        BY <1>1, <3>1, ChainsOfRefs
      <4>2. p_main[s] # root
        BY <1>19, <2>1
      <4>3. b # root /\ b \in Blocks
        BY <1>10, <3>1, <4>1, <4>2 DEF ChainOfRef
      <4>4. QED
        BY <1>13, <1>14, <4>3
    <3>2. p_main'[s] = p_main[s]
      BY <1>9, <1>19, <2>1
    <3>3. QED
      BY <1>9, <3>1, <3>2 DEF SameRef
  <2>2. SameLeftovers(t)
    BY <1>22 DEF SameLeftovers
  <2>3. ASSUME NEW u \in Txs \ {t}, NEW s \in R
        PROVE  /\ \A i \in DOMAIN garbage[u] : garbage[u][i] # p_main[s] /\ garbage[u][i] # p_main'[s]
               /\ call[u].op \notin {"none", "walk"} /\ call[u].then # "sweep" => call[u].ref # s
    <3>1. s \in Rooted /\ p_main[s] = call[t].root /\ call[t].op \notin {"none", "walk"}
      BY <1>4, <1>20
    <3>2. Alone(t, s)
      BY <3>1, CollectsAlone
    <3>3. \A i \in DOMAIN garbage[u] : garbage[u][i] \in Blocks
      <4>1. garbage[u] \in Seq(Blocks)
        BY <1>1 DEF PoolTypeOK
      <4>2. QED
        BY <4>1, SeqFacts
    <3>4. QED
      BY <1>20, <3>2, <3>3 DEF Alone
  <2>4. \A u \in Txs \ {t} : garbage'[u] = garbage[u]
    BY <1>7 DEF Removed
  <2>5. used' \subseteq used
    BY <1>14
  <2>6. QED
    BY <1>8, <1>9, <2>1, <2>2, <2>3, <2>4, <2>5 DEF Frame
<1>24. CallInv(t)'
  <2>1. CASE call'[t] = NoCall
    BY <2>1 DEF CallInv, Idle, NoCall
  <2>2. CASE /\ call'[t].op = "sever" /\ call'[t].then = "sweep"
             /\ call'[t].at = NULL /\ call'[t].orv = call[t].orv
             /\ call'[t].root # root
             /\ \E i \in DOMAIN garbage[t] : garbage[t][i] = call'[t].root
    <3>1. \E i \in DOMAIN garbage'[t] : garbage'[t][i] = call'[t].root
      BY <1>7, <2>2 DEF Removed
    <3>2. ASSUME NEW s \in Refs, NEW i \in DOMAIN garbage'[t], garbage'[t][i] = p_main'[s]
          PROVE  /\ \A v \in LiveVersions : call[t].orv <= v \/ FreedAt(s, v)
                 /\ IsWriting(t) => FreedEarlier(t, s)
      <4>1. p_main'[s] # NULL
        <5>1. garbage'[t] \in Seq(Blocks)
          BY <1>7 DEF Removed
        <5>2. garbage'[t][i] \in Blocks
          BY <5>1, SeqFacts
        <5>3. QED
          BY <3>2, <5>2
      <4>2. p_main'[s] = p_main[s]
        BY <1>9, <4>1
      <4>3. \E j \in DOMAIN garbage[t] : garbage[t][j] = p_main[s]
        <5>1. \E j \in DOMAIN garbage'[t] : garbage'[t][j] = p_main[s]
          BY <3>2, <4>2
        <5>2. QED
          BY <1>7, <5>1 DEF Removed
      <4>4. QED
        BY <1>3, <3>2, <4>3 DEF SweepCall
    <3>3. SweepCall(t)'
      <4>1. /\ call'[t].op \notin {"ptr", "free"}
            /\ \A s : FreedEarlier(t, s)' <=> FreedEarlier(t, s)
        BY <1>9, <1>18, <2>2 DEF FreedEarlier
      <4>2. \A v \in LiveVersions' :
              call'[t].orv <= v \/ \A s \in Refs :
                              (\E i \in DOMAIN garbage'[t] : garbage'[t][i] = p_main'[s]) => FreedAt(s, v)'
        BY <1>18, <2>2, <3>2
      <4>3. QED
        BY <1>18, <3>1, <3>2, <4>1, <4>2 DEF SweepCall
    <3>4. CollectInv(t)'
      BY <2>2, <3>3 DEF CollectInv
    <3>5. QED
      BY <1>1, <1>18, <2>2, <3>4 DEF CallInv, Idle, NoCall
  <2>3. QED
    BY <1>8, <2>1, <2>2
<1>25. ASSUME NEW u \in Txs, u # t, call[u].op = "walk", call[u].ref \in R PROVE FALSE
  <2>1. WalkInv(u)
    BY <1>25 DEF PoolInv, CallInv
  <2>2. m_txversion[u] \in LiveVersions /\ ~FreedAt(call[u].ref, m_txversion[u])
    BY <2>1 DEF WalkInv, LiveVersions, Running
  <2>3. QED
    BY <1>20, <1>25, <2>2
<1>26. ASSUME NEW u \in Txs, held[u] # NULL, held[u].ref \in R PROVE FALSE
  <2>1. HeldInv(u)
    BY DEF PoolInv
  <2>2. pc[u] = "running" /\ ~FreedEarlier(u, held[u].ref)
    BY <1>26, <2>1 DEF HeldInv
  <2>3. m_txversion[u] \in LiveVersions
    BY <2>2 DEF LiveVersions, Running
  <2>4. CASE IsWriter(u)
    BY <1>20, <1>26, <2>2, <2>4 DEF IsWriting
  <2>5. CASE ~IsWriter(u)
    BY <1>20, <1>26, <2>2, <2>3, <2>5 DEF FreedEarlier
  <2>6. QED
    BY <2>4, <2>5
<1>27. ASSUME NEW i \in DOMAIN garbage'[t], NEW s \in Refs, p_main'[s] = garbage'[t][i]
       PROVE  FreedBy(t, s)'
  <2>1. p_main'[s] # NULL
    <3>1. garbage'[t] \in Seq(Blocks)
      BY <1>7 DEF Removed
    <3>2. garbage'[t][i] \in Blocks
      BY <3>1, SeqFacts
    <3>3. QED
      BY <1>27, <3>2
  <2>2. p_main'[s] = p_main[s]
    BY <1>9, <2>1
  <2>3. \E j \in DOMAIN garbage[t] : garbage[t][j] = p_main[s]
    <3>1. \E j \in DOMAIN garbage'[t] : garbage'[t][j] = p_main[s]
      BY <1>27, <2>2
    <3>2. QED
      BY <1>7, <3>1 DEF Removed
  <2>4. FreedBy(t, s)
    BY <2>3 DEF PoolInv, GarbageInv
  <2>5. QED
    BY <1>18, <2>4 DEF FreedBy
<1>28. QED
  <2>1. held'[t] = held[t] /\ call[t].op # "unlink"
    BY <1>9
  <2>2. /\ \A u \in Txs \ {t} : call[u].op = "walk" /\ call[u].ref \in R => WalkInv(u)'
        /\ \A u \in Txs : held[u] # NULL /\ held'[u] = held[u] /\ held[u].ref \in R => HeldInv(u)'
    BY <1>25, <1>26
  <2>3. QED
    BY <1>14, <1>15, <1>16, <1>17, <1>21, <1>23, <1>24, <1>27, <2>1, <2>2, PoolFrame

\* The end of fdb_txpool_alloc_gc keeps the invariant.
LEMMA Reclaims ==
  ASSUME PoolInv, NEW t \in Txs, Reclaim(t)
  PROVE  PoolInv'
<1>1. /\ call[t].op = "reclaim" /\ UNCHANGED <<held, hist, txvars>>
      /\ call' = [call EXCEPT ![t] = AfterReclaim(t)]
  BY DEF Reclaim, AfterReclaim
<1>2. CASE Reclaimable(call[t].root, call[t].orv)
  <2>1. call[t].then = "sweep"
    BY <1>1, <1>2, ReclaimSafe
  <2>2. QED
    BY <1>1, <1>2, <2>1, ReclaimFrees DEF Reclaim
<1>3. CASE ~Reclaimable(call[t].root, call[t].orv)
  BY <1>1, <1>3, ReclaimSkips DEF Reclaim
<1>4. QED
  BY <1>2, <1>3

\* The version top has been put above the others of r, or was the highest already, and holds
\* what the writer t stores.
Stored(t, r, top, val) ==
  /\ top \in Blocks /\ top # p_main[r]
  /\ used' = used \cup {top}
  /\ m_ts' \in [Blocks -> Nat] /\ p_data' \in [Blocks -> Nat \cup {NULL}]
  /\ p_next_version' \in [Blocks -> Blocks \cup {NULL}]
  /\ \A b \in Blocks : /\ m_ts'[b] = IF b = top THEN m_txversion[t] ELSE m_ts[b]
                       /\ p_data'[b] = IF b = top THEN val ELSE p_data[b]
  /\ p_next_version'[p_main[r]] = top
  /\ \A b \in Blocks : b # p_main[r] /\ b # top => p_next_version'[b] = p_next_version[b]
  /\ \/ /\ top \in FreeBlocks /\ p_next_version'[top] = p_next_version[p_main[r]]
        /\ \A x \in Versions(r) : m_ts[x] < m_txversion[t]
     \/ /\ top = p_next_version[p_main[r]] /\ p_next_version'[top] = p_next_version[top]
        /\ m_ts[top] = m_txversion[t]

\* The garbage lists stay as they are or take the root in.
MaybePushed(t, root) ==
  \/ garbage' = garbage
  \/ garbage' = [garbage EXCEPT ![t] = <<root>> \o @]

\* The garbage lists after a store, with the root as a new entry or without it.
LEMMA MaybePushedFacts ==
  ASSUME PoolInv, NEW t \in Txs, NEW root \in Blocks, ~IsEntry(root), MaybePushed(t, root)
  PROVE  /\ garbage' \in [Txs -> Seq(Blocks)]
         /\ \A u \in Txs \ {t} : garbage'[u] = garbage[u]
         /\ \A b : (\E i \in DOMAIN garbage'[t] : garbage'[t][i] = b)
                     => b = root \/ \E i \in DOMAIN garbage[t] : garbage[t][i] = b
         /\ garbage' = garbage => \A b : IsEntry(b)' <=> IsEntry(b)
         /\ garbage' # garbage => \A b : IsEntry(b)' <=> IsEntry(b) \/ b = root
         /\ \A u, w \in Txs : \A i \in DOMAIN garbage'[u], j \in DOMAIN garbage'[w] :
              garbage'[u][i] = garbage'[w][j] => u = w /\ i = j
<1>1. PoolTypeOK /\ HeadsInv
  BY DEF PoolInv
<1>2. CASE garbage' = garbage
  <2>1. \A b : IsEntry(b)' <=> IsEntry(b)
    BY <1>2 DEF IsEntry
  <2>2. QED
    BY <1>1, <1>2, <2>1 DEF PoolTypeOK, HeadsInv
<1>3. CASE garbage' # garbage
  <2>1. Pushed(t, root)
    BY <1>1, <1>3, PushEntry DEF MaybePushed
  <2>2. QED
    BY <1>1, <1>3, <2>1 DEF Pushed
<1>4. QED
  BY <1>2, <1>3

\* The links after a store: the new version is linked once, from the root, to the version before.
LEMMA StoreLinks ==
  ASSUME PoolInv, NEW t \in Txs, IsWriting(t), NEW r \in Rooted, NEW val, NEW top,
         Stored(t, r, top, val),
         UNCHANGED txvars,
         \A b : IsRoot(b)' <=> IsRoot(b),
         \A b \in Blocks : IsHead(b)' <=> IsHead(b)
  PROVE  LinksInv' /\ ~IsHead(top)
<1> USE NullIsNoBlock
<1>1. /\ PoolTypeOK /\ ShapeInv /\ LinksInv /\ HeadsInv /\ ChainOfRef(r)
      /\ top \in Blocks
  BY InvShape, ChainsOfRefs DEF PoolInv, Stored
<1>2. PICK root \in Blocks : root = p_main[r] /\ root \in used /\ IsRoot(root) /\ IsHead(root)
  BY <1>1 DEF ChainOfRef, IsHead
<1>3. /\ used' = used \cup {top} /\ top # root
      /\ m_ts' \in [Blocks -> Nat] /\ p_next_version' \in [Blocks -> Blocks \cup {NULL}]
      /\ \A b \in Blocks : m_ts'[b] = IF b = top THEN m_txversion[t] ELSE m_ts[b]
      /\ p_next_version'[root] = top
      /\ \A b \in Blocks : b # root /\ b # top => p_next_version'[b] = p_next_version[b]
  BY <1>2 DEF Stored
<1>4. InTime(m_txversion[t])' /\ \A v : InTime(v)' <=> InTime(v)
  <2>1. InTime(m_txversion[t])
    BY DEF InTime
  <2>2. \A v : InTime(v)' <=> InTime(v)
    BY SameTx
  <2>3. m_txversion' = m_txversion
    BY DEF txvars
  <2>4. QED
    BY <2>1, <2>2, <2>3 DEF InTime, IsWriting, IsWriter, txvars
<1>5. \A b \in used' : InTime(m_ts[b])'
  <2>1. ASSUME NEW b \in used' PROVE InTime(m_ts[b])'
    <3>1. CASE b = top
      <4>1. m_ts'[b] = m_txversion[t] /\ m_txversion' = m_txversion
        BY <1>1, <1>3, <3>1 DEF txvars
      <4>2. QED
        BY <1>4, <4>1 DEF InTime
    <3>2. CASE b # top
      <4>1. b \in used /\ b \in Blocks
        BY <1>1, <1>3, <3>2 DEF PoolTypeOK
      <4>2. m_ts'[b] = m_ts[b] /\ InTime(m_ts[b])
        BY <1>1, <1>3, <3>2, <4>1 DEF LinksInv
      <4>3. InTime(m_ts[b]')
        BY <4>2
      <4>4. QED
        BY <4>3, SameTx DEF txvars, InTime, IsWriting, IsWriter
    <3>3. QED
      BY <3>1, <3>2
  <2>2. QED
    BY <2>1
<1>6. CASE /\ top \in FreeBlocks /\ p_next_version'[top] = p_next_version[p_main[r]]
           /\ \A x \in Versions(r) : m_ts[x] < m_txversion[t]
  <2>1. /\ top \notin used /\ p_next_version[top] = NULL /\ ~IsHead(top)
        /\ \A b \in Blocks : p_next_version[b] # top
    BY <1>1, <1>6 DEF FreeBlocks, LinksInv, HeadsInv
  <2>2. ASSUME NEW b \in Blocks, p_next_version'[b] # NULL
        PROVE  /\ b \in used' /\ p_next_version'[b] \in used'
               /\ ~IsHead(p_next_version'[b])
               /\ ~IsRoot(b) => m_ts'[p_next_version'[b]] < m_ts'[b]
    <3>1. CASE b = root
      BY <1>2, <1>3, <2>1, <3>1
    <3>2. CASE b = top
      <4>1. PICK x \in Blocks : x = p_next_version'[top]
        BY <1>1, <1>3, <2>2, <3>2
      <4>2. x = p_next_version[root] /\ x # NULL
        BY <1>2, <1>6, <2>2, <3>2, <4>1
      <4>3. x \in used /\ ~IsHead(x) /\ x # top
        BY <1>1, <1>2, <2>1, <4>2 DEF LinksInv
      <4>4. x \in Versions(r)
        BY <1>1, <1>2, <4>2 DEF ChainOfRef
      <4>5. m_ts'[x] < m_ts'[top]
        BY <1>1, <1>3, <1>6, <4>3, <4>4
      <4>6. QED
        BY <1>3, <3>2, <4>1, <4>3, <4>5
    <3>3. CASE b # root /\ b # top
      <4>1. p_next_version'[b] = p_next_version[b] /\ m_ts'[b] = m_ts[b]
        BY <1>3, <3>3
      <4>2. /\ b \in used /\ p_next_version[b] \in used /\ ~IsHead(p_next_version[b])
            /\ ~IsRoot(b) => m_ts[p_next_version[b]] < m_ts[b]
        BY <1>1, <2>2, <4>1 DEF LinksInv
      <4>3. m_ts'[p_next_version[b]] = m_ts[p_next_version[b]]
        BY <1>1, <1>3, <2>1, <4>2 DEF PoolTypeOK
      <4>4. QED
        BY <1>3, <4>1, <4>2, <4>3
    <3>4. QED
      BY <3>1, <3>2, <3>3
  <2>3. ASSUME NEW a \in Blocks, NEW b \in Blocks,
               p_next_version'[a] # NULL, p_next_version'[a] = p_next_version'[b]
        PROVE  a = b
    <3>1. \A c \in Blocks : c # root => p_next_version'[c] # top
      BY <1>1, <1>2, <1>3, <1>6, <2>1
    <3>2. \A c \in Blocks : c # root => p_next_version'[c] = p_next_version[IF c = top THEN root ELSE c]
      BY <1>2, <1>3, <1>6
    <3>3. CASE a = root \/ b = root
      BY <1>3, <2>3, <3>1, <3>3
    <3>4. CASE a # root /\ b # root
      BY <1>1, <1>2, <2>3, <3>2, <3>4 DEF LinksInv
    <3>5. QED
      BY <3>3, <3>4
  <2>4. ASSUME NEW b \in used' PROVE IsHead(b) \/ \E a \in Blocks : p_next_version'[a] = b
    <3>1. CASE b = top
      BY <1>2, <1>3, <3>1
    <3>2. CASE b # top /\ ~IsHead(b)
      <4>1. b \in used
        BY <1>3, <3>2
      <4>2. PICK a \in Blocks : p_next_version[a] = b
        BY <1>1, <3>2, <4>1 DEF LinksInv
      <4>3. a # top
        BY <1>1, <2>1, <4>1, <4>2 DEF PoolTypeOK
      <4>4. CASE a = root
        BY <1>1, <1>2, <1>6, <4>2, <4>4
      <4>5. CASE a # root
        BY <1>3, <4>2, <4>3, <4>5
      <4>6. QED
        BY <4>4, <4>5
    <3>3. QED
      BY <3>1, <3>2
  <2>5. \A b \in Blocks : p_next_version'[b] # NULL => ~IsHead(p_next_version[b])'
    <3>1. ASSUME NEW b \in Blocks, p_next_version'[b] # NULL PROVE ~IsHead(p_next_version[b])'
      <4>1. PICK x \in Blocks : x = p_next_version'[b]
        BY <1>3, <3>1
      <4>2. ~IsHead(x)'
        BY <2>2, <3>1, <4>1
      <4>3. QED
        BY <4>1, <4>2 DEF IsHead, IsRoot, IsEntry, IsDropped
    <3>2. QED
      BY <3>1
  <2>6. \A b \in used' : IsHead(b)' <=> IsHead(b)
    BY <1>1, <1>3 DEF PoolTypeOK
  <2>7. LinksInv'
    BY <1>5, <2>2, <2>3, <2>4, <2>5, <2>6 DEF LinksInv
  <2>8. QED
    BY <2>1, <2>7
<1>7. CASE /\ top = p_next_version[p_main[r]] /\ p_next_version'[top] = p_next_version[top]
           /\ m_ts[top] = m_txversion[t]
  <2>1. top \in used /\ ~IsHead(top)
    BY <1>1, <1>2, <1>7 DEF LinksInv
  <2>2. \A b \in Blocks : p_next_version'[b] = p_next_version[b] /\ m_ts'[b] = m_ts[b]
    BY <1>2, <1>3, <1>7
  <2>3. p_next_version' = p_next_version /\ m_ts' = m_ts /\ used' = used
    BY <1>1, <1>3, <2>1, <2>2 DEF PoolTypeOK
  <2>4. \A b \in Blocks : p_next_version'[b] # NULL => ~IsHead(p_next_version[b])'
    <3>1. ASSUME NEW b \in Blocks, p_next_version[b] # NULL PROVE ~IsHead(p_next_version[b])'
      <4>1. PICK x \in Blocks : x = p_next_version[b] /\ x = p_next_version'[b]
        BY <1>1, <2>3, <3>1 DEF PoolTypeOK
      <4>2. ~IsHead(x)'
        BY <1>1, <3>1, <4>1 DEF LinksInv
      <4>3. QED
        BY <4>1, <4>2 DEF IsHead, IsRoot, IsEntry, IsDropped
    <3>2. QED
      BY <2>3, <3>1
  <2>5. \A b \in used' : IsHead(b)' <=> IsHead(b)
    BY <1>1, <2>3 DEF PoolTypeOK
  <2>6. LinksInv'
    BY <1>1, <1>5, <2>3, <2>4, <2>5 DEF LinksInv
  <2>7. QED
    BY <2>1, <2>6
<1>8. QED
  BY <1>6, <1>7 DEF Stored

\* The versions of a reference after a store, of which the stored one is the youngest.
LEMMA StoreVersions ==
  ASSUME PoolInv, ShapeInv', NEW t \in Txs, NEW r \in Rooted, NEW val, NEW top,
         Stored(t, r, top, val), p_main' = p_main
  PROVE  /\ Versions(r)' = Versions(r) \cup {top}
         /\ FreeCandidate(p_main[r])' = top
         /\ \A x \in Versions(r) : x # top => m_ts[x] < m_txversion[t]
<1> USE NullIsNoBlock
<1>1. /\ PoolTypeOK /\ ShapeInv /\ ChainOfRef(r) /\ LinksOn(p_next_version) /\ LinksOn(p_next_version')
      /\ Descends(p_next_version) /\ Descends(p_next_version') /\ top \in Blocks
  <2>1. /\ PoolTypeOK /\ ShapeInv /\ ChainOfRef(r) /\ Descends(p_next_version) /\ top \in Blocks
    BY InvShape, ChainsOfRefs, LinksDescend DEF PoolInv, Stored
  <2>2. Descends(p_next_version)'
    BY LinksDescend, PTL
  <2>3. Descends(p_next_version')
    BY <2>2 DEF Descends, LinksOn
  <2>4. QED
    BY <2>1, <2>3 DEF Descends
<1>2. PICK root \in Blocks : root = p_main[r] /\ root \notin Versions(r)
  BY <1>1 DEF ChainOfRef
<1>3. p_next_version'[root] = top
  BY <1>2 DEF Stored
<1>4. /\ Versions(r)' = ChainOf(p_next_version', top)
      /\ FreeCandidate(p_main[r])' = top
  BY <1>1, <1>2, <1>3 DEF Versions, Chain, FreeCandidate
<1>5. CASE /\ top \in FreeBlocks /\ p_next_version'[top] = p_next_version[p_main[r]]
           /\ \A x \in Versions(r) : m_ts[x] < m_txversion[t]
  <2>1. PICK y \in Blocks \cup {NULL} : y = p_next_version[root]
    BY <1>1 DEF LinksOn
  <2>2. Versions(r) = ChainOf(p_next_version, y) /\ top \notin Versions(r)
    BY <1>1, <1>2, <1>5, <2>1 DEF Versions, Chain, ChainOfRef, FreeBlocks
  <2>3. \A x \in ChainOf(p_next_version, y) : p_next_version'[x] = p_next_version[x]
    BY <1>1, <1>2, <2>2 DEF Stored, ChainOfRef
  <2>4. ChainOf(p_next_version', y) = ChainOf(p_next_version, y)
    BY <1>1, <2>1, <2>3, ChainFrame
  <2>5. ChainOf(p_next_version', top) = {top} \cup ChainOf(p_next_version', y)
    BY <1>1, <1>2, <1>5, <2>1, ChainUnfolds
  <2>6. QED
    BY <1>4, <1>5, <2>2, <2>4, <2>5
<1>6. CASE /\ top = p_next_version[p_main[r]] /\ p_next_version'[top] = p_next_version[top]
           /\ m_ts[top] = m_txversion[t]
  <2>1. \A b \in Blocks : p_next_version'[b] = p_next_version[b]
    BY <1>2, <1>3, <1>6 DEF Stored
  <2>2. p_next_version' = p_next_version
    BY <1>1, <2>1 DEF LinksOn
  <2>3. Versions(r)' = Versions(r) /\ top \in Versions(r)
    BY <1>1, <1>2, <1>4, <1>6, <2>2 DEF Versions, Chain, ChainOfRef
  <2>4. ASSUME NEW x \in Versions(r), x # top PROVE m_ts[x] < m_txversion[t]
    <3>1. m_ts[x] <= m_ts[top] /\ m_ts[x] # m_ts[top]
      BY <1>1, <1>2, <1>6, <2>3, <2>4 DEF ChainOfRef
    <3>2. m_ts[x] \in Nat /\ m_ts[top] \in Nat
      BY <1>1, <2>4 DEF PoolTypeOK, ChainOfRef
    <3>3. QED
      BY <1>6, <3>1, <3>2
  <2>5. QED
    BY <1>4, <2>3, <2>4
<1>7. QED
  BY <1>5, <1>6 DEF Stored

\* A store by the writer, whether it is a new version or goes into its own one.
LEMMA StoreInv ==
  ASSUME PoolInv, NEW t \in Txs, call[t].op \in {"ptr", "free"}, call[t].then # "read",
         NEW r, r = call[t].ref, NEW val \in Nat \cup {NULL}, NEW top,
         Stored(t, r, top, val),
         val = NULL => p_data[p_main[r]] # NULL,
         Record(r, m_txversion[t], val),
         garbage' = garbage \/ (val = NULL /\ MaybePushed(t, p_main[r])),
         NEW h \in {NULL, [ref |-> r, block |-> top, null |-> FALSE]},
         held' = [held EXCEPT ![t] = h], h # NULL => val # NULL,
         call' = [call EXCEPT ![t] = NoCall],
         UNCHANGED <<p_main, txvars>>
  PROVE  PoolInv'
<1> USE NullIsNoBlock
<1>1. /\ PoolTypeOK /\ ShapeInv /\ TxInv /\ HistInv /\ HeadsInv /\ LinksInv /\ CallInv(t) /\ HeldInv(t)
      /\ CollectInv(t)
  BY InvShape DEF PoolInv, CallInv
<1>2. WriterCall(t)
  <2>1. CASE call[t].then = "sweep"
    BY <1>1, <2>1 DEF CollectInv, SweepCall
  <2>2. QED
    BY <1>1, <2>1 DEF CollectInv
<1>3. /\ IsWriting(t) /\ r \in Rooted /\ r \in Refs /\ call[t].root = p_main[r]
      /\ ~FreedAt(r, m_txversion[t]) /\ IsWriter(t) /\ pc[t] = "running"
  BY <1>2 DEF WriterCall, Rooted, IsWriting
<1>4. ChainOfRef(r) /\ RootedInv(r)
  BY <1>1, <1>3, ChainsOfRefs DEF PoolInv, RefInv, Rooted
<1>5. PICK root \in Blocks : root = p_main[r] /\ IsRoot(root) /\ IsHead(root) /\ root \in used
  BY <1>4 DEF ChainOfRef, IsHead
<1>6. /\ m_txversion[t] \in Nat /\ m_ortxversion[t] < m_txversion[t]
      /\ m_last_write_committed_id \in Nat /\ m_last_write_committed_id < m_txversion[t]
      /\ \A v \in LiveVersions : v \in Nat /\ (v = m_txversion[t] \/ v < m_txversion[t])
      /\ \A u \in Txs : Reading(u) => m_txversion[u] \in LiveVersions /\ m_txversion[u] < m_txversion[t]
  <2>1. /\ m_txversion[t] \in Nat /\ m_ortxversion[t] \in Nat
        /\ m_last_write_committed_id \in Nat
        /\ m_last_write_committed_id < m_txversion[t]
        /\ m_ortxversion[t] <= m_last_write_committed_id
    BY <1>1, <1>3, WriterBounds
  <2>2. \A u \in Txs : IsWriting(u) => u = t
    BY <1>1, <1>3, OneWriter
  <2>3. ASSUME NEW u \in Txs, Reading(u)
        PROVE  m_txversion[u] \in LiveVersions /\ m_txversion[u] < m_txversion[t]
    <3>1. u \in Running /\ ~IsWriter(u)
      BY <2>3 DEF Reading, Running
    <3>2. m_txversion[u] <= m_last_write_committed_id /\ m_txversion[u] \in Nat
      BY <1>1, <3>1 DEF TxInv, SnapshotIsCommitted, TypeOK
    <3>3. QED
      BY <2>1, <3>1, <3>2 DEF LiveVersions
  <2>4. ASSUME NEW v \in LiveVersions PROVE v \in Nat /\ (v = m_txversion[t] \/ v < m_txversion[t])
    <3>1. v \in Nat
      BY <1>1, LiveNat
    <3>2. CASE v = m_last_write_committed_id
      BY <2>1, <3>2
    <3>3. CASE \E u \in Running : v = m_txversion[u]
      <4>1. PICK u \in Running : v = m_txversion[u]
        BY <3>3
      <4>2. IsWriting(u) \/ Reading(u)
        BY <4>1 DEF Running, IsWriting, Reading
      <4>3. u \in Txs
        BY <4>1 DEF Running
      <4>4. QED
        BY <2>2, <2>3, <3>1, <4>1, <4>2, <4>3
    <3>4. QED
      BY <3>1, <3>2, <3>3 DEF LiveVersions
  <2>5. m_ortxversion[t] < m_txversion[t]
    BY <2>1
  <2>6. QED
    BY <2>1, <2>3, <2>4, <2>5
<1>7. /\ call' \in [Txs -> Calls] /\ call'[t] = NoCall
      /\ held' \in [Txs -> {NULL} \cup [ref : Refs, block : Blocks, null : BOOLEAN]]
      /\ held'[t] = h
      /\ \A u \in Txs \ {t} : call'[u] = call[u] /\ held'[u] = held[u]
  <2>1. h \in {NULL} \cup [ref : Refs, block : Blocks, null : BOOLEAN]
    <3>1. top \in Blocks /\ r \in Refs /\ FALSE \in BOOLEAN
      BY <1>3 DEF Stored
    <3>2. [ref |-> r, block |-> top, null |-> FALSE] \in [ref : Refs, block : Blocks, null : BOOLEAN]
      BY <3>1
    <3>3. QED
      BY <3>2
  <2>2. QED
    BY <1>1, <2>1, CallFields DEF PoolTypeOK
<1>8. /\ top \in Blocks /\ top # root /\ used' = used \cup {top}
      /\ m_ts' \in [Blocks -> Nat] /\ p_data' \in [Blocks -> Nat \cup {NULL}]
      /\ p_next_version' \in [Blocks -> Blocks \cup {NULL}]
      /\ \A b \in Blocks : /\ m_ts'[b] = IF b = top THEN m_txversion[t] ELSE m_ts[b]
                           /\ p_data'[b] = IF b = top THEN val ELSE p_data[b]
      /\ \A b \in Blocks : b # root /\ b # top => p_next_version'[b] = p_next_version[b]
      /\ top \in FreeBlocks \/ (top = p_next_version[root] /\ m_ts[top] = m_txversion[t])
      /\ p_main' = p_main /\ Rooted' = Rooted /\ UNCHANGED txvars
  BY <1>5 DEF Stored, Rooted
\* The reference was not freed, so its root is in no garbage list.
<1>9. ~IsEntry(root)
  <2> SUFFICES ASSUME NEW u \in Txs, NEW i \in DOMAIN garbage[u], garbage[u][i] = root PROVE FALSE
    BY DEF IsEntry
  <2>1. call[t].op \notin {"none", "walk"}
    OBVIOUS
  <2>2. Alone(t, r)
    BY <1>3, <2>1, CollectsAlone
  <2>3. u = t
    BY <1>5, <2>2 DEF Alone
  <2>4. Last(r).val = NULL
    BY <1>3, <1>5, <2>3 DEF PoolInv, GarbageInv, FreedBy
  <2>5. QED
    BY <1>3, <2>4, WriterSeesLast
<1>10. MaybePushed(t, root)
  BY <1>5 DEF MaybePushed
<1>11. /\ garbage' \in [Txs -> Seq(Blocks)]
       /\ \A u \in Txs \ {t} : garbage'[u] = garbage[u]
       /\ \A b : (\E i \in DOMAIN garbage'[t] : garbage'[t][i] = b)
                   => b = root \/ \E i \in DOMAIN garbage[t] : garbage[t][i] = b
       /\ garbage' = garbage => \A b : IsEntry(b)' <=> IsEntry(b)
       /\ garbage' # garbage => \A b : IsEntry(b)' <=> IsEntry(b) \/ b = root
       /\ \A u, w \in Txs : \A i \in DOMAIN garbage'[u], j \in DOMAIN garbage'[w] :
            garbage'[u][i] = garbage'[w][j] => u = w /\ i = j
  BY <1>9, <1>10, MaybePushedFacts
<1>12. \A b : /\ IsRoot(b)' <=> IsRoot(b)
              /\ IsDropped(b)' <=> IsDropped(b)
              /\ IsHead(b)' <=> IsHead(b)
              /\ IsLeftover(b)' <=> IsLeftover(b)
              /\ IsEntry(b)' => IsEntry(b) \/ b = root
  <2>1. \A b : IsRoot(b)' <=> IsRoot(b)
    BY <1>8 DEF IsRoot
  <2>2. \A b : IsDropped(b)' <=> IsDropped(b)
    BY <1>7 DEF IsDropped, NoCall
  <2>3. \A b : (IsEntry(b) => IsEntry(b)') /\ (IsEntry(b)' => IsEntry(b) \/ b = root)
    BY <1>11
  <2>4. QED
    BY <1>5, <2>1, <2>2, <2>3 DEF IsHead, IsLeftover
<1>13. LinksInv' /\ ~IsHead(top)
  BY <1>3, <1>8, <1>12, StoreLinks
<1>14. HeadsInv'
  <2>1. \A b \in Blocks : /\ IsHead(b)' => b \in used'
                          /\ IsLeftover(b)' => p_next_version'[b] = NULL
                          /\ IsDropped(b)' => ~IsRoot(b)' /\ ~IsEntry(b)'
    <3>1. \A b \in Blocks : IsLeftover(b) => b # root /\ b # top /\ p_next_version[b] = NULL
      BY <1>1, <1>5, <1>13 DEF HeadsInv, IsLeftover, IsHead
    <3>2. QED
      BY <1>1, <1>5, <1>8, <1>12, <3>1 DEF HeadsInv
  <2>2. \A u, w \in Txs :
          call'[u].op = "drop" /\ call'[w].op = "drop" /\ call'[u].at = call'[w].at => u = w
    BY <1>1, <1>7 DEF HeadsInv, NoCall
  <2>3. \A q, s \in Rooted' : p_main'[q] = p_main'[s] => q = s
    BY <1>1, <1>8 DEF HeadsInv
  <2>4. QED
    BY <1>11, <2>1, <2>2, <2>3 DEF HeadsInv
<1>15. /\ hist' \in [Refs -> Seq([ver : Nat, val : Nat \cup {NULL}])]
       /\ \A s \in Refs \ {r} : hist'[s] = hist[s]
       /\ hist'[r] # <<>> /\ Last(r)'.ver = m_txversion[t] /\ Last(r)'.val = val
       /\ \A i, j \in DOMAIN hist'[r] : i < j => hist'[r][i].ver < hist'[r][j].ver
       /\ \A i \in DOMAIN hist'[r] :
            hist'[r][i].ver = m_txversion[t] \/ \E j \in DOMAIN hist[r] : hist'[r][i].ver = hist[r][j].ver
       /\ \A u \in Nat : u < m_txversion[t] => /\ HistoryAt(r, u)' = HistoryAt(r, u)
                                               /\ FreedAt(r, u)' <=> FreedAt(r, u)
       /\ \A u \in Nat : m_txversion[t] <= u => /\ HistoryAt(r, u)' = val
                                                /\ FreedAt(r, u)' <=> val = NULL
  <2>1. PICK v \in Nat : v = m_txversion[t]
    BY <1>6
  <2>2. \A i \in DOMAIN hist[r] : hist[r][i].ver <= v
    BY <1>3, <2>1, WriterSeesLast
  <2>3. Record(r, v, val)
    BY <2>1
  <2>4. /\ hist' \in [Refs -> Seq([ver : Nat, val : Nat \cup {NULL}])]
        /\ \A s \in Refs \ {r} : hist'[s] = hist[s]
        /\ hist'[r] # <<>> /\ Last(r)'.ver = v /\ Last(r)'.val = val
        /\ \A i, j \in DOMAIN hist'[r] : i < j => hist'[r][i].ver < hist'[r][j].ver
        /\ \A i \in DOMAIN hist'[r] :
             hist'[r][i].ver = v \/ \E j \in DOMAIN hist[r] : hist'[r][i].ver = hist[r][j].ver
        /\ \A u \in Nat : u < v => /\ HistoryAt(r, u)' = HistoryAt(r, u)
                                   /\ FreedAt(r, u)' <=> FreedAt(r, u)
        /\ \A u \in Nat : v <= u => /\ HistoryAt(r, u)' = val
                                    /\ FreedAt(r, u)' <=> val = NULL
    <3>1. PoolTypeOK /\ HistInv /\ r \in Refs
      BY <1>1, <1>3
    <3>2. QED
      BY ONLY <3>1, <2>2, <2>3, RecordHistory
  <2>5. QED
    BY <2>1, <2>4
<1>16. HistInv'
  <2>1. \A v : InTime(v) => InTime(v)'
    BY <1>8, SameTx
  <2>2. InTime(m_txversion[t])
    BY <1>3 DEF InTime
  <2>3. ASSUME NEW s \in Refs, NEW i \in DOMAIN hist'[s] PROVE InTime(hist'[s][i].ver)
    <3>1. CASE s = r
      <4>1. hist'[r][i].ver = m_txversion[t] \/ \E j \in DOMAIN hist[r] : hist'[r][i].ver = hist[r][j].ver
        BY <1>15, <2>3, <3>1
      <4>2. QED
        BY <1>1, <1>3, <2>2, <3>1, <4>1 DEF HistInv
    <3>2. CASE s # r
      BY <1>1, <1>15, <2>3, <3>2 DEF HistInv
    <3>3. QED
      BY <3>1, <3>2
  <2>4. ASSUME NEW s \in Refs
        PROVE  \A i, j \in DOMAIN hist'[s] : i < j => hist'[s][i].ver < hist'[s][j].ver
    BY <1>1, <1>15 DEF HistInv
  <2>5. \A s \in Refs : \A i \in DOMAIN hist'[s] : InTime(hist[s][i].ver)'
    BY <1>8, <2>3, SameTx DEF InTime, IsWriting, IsWriter, txvars
  <2>6. QED
    BY <2>4, <2>5 DEF HistInv
<1>17. PoolTypeOK'
  BY <1>1, <1>7, <1>8, <1>11, <1>15, ZenonT(30) DEF PoolTypeOK
<1>18. ShapeInv'
  BY <1>1, <1>8, <1>13, <1>14, <1>17, TxInvNext DEF ShapeInv
<1>19. /\ Versions(r)' = Versions(r) \cup {top}
       /\ FreeCandidate(p_main[r])' = top
       /\ \A x \in Versions(r) : x # top => m_ts[x] < m_txversion[t]
  BY <1>3, <1>8, <1>18, StoreVersions
<1>20. /\ LiveVersions' = LiveVersions /\ m_last_write_committed_id' = m_last_write_committed_id
       /\ pc' = pc /\ m_txversion' = m_txversion /\ m_ortxversion' = m_ortxversion
       /\ \A u : (IsWriting(u)' <=> IsWriting(u)) /\ (IsWriter(u)' <=> IsWriter(u))
  BY <1>8, SameTx DEF txvars
<1>21. Versions(r) \subseteq Blocks /\ root \notin Versions(r) /\ \A x \in Versions(r) : m_ts[x] \in Nat
  BY <1>1, <1>4, <1>5 DEF ChainOfRef, PoolTypeOK
<1>22. RefInv(r)'
  <2>1. ASSUME NEW v \in LiveVersions, NEW y \in Blocks, Seen(r, v, y)'
        PROVE  FreedAt(r, v)' \/ p_data'[y] = HistoryAt(r, v)'
    <3>1. \/ /\ y \in Versions(r)' /\ m_ts'[y] <= v
             /\ \A x \in Versions(r)' : m_ts'[x] <= v => m_ts'[x] <= m_ts'[y]
          \/ /\ y = root
             /\ \A x \in Versions(r)' : m_ts'[x] > v
      BY <1>5, <1>8, <2>1 DEF Seen
    <3>2. CASE v = m_txversion[t]
      <4>1. m_ts'[top] = v /\ top \in Versions(r)' /\ v \in Nat
        BY <1>6, <1>8, <1>19, <3>2
      <4>2. y \in Versions(r)' /\ m_ts'[top] <= m_ts'[y]
        BY <3>1, <4>1
      <4>3. y = top
        <5> SUFFICES ASSUME y # top PROVE FALSE
          OBVIOUS
        <5>1. y \in Versions(r) /\ m_ts'[y] = m_ts[y]
          BY <1>8, <1>19, <4>2
        <5>2. m_ts[y] < m_txversion[t] /\ m_ts[y] \in Nat
          BY <1>19, <1>21, <5>1
        <5>3. QED
          BY <3>2, <4>1, <4>2, <5>1, <5>2
      <4>4. HistoryAt(r, v)' = val
        <5>1. \A w \in Nat : m_txversion[t] <= w => HistoryAt(r, w)' = val
          BY <1>15
        <5>2. QED
          BY <3>2, <4>1, <5>1
      <4>5. QED
        BY <1>8, <4>3, <4>4
    <3>3. CASE v < m_txversion[t]
      <4>1. v \in Nat
        BY <1>6
      <4>2. HistoryAt(r, v)' = HistoryAt(r, v) /\ (FreedAt(r, v)' <=> FreedAt(r, v))
        BY <1>15, <3>3, <4>1
      <4>3. ~(m_ts'[top] <= v)
        BY <1>6, <1>8, <3>3, <4>1
      <4>4. y # top /\ p_data'[y] = p_data[y]
        BY <1>8, <3>1, <4>3
      <4>5. Seen(r, v, y)
        <5>1. CASE y = root /\ \A x \in Versions(r)' : m_ts'[x] > v
          <6>1. \A x \in Versions(r) : m_ts[x] > v
            <7>1. ASSUME NEW x \in Versions(r) PROVE m_ts[x] > v
              <8>1. m_ts'[x] > v /\ x \in Blocks
                BY <1>19, <1>21, <5>1
              <8>2. CASE x = top
                <9>1. m_ts[top] = m_txversion[t]
                  BY <1>4, <1>8, <7>1, <8>2 DEF FreeBlocks, ChainOfRef
                <9>2. QED
                  BY <1>6, <3>3, <4>1, <8>2, <9>1
              <8>3. QED
                BY <1>8, <8>1, <8>2
            <7>2. QED
              BY <7>1
          <6>2. QED
            BY <1>5, <5>1, <6>1 DEF Seen
        <5>2. CASE /\ y \in Versions(r)' /\ m_ts'[y] <= v
                   /\ \A x \in Versions(r)' : m_ts'[x] <= v => m_ts'[x] <= m_ts'[y]
          <6>1. y \in Versions(r) /\ m_ts'[y] = m_ts[y]
            BY <1>8, <1>19, <4>4, <5>2
          <6>2. ASSUME NEW x \in Versions(r), m_ts[x] <= v PROVE m_ts[x] <= m_ts[y]
            <7>1. x # top
              <8> SUFFICES ASSUME x = top PROVE FALSE
                OBVIOUS
              <8>1. m_ts[top] = m_txversion[t]
                BY <1>4, <1>8, <6>2 DEF FreeBlocks, ChainOfRef
              <8>2. QED
                BY <1>6, <3>3, <4>1, <6>2, <8>1
            <7>2. m_ts'[x] = m_ts[x]
              BY <1>8, <1>21, <7>1
            <7>3. QED
              BY <1>19, <5>2, <6>1, <6>2, <7>2
          <6>3. QED
            BY <5>2, <6>1, <6>2 DEF Seen
        <5>3. QED
          BY <3>1, <5>1, <5>2
      <4>6. QED
        BY <1>4, <4>2, <4>4, <4>5 DEF RootedInv
    <3>4. QED
      BY <1>6, <3>2, <3>3
  <2>2. ASSUME NEW b \in Versions(r)', p_data'[b] = NULL
        PROVE  p_data'[root] # NULL \/ Unlinking(root)'
    <3>1. p_data'[root] = p_data[root]
      BY <1>8
    <3>2. CASE b = top
      BY <1>5, <1>8, <2>2, <3>1, <3>2
    <3>3. CASE b # top
      <4>1. b \in Versions(r) /\ p_data[b] = NULL
        BY <1>8, <1>19, <1>21, <2>2, <3>3
      <4>2. p_data[root] # NULL \/ Unlinking(root)
        BY <1>4, <1>5, <4>1 DEF RootedInv
      <4>3. ASSUME Unlinking(root) PROVE Unlinking(root)'
        <5>1. PICK u \in Txs : call[u].op = "unlink" /\ call[u].root = root
          BY <4>3 DEF Unlinking
        <5>2. call'[u] = call[u]
          BY <1>7, <5>1
        <5>3. QED
          BY <5>1, <5>2 DEF Unlinking
      <4>4. QED
        BY <3>1, <4>2, <4>3
    <3>4. QED
      BY <3>2, <3>3
  <2>3. RootedInv(r)'
    <3>1. /\ m_ts'[p_main'[r]] <= m_last_write_committed_id'
          /\ hist'[r] # <<>>
          /\ m_ts'[FreeCandidate(p_main[r])'] = Last(r)'.ver
      BY <1>4, <1>5, <1>8, <1>15, <1>19, <1>20 DEF RootedInv
    <3>2. ASSUME NEW b \in Versions(r)' PROVE m_ts'[p_main'[r]] < m_ts'[b]
      <4>1. m_ts'[p_main'[r]] = m_ts[root] /\ m_ts[root] <= m_last_write_committed_id /\ m_ts[root] \in Nat
        BY <1>1, <1>4, <1>5, <1>8 DEF RootedInv, PoolTypeOK
      <4>2. CASE b = top
        BY <1>6, <1>8, <4>1, <4>2
      <4>3. CASE b # top
        <5>1. b \in Versions(r) /\ m_ts'[b] = m_ts[b]
          BY <1>8, <1>19, <1>21, <3>2, <4>3
        <5>2. QED
          BY <1>4, <1>5, <4>1, <5>1 DEF RootedInv
      <4>4. QED
        BY <4>2, <4>3
    <3>3. \A v \in LiveVersions', y \in Blocks :
            Seen(r, v, y)' => FreedAt(r, v)' \/ p_data'[y] = HistoryAt(r, v)'
      BY <1>20, <2>1
    <3>4. \A b \in Versions(r)' : p_data'[b] = NULL => p_data'[p_main'[r]] # NULL \/ Unlinking(p_main[r])'
      <4>1. Unlinking(p_main[r])' <=> Unlinking(root)'
        BY <1>5, <1>8 DEF Unlinking
      <4>2. QED
        BY <1>5, <1>8, <2>2, <4>1
    <3>5. QED
      BY <3>1, <3>2, <3>3, <3>4 DEF RootedInv
  <2>4. QED
    BY <1>5, <1>8, <2>3 DEF RefInv
<1>23. \A b \in Blocks : IsLeftover(b) => IsLeftover(b)' /\ m_ts'[b] = m_ts[b] /\ p_data'[b] = p_data[b]
  BY <1>8, <1>12, <1>13 DEF IsLeftover, IsHead
<1>24. Frame(t, {r})
  <2>1. ASSUME NEW s \in Refs, s # r PROVE SameRef(s)
    <3>1. ASSUME s \in Rooted, NEW b \in Chain(p_main[s])
          PROVE  m_ts'[b] = m_ts[b] /\ p_data'[b] = p_data[b] /\ p_next_version'[b] = p_next_version[b]
      <4>1. Chain(p_main[r]) \cap Chain(p_main[s]) = {} /\ Chain(p_main[r]) = {root} \cup Versions(r)
        BY <1>1, <1>3, <1>4, <1>5, <2>1, <3>1, RefsApart DEF ChainOfRef
      <4>2. b \in Blocks /\ b \in used
        BY <1>1, <3>1, ChainsOfRefs DEF ChainOfRef
      <4>3. b # root /\ b # top
        BY <1>4, <1>5, <1>8, <3>1, <4>1, <4>2 DEF FreeBlocks, ChainOfRef
      <4>4. QED
        BY <1>8, <4>2, <4>3
    <3>2. QED
      BY <1>8, <1>15, <2>1, <3>1 DEF SameRef
  <2>2. SameLeftovers(t)
    BY <1>23 DEF SameLeftovers
  <2>3. Alone(t, r)
    BY <1>3, CollectsAlone
  <2>4. QED
    BY <1>3, <1>7, <1>8, <1>11, <2>1, <2>2, <2>3 DEF Frame, Alone
<1>25. CallInv(t)'
  BY <1>7 DEF CallInv, Idle, NoCall
<1>26. r \in Rooted' /\ p_main'[r] = p_main[r]
  BY <1>3, <1>8
<1>27. HeldInv(t)'
  <2>1. CASE h = NULL
    BY <1>7, <2>1 DEF HeldInv
  <2>2. CASE h # NULL
    <3>1. held'[t].ref = r /\ held'[t].block = top /\ val # NULL /\ held'[t] # NULL
      BY <1>7, <2>2
    <3>2. ~FreedEarlier(t, r)'
      <4>1. \A w \in Nat : m_txversion[t] <= w => (FreedAt(r, w)' <=> val = NULL)
        BY <1>15
      <4>2. ~FreedAt(r, m_txversion[t])'
        BY <1>6, <1>20, <3>1, <4>1
      <4>3. QED
        BY <4>2 DEF FreedEarlier
    <3>3. top \in Versions(r)' /\ m_ts'[top] > m_ortxversion[t]
      <4>1. m_ts'[top] = m_txversion[t]
        BY <1>8
      <4>2. m_ortxversion[t] \in Nat
        BY <1>1 DEF TxInv, TypeOK
      <4>3. QED
        BY <1>6, <1>19, <4>1, <4>2
    <3>4. QED
      BY <1>3, <1>8, <1>26, <3>1, <3>2, <3>3, HoldOn
  <2>3. QED
    BY <2>1, <2>2
<1>28. /\ \A u \in Txs : call[u].op = "walk" /\ call[u].ref = r /\ call'[u] = call[u] => WalkInv(u)'
       /\ \A u \in Txs : Reading(u) /\ held[u] # NULL /\ held[u].ref = r /\ held'[u] = held[u] => HeldInv(u)'
  <2>1. \A b \in Versions(r) : b \in Versions(r)' /\ m_ts'[b] = m_ts[b]
    <3>1. ASSUME NEW b \in Versions(r) PROVE m_ts'[b] = m_ts[b]
      <4>1. b = top => m_ts[top] = m_txversion[t]
        BY <1>4, <1>8, <3>1 DEF FreeBlocks, ChainOfRef
      <4>2. QED
        BY <1>8, <1>21, <3>1, <4>1
    <3>2. QED
      BY <1>19, <3>1
  <2>2. \A b \in Versions(r)' : b \notin Versions(r) =>
          \A u \in Txs : Reading(u) => ~(m_ts'[b] <= m_txversion[u]) /\ m_ts'[b] > m_txversion[u]
    <3>1. ASSUME NEW u \in Txs, Reading(u) PROVE ~(m_ts'[top] <= m_txversion[u]) /\ m_ts'[top] > m_txversion[u]
      <4>1. m_txversion[u] \in Nat /\ m_txversion[u] < m_txversion[t] /\ m_ts'[top] = m_txversion[t]
        BY <1>1, <1>6, <1>8, <3>1 DEF TxInv, TypeOK
      <4>2. QED
        BY <1>6, <4>1
    <3>2. QED
      BY <1>19, <3>1
  <2>3. \A u \in Txs : Reading(u) =>
          /\ HistoryAt(r, m_txversion[u])' = HistoryAt(r, m_txversion[u])
          /\ FreedAt(r, m_txversion[u])' <=> FreedAt(r, m_txversion[u])
    <3>1. ASSUME NEW u \in Txs, Reading(u)
          PROVE  /\ HistoryAt(r, m_txversion[u])' = HistoryAt(r, m_txversion[u])
                 /\ FreedAt(r, m_txversion[u])' <=> FreedAt(r, m_txversion[u])
      <4>1. PICK v \in Nat : v = m_txversion[u] /\ v < m_txversion[t] /\ v = m_txversion'[u]
        BY <1>1, <1>6, <1>20, <3>1 DEF TxInv, TypeOK
      <4>2. HistoryAt(r, v)' = HistoryAt(r, v) /\ (FreedAt(r, v)' <=> FreedAt(r, v))
        BY <1>15, <4>1
      <4>3. /\ HistoryAt(r, m_txversion[u])' = HistoryAt(r, v)'
            /\ FreedAt(r, m_txversion[u])' <=> FreedAt(r, v)'
        BY <4>1 DEF HistoryAt, FreedAt
      <4>4. QED
        BY <4>1, <4>2, <4>3
    <3>2. QED
      BY <3>1
  <2>4. QED
    BY <1>3, <1>8, <1>23, <1>26, <2>1, <2>2, <2>3, ReadersGoOn
<1>29. ASSUME NEW u \in Txs, u # t, held[u] # NULL, held[u].ref = r, held'[u] = held[u] PROVE HeldInv(u)'
  <2>1. HeldInv(u)
    BY DEF PoolInv
  <2>2. pc[u] = "running"
    BY <1>29, <2>1 DEF HeldInv
  <2>3. Reading(u)
    BY <1>1, <1>3, <1>29, <2>2, OneWriter DEF Reading, IsWriting
  <2>4. QED
    BY <1>28, <1>29, <2>3
<1>30. ASSUME NEW i \in DOMAIN garbage'[t], NEW s \in Refs, p_main'[s] = garbage'[t][i]
       PROVE  FreedBy(t, s)'
  <2>1. CASE s = r
    <3>1. garbage' # garbage
      <4>1. garbage'[t][i] = root
        BY <1>5, <1>8, <1>30, <2>1
      <4>2. QED
        BY <1>9, <4>1 DEF IsEntry
    <3>2. Last(r)'.val = NULL /\ Last(r)'.ver = m_txversion'[t] /\ IsWriting(t)'
      BY <1>3, <1>15, <1>20, <3>1
    <3>3. QED
      BY <2>1, <3>2 DEF FreedBy
  <2>2. CASE s # r
    <3>1. p_main[s] # NULL /\ p_main[s] # root
      <4>1. garbage'[t] \in Seq(Blocks)
        BY <1>11
      <4>2. garbage'[t][i] \in Blocks
        BY <4>1, SeqFacts
      <4>3. s \in Rooted
        BY <1>8, <1>30, <4>2 DEF Rooted
      <4>4. QED
        BY <1>1, <1>3, <1>5, <2>2, <4>3 DEF HeadsInv, Rooted
    <3>2. \E j \in DOMAIN garbage'[t] : garbage'[t][j] = p_main[s]
      BY <1>8, <1>30
    <3>3. \E j \in DOMAIN garbage[t] : garbage[t][j] = p_main[s]
      BY <1>11, <3>1, <3>2
    <3>4. FreedBy(t, s)
      BY <3>3 DEF PoolInv, GarbageInv
    <3>5. QED
      BY <1>15, <1>20, <2>2, <3>4 DEF FreedBy, Last
  <2>3. QED
    BY <2>1, <2>2
<1>31. QED
  <2>1. {r} \in SUBSET Refs /\ call[t].op # "unlink"
    BY <1>3
  <2>2. /\ \A u \in Txs \ {t} : call[u].op = "walk" /\ call[u].ref \in {r} => WalkInv(u)'
        /\ \A u \in Txs : held[u] # NULL /\ held'[u] = held[u] /\ held[u].ref \in {r} => HeldInv(u)'
    BY <1>7, <1>27, <1>28, <1>29
  <2>3. \A s \in {r} : RefInv(s)'
    BY <1>22
  <2>4. QED
    BY <1>13, <1>14, <1>16, <1>17, <1>24, <1>25, <1>27, <1>30, <2>1, <2>2, <2>3, PoolFrame

\* There is room in the pool for the block that a write or a free takes.
LEMMA NewBlockIsFree == PoolTypeOK /\ FreeBlocks # {} => NewBlock \in FreeBlocks
<1> SUFFICES ASSUME FreeBlocks # {} PROVE NewBlock \in FreeBlocks
  OBVIOUS
<1>1. FreeBlocks \in SUBSET Nat
  BY PoolAssumption DEF FreeBlocks
<1>2. \E n \in FreeBlocks : \A m \in FreeBlocks : n <= m
  BY <1>1, LeastNumber
<1>3. QED
  BY <1>2 DEF NewBlock, Smallest

\* A new version above the ones of r is the effect of these assignments.
LEMMA PushStored ==
  ASSUME PoolInv, NEW t \in Txs, IsWriting(t), NEW r \in Rooted, FreeBlocks # {},
         NEW val \in Nat \cup {NULL}, m_ts[FreeCandidate(p_main[r])] < m_txversion[t],
         used' = used \cup {NewBlock},
         m_ts' = [m_ts EXCEPT ![NewBlock] = m_txversion[t]],
         p_data' = [p_data EXCEPT ![NewBlock] = val],
         p_next_version' = [p_next_version EXCEPT ![NewBlock] = p_next_version[p_main[r]],
                                                  ![p_main[r]] = NewBlock]
  PROVE  Stored(t, r, NewBlock, val)
<1> USE NullIsNoBlock
<1>1. PoolTypeOK /\ ShapeInv /\ TxInv /\ ChainOfRef(r)
  BY InvShape, ChainsOfRefs DEF PoolInv
<1>2. PICK root \in Blocks : root = p_main[r] /\ root \in used
  BY <1>1 DEF ChainOfRef
<1>3. PICK b \in Blocks : b = NewBlock /\ b \in FreeBlocks /\ b # root
  BY <1>1, <1>2, NewBlockIsFree DEF FreeBlocks
<1>4. m_txversion[t] \in Nat
  BY <1>1 DEF TxInv, TypeOK
<1>5. /\ m_ts' = [m_ts EXCEPT ![b] = m_txversion[t]]
      /\ p_data' = [p_data EXCEPT ![b] = val]
      /\ p_next_version' = [p_next_version EXCEPT ![b] = p_next_version[root], ![root] = b]
      /\ used' = used \cup {b}
  BY <1>2, <1>3
<1>6. /\ m_ts' \in [Blocks -> Nat] /\ p_data' \in [Blocks -> Nat \cup {NULL}]
      /\ \A x \in Blocks : /\ m_ts'[x] = IF x = b THEN m_txversion[t] ELSE m_ts[x]
                           /\ p_data'[x] = IF x = b THEN val ELSE p_data[x]
  BY <1>1, <1>3, <1>4, <1>5 DEF PoolTypeOK
<1>7. /\ p_next_version' \in [Blocks -> Blocks \cup {NULL}]
      /\ p_next_version'[root] = b /\ p_next_version'[b] = p_next_version[root]
      /\ \A x \in Blocks : x # root /\ x # b => p_next_version'[x] = p_next_version[x]
  <2>1. p_next_version \in [Blocks -> Blocks \cup {NULL}]
    BY <1>1 DEF PoolTypeOK
  <2>2. PICK y \in Blocks \cup {NULL} : y = p_next_version[root]
    BY <2>1
  <2>3. p_next_version' = [p_next_version EXCEPT ![b] = y, ![root] = b]
    BY <1>5, <2>2
  <2>4. p_next_version' \in [Blocks -> Blocks \cup {NULL}]
    BY <2>1, <2>3
  <2>5. /\ p_next_version'[root] = b /\ p_next_version'[b] = y
        /\ \A x \in Blocks : x # root /\ x # b => p_next_version'[x] = p_next_version[x]
    BY <1>3, <2>1, <2>3
  <2>6. QED
    BY <2>2, <2>4, <2>5
<1>8. ASSUME NEW x \in Versions(r) PROVE m_ts[x] < m_txversion[t]
  <2>1. p_next_version[root] # NULL /\ m_ts[x] <= m_ts[p_next_version[root]]
    BY <1>1, <1>2 DEF ChainOfRef
  <2>2. FreeCandidate(p_main[r]) = p_next_version[root]
    BY <1>2, <2>1 DEF FreeCandidate
  <2>3. m_ts[x] \in Nat /\ m_ts[p_next_version[root]] \in Nat
    BY <1>1, <1>2, <2>1 DEF PoolTypeOK, ChainOfRef
  <2>4. QED
    BY <1>4, <2>1, <2>2, <2>3
<1>9. QED
  BY <1>2, <1>3, <1>5, <1>6, <1>7, <1>8 DEF Stored

\* A store into the writer's own version.
LEMMA InPlaceStored ==
  ASSUME PoolInv, NEW t \in Txs, IsWriting(t), NEW r \in Rooted, NEW val \in Nat \cup {NULL},
         m_ts[FreeCandidate(p_main[r])] = m_txversion[t],
         p_data' = [p_data EXCEPT ![FreeCandidate(p_main[r])] = val],
         UNCHANGED <<used, m_ts, p_next_version>>
  PROVE  Stored(t, r, FreeCandidate(p_main[r]), val)
<1> USE NullIsNoBlock
<1>1. PoolTypeOK /\ ShapeInv /\ TxInv /\ ChainOfRef(r) /\ RootedInv(r)
  BY InvShape, ChainsOfRefs DEF PoolInv, RefInv, Rooted
<1>2. PICK root \in Blocks : root = p_main[r] /\ root \in used
  BY <1>1 DEF ChainOfRef
<1>3. m_ts[root] # m_txversion[t]
  <2>1. m_ts[root] \in Nat /\ m_ts[root] <= m_last_write_committed_id
    BY <1>1, <1>2 DEF PoolTypeOK, RootedInv
  <2>2. /\ m_txversion[t] \in Nat /\ m_last_write_committed_id \in Nat
        /\ m_last_write_committed_id < m_txversion[t]
    BY <1>1, WriterBounds
  <2>3. QED
    BY <2>1, <2>2
<1>4. PICK y \in Blocks : y = p_next_version[root] /\ y = FreeCandidate(p_main[r]) /\ y # root
  <2>1. FreeCandidate(p_main[r]) # root
    BY <1>3
  <2>2. p_next_version[root] # NULL
    BY <1>2, <2>1 DEF FreeCandidate
  <2>3. FreeCandidate(p_main[r]) = p_next_version[root]
    BY <1>2, <2>2 DEF FreeCandidate
  <2>4. p_next_version[root] \in Blocks
    BY <1>1, <2>2 DEF PoolTypeOK
  <2>5. QED
    BY <2>1, <2>3, <2>4
<1>5. /\ y \in used /\ m_ts[y] = m_txversion[t]
      /\ p_data' = [p_data EXCEPT ![y] = val]
  BY <1>1, <1>2, <1>4 DEF ShapeInv, LinksInv
<1>6. /\ p_data' \in [Blocks -> Nat \cup {NULL}]
      /\ \A x \in Blocks : /\ m_ts'[x] = IF x = y THEN m_txversion[t] ELSE m_ts[x]
                           /\ p_data'[x] = IF x = y THEN val ELSE p_data[x]
  <2>1. p_data \in [Blocks -> Nat \cup {NULL}]
    BY <1>1 DEF PoolTypeOK
  <2>2. p_data' \in [Blocks -> Nat \cup {NULL}] /\ \A x \in Blocks : p_data'[x] = IF x = y THEN val ELSE p_data[x]
    BY <1>5, <2>1
  <2>3. \A x \in Blocks : m_ts'[x] = IF x = y THEN m_txversion[t] ELSE m_ts[x]
    BY <1>5
  <2>4. QED
    BY <2>2, <2>3
<1>7. m_ts' \in [Blocks -> Nat] /\ p_next_version' \in [Blocks -> Blocks \cup {NULL}] /\ used' = used \cup {y}
  BY <1>1, <1>5 DEF PoolTypeOK
<1>8. p_next_version'[root] = y /\ \A x \in Blocks : p_next_version'[x] = p_next_version[x]
  BY <1>4
<1>9. QED
  BY <1>2, <1>4, <1>5, <1>6, <1>7, <1>8 DEF Stored

\* fdb_txpool_alloc_ptr for a write, with a new version or into the own one.
LEMMA WriterStores ==
  ASSUME PoolInv, NEW t \in Txs, WriterWrite(t)
  PROVE  \E r \in Rooted, b \in Blocks :
           /\ IsWriting(t) /\ r = call[t].ref /\ call[t].op = "ptr" /\ call[t].then = "write"
           /\ Stored(t, r, b, m_id[t])
           /\ Record(r, m_txversion[t], m_id[t])
           /\ held' = [held EXCEPT ![t] = [ref |-> r, block |-> b, null |-> FALSE]]
           /\ call' = [call EXCEPT ![t] = NoCall]
           /\ UNCHANGED <<p_main, garbage, txvars>>
<1> USE NullIsNoBlock
<1>1. /\ PoolTypeOK /\ TxInv /\ CollectInv(t) /\ call[t].op = "ptr" /\ call[t].then = "write"
  BY DEF PoolInv, CallInv, WriterWrite
<1>2. WriterCall(t)
  BY <1>1 DEF CollectInv
<1>3. PICK r \in Rooted : r = call[t].ref
  BY <1>2 DEF WriterCall
<1>4. /\ IsWriting(t) /\ call[t].root = p_main[r] /\ FreeBlocks # {} /\ ~FreedAt(r, m_txversion[t])
  BY <1>1, <1>2, <1>3 DEF WriterCall
<1>5. m_id[t] \in Nat /\ m_txversion[t] \in Nat
  BY <1>1 DEF TxInv, TypeOK
<1>6. PICK old \in Blocks : /\ old = Visible(call[t].root, m_txversion[t])
                            /\ old = FreeCandidate(p_main[r])
  BY <1>4, WriterSeesTop
<1>7. m_ts[old] \in Nat /\ m_ts[old] <= m_txversion[t]
  BY <1>1, <1>3, <1>4, <1>6, WriterSeesLast DEF PoolInv, RefInv, RootedInv, Rooted, PoolTypeOK
<1>8. PICK b : b = IF NeedsCopy(t, old) THEN NewBlock ELSE old
  OBVIOUS
<1>9. /\ p_data' = [p_data EXCEPT ![b] = m_id[t]]
      /\ Record(r, m_txversion[t], m_id[t])
      /\ IF NeedsCopy(t, old)
         THEN /\ used' = used \cup {b}
              /\ m_ts' = [m_ts EXCEPT ![b] = m_txversion[t]]
              /\ p_next_version' = [p_next_version EXCEPT ![b] = IF old = p_main[r] THEN NULL ELSE old,
                                                          ![p_main[r]] = b]
         ELSE UNCHANGED <<used, m_ts, p_next_version>>
      /\ held' = [held EXCEPT ![t] = [ref |-> r, block |-> b, null |-> FALSE]]
      /\ call' = [call EXCEPT ![t] = NoCall]
      /\ UNCHANGED <<p_main, garbage, txvars>>
  BY <1>3, <1>4, <1>6, <1>8 DEF WriterWrite
<1>10. Stored(t, r, b, m_id[t])
  <2>1. CASE NeedsCopy(t, old)
    <3>1. b = NewBlock /\ m_ts[FreeCandidate(p_main[r])] < m_txversion[t]
      BY <1>6, <1>8, <2>1 DEF NeedsCopy
    <3>2. (IF old = p_main[r] THEN NULL ELSE old) = p_next_version[p_main[r]]
      <4>1. p_main[r] \in Blocks /\ p_next_version[p_main[r]] # p_main[r]
        <5>1. ShapeInv
          BY InvShape
        <5>2. ChainOfRef(r)
          BY <5>1, ChainsOfRefs
        <5>3. QED
          BY <5>2 DEF ChainOfRef
      <4>2. QED
        BY <1>6, <4>1 DEF FreeCandidate
    <3>3. /\ used' = used \cup {NewBlock}
          /\ m_ts' = [m_ts EXCEPT ![NewBlock] = m_txversion[t]]
          /\ p_data' = [p_data EXCEPT ![NewBlock] = m_id[t]]
          /\ p_next_version' = [p_next_version EXCEPT ![NewBlock] = p_next_version[p_main[r]],
                                                      ![p_main[r]] = NewBlock]
      BY <1>9, <2>1, <3>1, <3>2
    <3>4. QED
      BY <1>4, <1>5, <3>1, <3>3, PushStored
  <2>2. CASE ~NeedsCopy(t, old)
    <3>1. b = old /\ m_ts[old] = m_txversion[t]
      BY <1>5, <1>7, <1>8, <2>2 DEF NeedsCopy
    <3>2. QED
      BY <1>4, <1>5, <1>6, <1>9, <2>2, <3>1, InPlaceStored
  <2>3. QED
    BY <2>1, <2>2
<1>11. b \in Blocks
  BY <1>10 DEF Stored
<1>12. QED
  BY <1>1, <1>3, <1>4, <1>9, <1>10, <1>11

\* A write keeps the invariant.
LEMMA WriterWrites ==
  ASSUME PoolInv, NEW t \in Txs, WriterWrite(t)
  PROVE  PoolInv'
<1>1. PICK r \in Rooted, b \in Blocks :
        /\ IsWriting(t) /\ r = call[t].ref /\ call[t].op = "ptr" /\ call[t].then = "write"
        /\ Stored(t, r, b, m_id[t])
        /\ Record(r, m_txversion[t], m_id[t])
        /\ held' = [held EXCEPT ![t] = [ref |-> r, block |-> b, null |-> FALSE]]
        /\ call' = [call EXCEPT ![t] = NoCall]
        /\ UNCHANGED <<p_main, garbage, txvars>>
  BY WriterStores
<1>2. PICK val \in Nat \cup {NULL} : val = m_id[t] /\ val # NULL
  BY PoolAssumption DEF PoolInv, TxInv, TypeOK
<1>3. PICK h : h = [ref |-> r, block |-> b, null |-> FALSE]
  OBVIOUS
<1>4. held' = [held EXCEPT ![t] = h] /\ h \in {NULL, [ref |-> r, block |-> b, null |-> FALSE]}
  BY <1>1, <1>3
<1>5. /\ UNCHANGED <<p_main, txvars>> /\ call' = [call EXCEPT ![t] = NoCall] /\ garbage' = garbage
      /\ call[t].op \in {"ptr", "free"} /\ call[t].then # "read"
  BY <1>1
<1>6. Stored(t, r, b, val) /\ Record(r, m_txversion[t], val)
  BY <1>1, <1>2
<1>7. r = call[t].ref
  BY <1>1
<1>8. QED
  BY <1>2, <1>4, <1>5, <1>6, <1>7, StoreInv

\* fdb_txpool_alloc_free, with a tombstone or in place.
LEMMA FreeStores ==
  ASSUME PoolInv, NEW t \in Txs, FreeEnd(t)
  PROVE  \E r \in Rooted, top \in Blocks :
           /\ IsWriting(t) /\ r = call[t].ref /\ call[t].op = "free" /\ call[t].then = "free"
           /\ Stored(t, r, top, NULL) /\ p_data[p_main[r]] # NULL
           /\ Record(r, m_txversion[t], NULL)
           /\ garbage' = [garbage EXCEPT ![t] = <<p_main[r]>> \o @]
           /\ held' = [held EXCEPT ![t] = NULL]
           /\ call' = [call EXCEPT ![t] = NoCall]
           /\ UNCHANGED <<p_main, txvars>>
<1> USE NullIsNoBlock
<1>1. PoolTypeOK /\ TxInv /\ CollectInv(t) /\ CollectRest(t) /\ call[t].op = "free"
  BY CollectParts DEF PoolInv, CallInv, FreeEnd
<1>2. call[t].then = "free" /\ WriterCall(t)
  <2>1. call[t].then # "sweep"
    BY <1>1 DEF CollectInv, SweepCall
  <2>2. QED
    BY <1>1, <2>1 DEF CollectInv, WriterCall
<1>3. PICK r \in Rooted : r = call[t].ref
  BY <1>2 DEF WriterCall
<1>4. /\ IsWriting(t) /\ call[t].root = p_main[r] /\ FreeBlocks # {} /\ ~FreedAt(r, m_txversion[t])
      /\ call[t].orv = m_ortxversion[t]
      /\ \/ m_ts[FreeCandidate(p_main[r])] <= m_ortxversion[t]
         \/ m_ts[FreeCandidate(p_main[r])] = m_txversion[t] /\ p_data[p_main[r]] # NULL
  BY <1>2, <1>3 DEF WriterCall
<1>5. /\ m_txversion[t] \in Nat /\ m_ortxversion[t] \in Nat /\ m_ortxversion[t] < m_txversion[t]
  <2>1. /\ m_txversion[t] \in Nat /\ m_ortxversion[t] \in Nat
        /\ m_last_write_committed_id \in Nat
        /\ m_last_write_committed_id < m_txversion[t]
        /\ m_ortxversion[t] <= m_last_write_committed_id
    BY <1>1, <1>4, WriterBounds
  <2>2. QED
    BY <2>1
<1>6. ChainOfRef(r)
  BY InvShape, ChainsOfRefs
<1>7. PICK cand \in Blocks : cand = FreeCandidate(p_main[r])
  BY <1>4, WriterSeesTop
<1>8. m_ts[cand] \in Nat /\ p_data[cand] # NULL
  BY <1>1, <1>4, <1>7, WriterSeesLast DEF PoolTypeOK
<1>9. /\ IF m_ts[cand] <= m_ortxversion[t]
         THEN Tombstone(t, cand, p_main[r], NewBlock)
         ELSE /\ p_data' = [p_data EXCEPT ![cand] = NULL]
              /\ UNCHANGED <<used, m_ts, p_next_version>>
      /\ garbage' = [garbage EXCEPT ![t] = <<p_main[r]>> \o @]
      /\ Record(r, m_txversion[t], NULL)
      /\ held' = [held EXCEPT ![t] = NULL]
      /\ call' = [call EXCEPT ![t] = NoCall]
      /\ UNCHANGED <<p_main, txvars>>
  BY <1>3, <1>4, <1>7 DEF FreeEnd
<1>10. PICK top : Stored(t, r, top, NULL) /\ p_data[p_main[r]] # NULL
  <2>1. CASE m_ts[cand] <= m_ortxversion[t]
    <3>1. p_next_version[p_main[r]] = NULL
      <4> SUFFICES ASSUME p_next_version[p_main[r]] # NULL PROVE FALSE
        OBVIOUS
      <4>1. m_ts[p_next_version[p_main[r]]] > m_ortxversion[t]
        BY <1>1, <1>4 DEF CollectRest
      <4>2. cand = p_next_version[p_main[r]]
        BY <1>7 DEF FreeCandidate
      <4>3. QED
        BY <1>5, <1>8, <2>1, <4>1, <4>2
    <3>2. cand = p_main[r]
      BY <1>7, <3>1 DEF FreeCandidate
    <3>3. /\ used' = used \cup {NewBlock}
          /\ m_ts' = [m_ts EXCEPT ![NewBlock] = m_txversion[t]]
          /\ p_data' = [p_data EXCEPT ![NewBlock] = NULL]
          /\ p_next_version' = [p_next_version EXCEPT ![NewBlock] = p_next_version[p_main[r]],
                                                      ![p_main[r]] = NewBlock]
      BY <1>9, <2>1, <3>1, <3>2 DEF Tombstone
    <3>4. m_ts[FreeCandidate(p_main[r])] < m_txversion[t] /\ NULL \in Nat \cup {NULL}
      BY <1>5, <1>7, <1>8, <2>1
    <3>5. Stored(t, r, NewBlock, NULL)
      BY <1>4, <3>3, <3>4, PushStored
    <3>6. QED
      BY <1>8, <3>2, <3>5
  <2>2. CASE ~(m_ts[cand] <= m_ortxversion[t])
    <3>1. m_ts[FreeCandidate(p_main[r])] = m_txversion[t] /\ p_data[p_main[r]] # NULL
      BY <1>4, <1>7, <2>2
    <3>2. /\ p_data' = [p_data EXCEPT ![FreeCandidate(p_main[r])] = NULL]
          /\ UNCHANGED <<used, m_ts, p_next_version>> /\ NULL \in Nat \cup {NULL}
      BY <1>7, <1>9, <2>2
    <3>3. Stored(t, r, FreeCandidate(p_main[r]), NULL)
      BY <1>4, <3>1, <3>2, InPlaceStored
    <3>4. QED
      BY <3>1, <3>3
  <2>3. QED
    BY <2>1, <2>2
<1>11. top \in Blocks
  BY <1>10 DEF Stored
<1>12. QED
  BY <1>1, <1>2, <1>3, <1>4, <1>9, <1>10, <1>11

\* A freeing keeps the invariant.
LEMMA FreeEnds ==
  ASSUME PoolInv, NEW t \in Txs, FreeEnd(t)
  PROVE  PoolInv'
<1>1. PICK r \in Rooted, top \in Blocks :
        /\ IsWriting(t) /\ r = call[t].ref /\ call[t].op = "free" /\ call[t].then = "free"
        /\ Stored(t, r, top, NULL) /\ p_data[p_main[r]] # NULL
        /\ Record(r, m_txversion[t], NULL)
        /\ garbage' = [garbage EXCEPT ![t] = <<p_main[r]>> \o @]
        /\ held' = [held EXCEPT ![t] = NULL]
        /\ call' = [call EXCEPT ![t] = NoCall]
        /\ UNCHANGED <<p_main, txvars>>
  BY FreeStores
<1>2. PICK val \in Nat \cup {NULL} : val = NULL
  OBVIOUS
<1>3. /\ Stored(t, r, top, val) /\ (val = NULL => p_data[p_main[r]] # NULL) /\ Record(r, m_txversion[t], val)
      /\ val = NULL /\ MaybePushed(t, p_main[r])
      /\ call[t].op \in {"ptr", "free"} /\ call[t].then # "read"
  BY <1>1, <1>2 DEF MaybePushed
<1>4. PICK h : h = NULL
  OBVIOUS
<1>5. /\ h \in {NULL, [ref |-> r, block |-> top, null |-> FALSE]}
      /\ held' = [held EXCEPT ![t] = h] /\ (h # NULL => val # NULL)
  BY <1>1, <1>4
<1>6. UNCHANGED <<p_main, txvars>> /\ call' = [call EXCEPT ![t] = NoCall]
  BY <1>1
<1>7. QED
  BY <1>1, <1>3, <1>5, <1>6, StoreInv

\* The pool has two different blocks for an allocation.
LEMMA TwoBlocks ==
  ASSUME PoolTypeOK, HasRoom
  PROVE  /\ NewBlock \in FreeBlocks
         /\ Smallest(FreeBlocks \ {NewBlock}) \in FreeBlocks \ {NewBlock}
<1>1. IsFiniteSet(FreeBlocks) /\ FreeBlocks \in SUBSET Nat
  BY PoolAssumption, FS_Subset DEF FreeBlocks
<1>2. FreeBlocks # {}
  BY <1>1, FS_EmptySet DEF HasRoom
<1>3. NewBlock \in FreeBlocks
  BY <1>2, NewBlockIsFree
<1>4. FreeBlocks \ {NewBlock} # {}
  <2>1. /\ IsFiniteSet(FreeBlocks \ {NewBlock})
        /\ Cardinality(FreeBlocks \ {NewBlock}) = Cardinality(FreeBlocks) - 1
    BY <1>1, <1>3, FS_RemoveElement
  <2>2. Cardinality(FreeBlocks) \in Nat
    BY <1>1, FS_CardinalityType
  <2>3. Cardinality(FreeBlocks \ {NewBlock}) # 0
    BY <2>1, <2>2 DEF HasRoom
  <2>4. QED
    BY <2>1, <2>3, FS_EmptySet
<1>5. \E n \in FreeBlocks \ {NewBlock} : \A m \in FreeBlocks \ {NewBlock} : n <= m
  <2>1. FreeBlocks \ {NewBlock} \in SUBSET Nat
    BY <1>1
  <2>2. QED
    BY <1>4, <2>1, LeastNumber
<1>6. QED
  BY <1>3, <1>5 DEF Smallest

\* Nobody is on a reference that has not been allocated.
LEMMA UnusedRef ==
  ASSUME PoolInv, NEW r \in Refs, p_main[r] = NULL, NEW u \in Txs
  PROVE  /\ call[u].op = "walk" => call[u].ref # r
         /\ call[u].op \notin {"none", "walk"} /\ call[u].then # "sweep" => call[u].ref # r
         /\ held[u] # NULL => held[u].ref # r
<1>1. CallInv(u) /\ HeldInv(u) /\ r \notin Rooted
  BY DEF PoolInv, Rooted
<1>2. call[u].op = "walk" => call[u].ref # r
  BY <1>1 DEF CallInv, WalkInv
<1>3. held[u] # NULL => held[u].ref # r
  BY <1>1 DEF HeldInv
<1>4. ASSUME call[u].op \notin {"none", "walk"}, call[u].then # "sweep" PROVE call[u].ref # r
  BY <1>1, <1>4 DEF CallInv, CollectInv, WriterCall
<1>5. QED
  BY <1>2, <1>3, <1>4

\* What fdb_txpool_alloc_alloc builds of two free blocks.
Allocated(t, r, root, new) ==
  /\ root \in FreeBlocks /\ new \in FreeBlocks /\ root # new
  /\ p_main[r] = NULL /\ IsWriting(t)
  /\ used' = used \cup {root, new}
  /\ m_ts' = [m_ts EXCEPT ![root] = 0, ![new] = m_txversion[t]]
  /\ p_data' = [p_data EXCEPT ![root] = NULL, ![new] = 0]
  /\ p_next_version' = [p_next_version EXCEPT ![root] = new, ![new] = NULL]
  /\ p_main' = [p_main EXCEPT ![r] = root]
  /\ UNCHANGED <<garbage, call, held, txvars>>

\* The links and heads after an allocation: one more chain of two blocks.
LEMMA AllocShape ==
  ASSUME PoolInv, NEW t \in Txs, NEW r \in Refs, NEW root, NEW new, Allocated(t, r, root, new)
  PROVE  /\ LinksInv' /\ HeadsInv'
         /\ root \in Blocks /\ new \in Blocks /\ ~IsHead(root) /\ ~IsHead(new)
         /\ m_ts' \in [Blocks -> Nat] /\ p_data' \in [Blocks -> Nat \cup {NULL}]
         /\ p_next_version' \in [Blocks -> Blocks \cup {NULL}]
         /\ p_main' \in [Refs -> Blocks \cup {NULL}] /\ used' \subseteq Blocks
         /\ \A b \in Blocks : IsRoot(b)' <=> b = root \/ IsRoot(b)
         /\ \A b : (IsEntry(b)' <=> IsEntry(b)) /\ (IsDropped(b)' <=> IsDropped(b))
<1> USE NullIsNoBlock
<1>1. PoolTypeOK /\ LinksInv /\ HeadsInv /\ TxInv
  BY DEF PoolInv
<1>2. /\ root \in Blocks /\ new \in Blocks /\ root \notin used /\ new \notin used /\ root # new
      /\ p_main[r] = NULL
  BY DEF Allocated, FreeBlocks
<1>3. /\ ~IsHead(root) /\ ~IsHead(new)
      /\ \A b \in Blocks : p_next_version[b] # root /\ p_next_version[b] # new
  BY <1>1, <1>2 DEF LinksInv, HeadsInv
<1>4. /\ m_txversion[t] \in Nat /\ m_last_write_committed_id \in Nat
      /\ InTime(m_txversion[t]) /\ InTime(0)
  <2>1. m_txversion[t] \in Nat /\ m_last_write_committed_id \in Nat
    BY <1>1 DEF TxInv, TypeOK
  <2>2. QED
    BY <2>1 DEF InTime, Allocated
<1>5. /\ m_ts' \in [Blocks -> Nat]
      /\ p_next_version' \in [Blocks -> Blocks \cup {NULL}]
      /\ p_main' \in [Refs -> Blocks \cup {NULL}] /\ used' \subseteq Blocks
      /\ used' = used \cup {root, new}
      /\ p_main'[r] = root /\ \A s \in Refs \ {r} : p_main'[s] = p_main[s]
      /\ \A b \in Blocks : /\ m_ts'[b] = IF b = root THEN 0 ELSE IF b = new THEN m_txversion[t] ELSE m_ts[b]
                           /\ p_next_version'[b] = IF b = root THEN new ELSE IF b = new THEN NULL ELSE p_next_version[b]
  BY <1>1, <1>2, <1>4 DEF Allocated, PoolTypeOK
<1>6. p_data' \in [Blocks -> Nat \cup {NULL}]
  BY <1>1 DEF Allocated, PoolTypeOK
<1>7. \A b \in Blocks : IsRoot(b)' <=> b = root \/ IsRoot(b)
  BY <1>2, <1>5 DEF IsRoot
<1>8. \A b : (IsEntry(b)' <=> IsEntry(b)) /\ (IsDropped(b)' <=> IsDropped(b))
  BY DEF Allocated, IsEntry, IsDropped
<1>9. \A b \in Blocks : IsHead(b)' <=> (IsHead(b) \/ b = root)
  BY <1>7, <1>8 DEF IsHead
<1>10. HeadsInv'
  <2>1. ASSUME NEW b \in Blocks
        PROVE  /\ IsHead(b)' => b \in used'
               /\ IsLeftover(b)' => p_next_version'[b] = NULL
               /\ IsDropped(b)' => ~IsRoot(b)' /\ ~IsEntry(b)'
    <3>1. CASE b = root
      <4>1. ~IsEntry(b) /\ ~IsDropped(b)
        BY <1>3, <3>1 DEF IsHead
      <4>2. QED
        BY <1>5, <1>8, <3>1, <4>1 DEF IsLeftover
    <3>2. CASE b # root
      <4>1. (IsRoot(b)' <=> IsRoot(b)) /\ (IsHead(b)' <=> IsHead(b))
        BY <1>7, <1>9, <3>2
      <4>2. IsLeftover(b)' <=> IsLeftover(b)
        BY <1>8, <4>1 DEF IsLeftover
      <4>3. QED
        BY <1>1, <1>5, <1>8, <3>2, <4>1, <4>2 DEF HeadsInv
    <3>3. QED
      BY <3>1, <3>2
  <2>2. ASSUME NEW s \in Rooted', NEW x \in Rooted', p_main'[s] = p_main'[x] PROVE s = x
    <3>1. s \in Refs /\ x \in Refs
      BY DEF Rooted
    <3>2. \A y \in Refs : p_main[y] # root
      BY <1>3 DEF IsHead, IsRoot
    <3>3. QED
      BY <1>1, <1>5, <2>2, <3>1, <3>2 DEF Rooted, HeadsInv
  <2>3. garbage' = garbage /\ call' = call
    BY DEF Allocated
  <2>4. QED
    BY <1>1, <2>1, <2>2, <2>3 DEF HeadsInv
<1>11. LinksInv'
  <2>1. ASSUME NEW b \in Blocks, p_next_version'[b] # NULL
        PROVE  /\ b \in used' /\ p_next_version'[b] \in used'
               /\ ~IsHead(p_next_version[b])'
               /\ ~IsRoot(b)' => m_ts'[p_next_version'[b]] < m_ts'[b]
    <3>1. PICK x \in Blocks : x = p_next_version'[b]
      BY <1>5, <2>1
    <3>2. b \in used' /\ x \in used' /\ ~IsHead(x)' /\ (~IsRoot(b)' => m_ts'[x] < m_ts'[b])
      <4>1. CASE b = root
        <5>1. x = new
          BY <1>5, <3>1, <4>1
        <5>2. QED
          BY <1>2, <1>3, <1>5, <1>7, <1>9, <4>1, <5>1
      <4>2. CASE b # root
        <5>1. b # new /\ x = p_next_version[b]
          BY <1>5, <2>1, <3>1, <4>2
        <5>2. b \in used /\ x \in used /\ ~IsHead(x) /\ (~IsRoot(b) => m_ts[x] < m_ts[b])
          BY <1>1, <3>1, <5>1 DEF LinksInv
        <5>3. x # root /\ x # new
          BY <1>2, <5>2
        <5>4. QED
          BY <1>2, <1>5, <1>7, <1>9, <4>2, <5>1, <5>2, <5>3
      <4>3. QED
        BY <4>1, <4>2
    <3>3. IsHead(p_next_version[b])' <=> IsHead(x)'
      BY <3>1 DEF IsHead, IsRoot, IsEntry, IsDropped
    <3>4. QED
      BY <3>1, <3>2, <3>3
  <2>2. ASSUME NEW a \in Blocks, NEW b \in Blocks, p_next_version'[a] # NULL, p_next_version'[a] = p_next_version'[b]
        PROVE  a = b
    BY <1>1, <1>2, <1>3, <1>5, <2>2 DEF LinksInv
  <2>3. ASSUME NEW b \in used'
        PROVE  IsHead(b)' \/ \E a \in Blocks : p_next_version'[a] = b
    <3>1. CASE b = root
      BY <1>2, <1>9, <3>1
    <3>2. CASE b = new
      BY <1>2, <1>5, <3>2
    <3>3. CASE b # root /\ b # new
      <4>1. b \in used /\ b \in Blocks
        BY <1>1, <1>5, <3>3 DEF PoolTypeOK
      <4>2. CASE IsHead(b)
        BY <1>9, <4>1, <4>2
      <4>3. CASE \E a \in Blocks : p_next_version[a] = b
        <5>1. PICK a \in Blocks : p_next_version[a] = b
          BY <4>3
        <5>2. a \in used
          BY <1>1, <4>1, <5>1 DEF LinksInv
        <5>3. p_next_version'[a] = b
          BY <1>2, <1>5, <5>1, <5>2
        <5>4. QED
          BY <5>3
      <4>4. QED
        BY <1>1, <4>1, <4>2, <4>3 DEF LinksInv
    <3>4. QED
      BY <3>1, <3>2, <3>3
  <2>4. ASSUME NEW b \in used' PROVE InTime(m_ts[b])'
    <3>1. \A v : InTime(v)' <=> InTime(v)
      BY SameTx DEF Allocated
    <3>2. b \in Blocks
      BY <1>5
    <3>3. InTime(m_ts'[b])
      BY <1>1, <1>2, <1>4, <1>5, <3>2 DEF LinksInv
    <3>4. QED
      BY <3>3 DEF InTime, IsWriting, IsWriter, Allocated, txvars
  <2>5. QED
    BY <2>1, <2>2, <2>3, <2>4 DEF LinksInv
<1>12. QED
  BY <1>2, <1>3, <1>5, <1>6, <1>7, <1>8, <1>10, <1>11

\* fdb_txpool_alloc_alloc keeps the invariant.
LEMMA AllocStores ==
  ASSUME PoolInv, NEW t \in Txs, NEW r \in Refs, Alloc(t, r)
  PROVE  \E root, new : Allocated(t, r, root, new) /\ Record(r, m_txversion[t], 0)
<1>1. /\ NewBlock \in FreeBlocks
      /\ Smallest(FreeBlocks \ {NewBlock}) \in FreeBlocks \ {NewBlock}
  BY TwoBlocks DEF Alloc, PoolInv
<1>2. Allocated(t, r, NewBlock, Smallest(FreeBlocks \ {NewBlock})) /\ Record(r, m_txversion[t], 0)
  BY <1>1 DEF Alloc, Allocated, IsWriting
<1>3. QED
  BY <1>2

\* An allocation keeps the invariant.
LEMMA Allocs ==
  ASSUME PoolInv, NEW t \in Txs, NEW r \in Refs, Alloc(t, r)
  PROVE  PoolInv'
<1> USE NullIsNoBlock
<1>1. PoolTypeOK /\ TxInv /\ HistInv /\ HeadsInv /\ ShapeInv /\ IsWriting(t) /\ Idle(t)
  BY InvShape DEF PoolInv, Alloc, IsWriting
<1>2. PICK root, new : Allocated(t, r, root, new) /\ Record(r, m_txversion[t], 0)
  BY AllocStores
<1>3. /\ LinksInv' /\ HeadsInv'
      /\ root \in Blocks /\ new \in Blocks /\ ~IsHead(root) /\ ~IsHead(new)
      /\ m_ts' \in [Blocks -> Nat] /\ p_data' \in [Blocks -> Nat \cup {NULL}]
      /\ p_next_version' \in [Blocks -> Blocks \cup {NULL}]
      /\ p_main' \in [Refs -> Blocks \cup {NULL}] /\ used' \subseteq Blocks
      /\ \A b \in Blocks : IsRoot(b)' <=> b = root \/ IsRoot(b)
      /\ \A b : (IsEntry(b)' <=> IsEntry(b)) /\ (IsDropped(b)' <=> IsDropped(b))
  BY <1>2, AllocShape
<1>4. /\ p_main[r] = NULL /\ p_main'[r] = root /\ \A s \in Refs \ {r} : p_main'[s] = p_main[s]
      /\ garbage' = garbage /\ call' = call /\ held' = held /\ UNCHANGED txvars
      /\ root \notin used /\ new \notin used /\ root # new
  BY <1>1, <1>2 DEF Allocated, PoolTypeOK, FreeBlocks
<1>5. /\ \A b \in Blocks : b # root /\ b # new =>
           m_ts'[b] = m_ts[b] /\ p_data'[b] = p_data[b] /\ p_next_version'[b] = p_next_version[b]
      /\ m_ts'[root] = 0 /\ m_ts'[new] = m_txversion[t]
      /\ p_data'[root] = NULL /\ p_data'[new] = 0
      /\ p_next_version'[root] = new /\ p_next_version'[new] = NULL
  BY <1>1, <1>2, <1>3, <1>4 DEF Allocated, PoolTypeOK
<1>6. /\ m_txversion[t] \in Nat /\ m_last_write_committed_id \in Nat
      /\ m_last_write_committed_id < m_txversion[t]
      /\ \A v : InTime(v) => v <= m_last_write_committed_id \/ v = m_txversion[t]
  BY <1>1, WriterBounds
<1>7. \A v \in LiveVersions : v \in Nat /\ (v = m_txversion[t] \/ v < m_txversion[t])
  <2> SUFFICES ASSUME NEW v \in LiveVersions PROVE v \in Nat /\ (v = m_txversion[t] \/ v < m_txversion[t])
    OBVIOUS
  <2>1. v \in Nat
    BY <1>1, LiveNat
  <2>2. CASE v = m_last_write_committed_id
    BY <1>6, <2>2
  <2>3. CASE \E u \in Running : v = m_txversion[u]
    <3>1. PICK u \in Txs : u \in Running /\ v = m_txversion[u]
      BY <2>3 DEF Running
    <3>2. CASE IsWriting(u)
      BY <1>1, <2>1, <3>1, <3>2, OneWriter
    <3>3. CASE ~IsWriting(u)
      <4>1. v <= m_last_write_committed_id
        BY <1>1, <3>1, <3>3 DEF TxInv, SnapshotIsCommitted, Running, IsWriting
      <4>2. QED
        BY <1>6, <2>1, <4>1
    <3>4. QED
      BY <3>2, <3>3
  <2>4. QED
    BY <2>2, <2>3 DEF LiveVersions
<1>8. /\ hist' \in [Refs -> Seq([ver : Nat, val : Nat \cup {NULL}])]
      /\ \A s \in Refs \ {r} : hist'[s] = hist[s]
      /\ hist'[r] # <<>> /\ Last(r)'.ver = m_txversion[t]
      /\ \A i, j \in DOMAIN hist'[r] : i < j => hist'[r][i].ver < hist'[r][j].ver
      /\ \A i \in DOMAIN hist'[r] :
           hist'[r][i].ver = m_txversion[t] \/ \E j \in DOMAIN hist[r] : hist'[r][i].ver = hist[r][j].ver
      /\ \A u \in Nat : u < m_txversion[t] => HistoryAt(r, u)' = HistoryAt(r, u)
      /\ \A u \in Nat : m_txversion[t] <= u => HistoryAt(r, u)' = 0
  <2>1. PICK v \in Nat, val \in Nat \cup {NULL} : v = m_txversion[t] /\ val = 0
    BY <1>6
  <2>2. \A i \in DOMAIN hist[r] : hist[r][i].ver <= v
    <3> SUFFICES ASSUME NEW i \in DOMAIN hist[r] PROVE hist[r][i].ver <= v
      OBVIOUS
    <3>1. InTime(hist[r][i].ver) /\ hist[r][i].ver \in Nat
      BY <1>1, HistoryTypes DEF HistInv
    <3>2. QED
      BY <1>6, <2>1, <3>1
  <2>3. Record(r, v, val)
    BY <1>2, <2>1
  <2>4. /\ hist' \in [Refs -> Seq([ver : Nat, val : Nat \cup {NULL}])]
        /\ \A s \in Refs \ {r} : hist'[s] = hist[s]
        /\ hist'[r] # <<>> /\ Last(r)'.ver = v /\ Last(r)'.val = val
        /\ \A i, j \in DOMAIN hist'[r] : i < j => hist'[r][i].ver < hist'[r][j].ver
        /\ \A i \in DOMAIN hist'[r] :
             hist'[r][i].ver = v \/ \E j \in DOMAIN hist[r] : hist'[r][i].ver = hist[r][j].ver
        /\ \A u \in Nat : u < v => /\ HistoryAt(r, u)' = HistoryAt(r, u)
                                   /\ FreedAt(r, u)' <=> FreedAt(r, u)
        /\ \A u \in Nat : v <= u => /\ HistoryAt(r, u)' = val
                                    /\ FreedAt(r, u)' <=> val = NULL
    BY ONLY <1>1, <2>2, <2>3, RecordHistory
  <2>5. QED
    BY <2>1, <2>4
<1>9. HistInv'
  <2>1. InTime(m_txversion[t])
    BY <1>1 DEF InTime
  <2>2. ASSUME NEW s \in Refs, NEW i \in DOMAIN hist'[s] PROVE InTime(hist[s][i].ver)'
    <3>1. InTime(hist'[s][i].ver)
      <4>1. CASE s = r
        <5>1. hist'[r][i].ver = m_txversion[t] \/ \E j \in DOMAIN hist[r] : hist'[r][i].ver = hist[r][j].ver
          BY <1>8, <2>2, <4>1
        <5>2. QED
          BY <1>1, <2>1, <4>1, <5>1 DEF HistInv
      <4>2. CASE s # r
        BY <1>1, <1>8, <2>2, <4>2 DEF HistInv
      <4>3. QED
        BY <4>1, <4>2
    <3>2. QED
      BY <1>4, <3>1 DEF InTime, IsWriting, IsWriter, txvars
  <2>3. ASSUME NEW s \in Refs
        PROVE  \A i, j \in DOMAIN hist'[s] : i < j => hist'[s][i].ver < hist'[s][j].ver
    BY <1>1, <1>8 DEF HistInv
  <2>4. QED
    BY <2>2, <2>3 DEF HistInv
<1>10. PoolTypeOK'
  BY <1>1, <1>3, <1>4, <1>8 DEF PoolTypeOK
\* The chain of the new reference is the root and one version.
<1>11. Versions(r)' = {new} /\ FreeCandidate(p_main[r])' = new
  <2>1. LinksOn(p_next_version')
    BY <1>3 DEF LinksOn
  <2>2. ChainOf(p_next_version', new) = {new} \cup ChainOf(p_next_version', NULL)
    BY <1>3, <1>5, <2>1, ChainUnfolds
  <2>3. ChainOf(p_next_version', NULL) = {}
    BY <2>1, ChainUnfolds
  <2>4. QED
    BY <1>3, <1>4, <1>5, <2>2, <2>3 DEF Versions, Chain, FreeCandidate
<1>12. /\ LiveVersions' = LiveVersions /\ m_last_write_committed_id' = m_last_write_committed_id
  BY <1>4, SameTx DEF txvars
<1>13. RootedInv(r)'
  <2>1. /\ m_ts'[p_main'[r]] <= m_last_write_committed_id'
        /\ \A b \in Versions(r)' : m_ts'[p_main'[r]] < m_ts'[b]
        /\ hist'[r] # <<>>
        /\ m_ts'[FreeCandidate(p_main[r])'] = Last(r)'.ver
    BY <1>4, <1>5, <1>6, <1>8, <1>11, <1>12
  <2>2. ASSUME NEW v \in LiveVersions, NEW y \in Blocks, Seen(r, v, y)'
        PROVE  p_data'[y] = HistoryAt(r, v)'
    <3>1. CASE v = m_txversion[t]
      <4>1. y = new
        BY <1>5, <1>6, <1>11, <2>2, <3>1 DEF Seen
      <4>2. HistoryAt(r, v)' = 0
        BY <1>6, <1>8, <3>1
      <4>3. QED
        BY <1>5, <4>1, <4>2
    <3>2. CASE v < m_txversion[t]
      <4>1. v \in Nat
        BY <1>7
      <4>2. y = root
        BY <1>4, <1>5, <1>6, <1>11, <2>2, <3>2, <4>1 DEF Seen
      <4>3. HistoryAt(r, v) = NULL
        BY <1>4 DEF PoolInv, RefInv
      <4>4. QED
        BY <1>5, <1>8, <3>2, <4>1, <4>2, <4>3
    <3>3. QED
      BY <1>7, <3>1, <3>2
  <2>3. \A b \in Versions(r)' : p_data'[b] # NULL
    <3>1. 0 # NULL
      BY PoolAssumption
    <3>2. QED
      BY <1>5, <1>11, <3>1
  <2>4. \A v \in LiveVersions', y \in Blocks : Seen(r, v, y)' => p_data'[y] = HistoryAt(r, v)'
    BY <1>12, <2>2
  <2>5. QED
    BY <2>1, <2>3, <2>4 DEF RootedInv
<1>14. RefInv(r)'
  BY <1>3, <1>4, <1>13 DEF RefInv
<1>15. \A b \in Blocks : IsLeftover(b) => IsLeftover(b)' /\ m_ts'[b] = m_ts[b] /\ p_data'[b] = p_data[b]
  BY <1>3, <1>5 DEF IsLeftover, IsHead
<1>16. Frame(t, {r})
  <2>1. ASSUME NEW s \in Refs, s # r PROVE SameRef(s)
    <3>1. ASSUME s \in Rooted, NEW b \in Chain(p_main[s])
          PROVE  m_ts'[b] = m_ts[b] /\ p_data'[b] = p_data[b] /\ p_next_version'[b] = p_next_version[b]
      <4>1. b \in Blocks /\ b \in used
        BY <1>1, <3>1, ChainsOfRefs DEF ChainOfRef
      <4>2. QED
        BY <1>4, <1>5, <4>1
    <3>2. QED
      BY <1>4, <1>8, <2>1, <3>1 DEF SameRef
  <2>2. SameLeftovers(t)
    BY <1>15 DEF SameLeftovers
  <2>3. ASSUME NEW u \in Txs \ {t}
        PROVE  /\ \A i \in DOMAIN garbage[u] : garbage[u][i] # p_main[r] /\ garbage[u][i] # p_main'[r]
               /\ call[u].op \notin {"none", "walk"} /\ call[u].then # "sweep" => call[u].ref # r
    <3>1. \A i \in DOMAIN garbage[u] : garbage[u][i] \in Blocks
      BY <1>1, SeqFacts DEF PoolTypeOK
    <3>2. \A i \in DOMAIN garbage[u] : garbage[u][i] # root
      BY <1>3 DEF IsHead, IsEntry
    <3>3. QED
      BY <1>4, <3>1, <3>2, UnusedRef
  <2>4. QED
    BY <1>1, <1>4, <2>1, <2>2, <2>3 DEF Frame
<1>17. CallInv(t)'
  BY <1>1, <1>4 DEF CallInv, Idle, NoCall
<1>18. ASSUME NEW i \in DOMAIN garbage'[t], NEW s \in Refs, p_main'[s] = garbage'[t][i]
       PROVE  FreedBy(t, s)'
  <2>1. s # r
    BY <1>3, <1>4, <1>18 DEF IsHead, IsEntry
  <2>2. FreedBy(t, s)
    BY <1>4, <1>18, <2>1 DEF PoolInv, GarbageInv
  <2>3. Last(s)' = Last(s)
    BY <1>8, <2>1 DEF Last
  <2>4. QED
    BY <1>4, <2>2, <2>3 DEF FreedBy, IsWriting, IsWriter, txvars
<1>19. QED
  <2>1. {r} \in SUBSET Refs /\ call[t].op # "unlink"
    BY <1>1 DEF Idle, NoCall
  <2>2. /\ \A u \in Txs \ {t} : call[u].op = "walk" /\ call[u].ref \in {r} => WalkInv(u)'
        /\ \A u \in Txs : held[u] # NULL /\ held'[u] = held[u] /\ held[u].ref \in {r} => HeldInv(u)'
    BY <1>4, UnusedRef
  <2>3. \A s \in {r} : RefInv(s)'
    BY <1>14
  <2>4. held'[t] = held[t]
    BY <1>4
  <2>5. QED
    BY <1>3, <1>9, <1>10, <1>16, <1>17, <1>18, <2>1, <2>2, <2>3, <2>4, PoolFrame

\* A pool that nobody has used.
BlankPool ==
  /\ p_main = [r \in Refs |-> NULL]
  /\ m_ts \in [Blocks -> Nat]
  /\ p_data \in [Blocks -> {NULL}]
  /\ p_next_version \in [Blocks -> {NULL}]
  /\ used = {}
  /\ garbage = [t \in Txs |-> <<>>]
  /\ call = [t \in Txs |-> NoCall]
  /\ held = [t \in Txs |-> NULL]
  /\ hist = [r \in Refs |-> <<>>]

\* A pool that nobody has used satisfies the invariant.
LEMMA BlankInv == TxInv /\ BlankPool => PoolInv
<1> SUFFICES ASSUME TxInv, BlankPool PROVE PoolInv
  OBVIOUS
<1> USE NullIsNoBlock DEF BlankPool
<1>1. /\ \A r \in Refs : p_main[r] = NULL /\ hist[r] = <<>>
      /\ \A b \in Blocks : p_next_version[b] = NULL
      /\ \A t \in Txs : garbage[t] = <<>> /\ call[t] = NoCall /\ held[t] = NULL
  OBVIOUS
<1>2. DOMAIN <<>> = {} /\ \A S : <<>> \in Seq(S)
  OBVIOUS
<1>3. PoolTypeOK
  <2>1. call \in [Txs -> Calls]
    BY DEF NoCall, Calls
  <2>2. garbage \in [Txs -> Seq(Blocks)] /\ hist \in [Refs -> Seq([ver : Nat, val : Nat \cup {NULL}])]
    BY <1>2
  <2>3. held \in [Txs -> {NULL} \cup [ref : Refs, block : Blocks, null : BOOLEAN]]
    OBVIOUS
  <2>4. /\ p_main \in [Refs -> Blocks \cup {NULL}] /\ p_data \in [Blocks -> Nat \cup {NULL}]
        /\ p_next_version \in [Blocks -> Blocks \cup {NULL}]
    OBVIOUS
  <2>5. QED
    BY <2>1, <2>2, <2>3, <2>4 DEF PoolTypeOK
<1>4. \A b \in Blocks : ~IsRoot(b) /\ ~IsEntry(b) /\ ~IsDropped(b)
  BY <1>1, <1>2 DEF IsRoot, IsEntry, IsDropped, NoCall
<1>5. LinksInv
  BY <1>1 DEF LinksInv
<1>6. HeadsInv
  <2>1. Rooted = {}
    BY <1>1 DEF Rooted
  <2>2. QED
    BY <1>1, <1>2, <1>4, <2>1 DEF HeadsInv, IsHead, IsLeftover, NoCall
<1>7. GarbageInv /\ HistInv
  BY <1>1, <1>2 DEF GarbageInv, HistInv
<1>8. ASSUME NEW r \in Refs PROVE RefInv(r)
  <2>1. \A v : HistoryAt(r, v) = NULL
    BY <1>1, <1>2 DEF HistoryAt
  <2>2. QED
    BY <1>1, <2>1 DEF RefInv
<1>9. ASSUME NEW t \in Txs PROVE CallInv(t) /\ HeldInv(t)
  BY <1>1 DEF CallInv, HeldInv, Idle, NoCall
<1>10. QED
  BY <1>3, <1>5, <1>6, <1>7, <1>8, <1>9 DEF PoolInv

\* The invariant holds after fdb_txpool_alloc_init and fdb_tx_init.
LEMMA PoolInvInit == PoolInit => PoolInv
<1> SUFFICES ASSUME PoolInit PROVE PoolInv
  OBVIOUS
<1>1. TxInv
  BY TxInvInit DEF PoolInit
<1>2. BlankPool
  BY DEF PoolInit, BlankPool
<1>3. QED
  BY <1>1, <1>2, BlankInv

\* No pointer of a transaction outlives it.
LEMMA NothingHeld ==
  ASSUME PoolInv, NEW u \in Txs, pc[u] # "running"
  PROVE  held[u] = NULL
BY DEF PoolInv, HeldInv

\* The invariant holds after everything was released and initialised again.
LEMMA Restarts ==
  ASSUME PoolInv, PoolRestart
  PROVE  PoolInv'
<1>1. PoolTypeOK /\ TxInv /\ Restart /\ \A t \in Txs : pc[t] = "idle" /\ Idle(t) /\ garbage[t] = <<>>
  BY DEF PoolInv, PoolRestart, Restart
<1>2. TxInv'
  BY <1>1, TxInvNext DEF TxNext
<1>3. \A t \in Txs : held[t] = NULL
  BY <1>1, NothingHeld
<1>4. /\ garbage' = [t \in Txs |-> <<>>]
      /\ call' = [t \in Txs |-> NoCall]
      /\ held' = [t \in Txs |-> NULL]
  BY <1>1, <1>3 DEF PoolRestart, PoolTypeOK, Idle
<1>5. /\ used' = {} /\ m_ts' \in [Blocks -> Nat] /\ p_data' \in [Blocks -> {NULL}]
      /\ p_next_version' \in [Blocks -> {NULL}]
  BY <1>1 DEF PoolRestart, Release, PoolTypeOK
<1>6. p_main' = [r \in Refs |-> NULL] /\ hist' = [r \in Refs |-> <<>>]
  BY DEF PoolRestart
<1>7. BlankPool'
  BY <1>4, <1>5, <1>6 DEF BlankPool
<1>8. QED
  BY <1>2, <1>7, BlankInv, PTL

\* What a forced collection frees is whole chains, and the blocks of its own list are the only
\* heads among them.
LEMMA ForcedChains ==
  ASSUME PoolInv, NEW t \in Txs
  PROVE  /\ ForceSet(t) \in SUBSET Blocks /\ Closed(ForceSet(t))
         /\ \A i \in DOMAIN garbage[t] : garbage[t][i] \in ForceSet(t)
         /\ \A b \in ForceSet(t) : IsHead(b) => \E i \in DOMAIN garbage[t] : garbage[t][i] = b
         /\ \A b \in Blocks : IsHead(b) /\ b \notin ForceSet(t) => Chain(b) \cap ForceSet(t) = {}
<1>1. ShapeInv
  BY InvShape
<1>2. ASSUME NEW i \in DOMAIN garbage[t] PROVE garbage[t][i] \in Blocks /\ IsHead(garbage[t][i])
  <2>1. IsEntry(garbage[t][i])
    BY DEF IsEntry
  <2>2. QED
    BY <1>1, <2>1, SweepRoot DEF IsHead
<1>3. ASSUME NEW i \in DOMAIN garbage[t]
      PROVE  /\ Chain(garbage[t][i]) \in SUBSET Blocks /\ garbage[t][i] \in Chain(garbage[t][i])
             /\ Closed(Chain(garbage[t][i]))
             /\ \A b \in Chain(garbage[t][i]) : IsHead(b) => b = garbage[t][i]
             /\ \A b \in Blocks : IsHead(b) /\ b # garbage[t][i] => Chain(b) \cap Chain(garbage[t][i]) = {}
  BY <1>1, <1>2, DroppedApart
<1>4. ForceSet(t) \in SUBSET Blocks
  BY <1>3 DEF ForceSet
<1>5. \A i \in DOMAIN garbage[t] : garbage[t][i] \in ForceSet(t)
  BY <1>3 DEF ForceSet
<1>6. Closed(ForceSet(t))
  <2> SUFFICES ASSUME NEW b \in Blocks, p_next_version[b] # NULL
               PROVE  b \in ForceSet(t) <=> p_next_version[b] \in ForceSet(t)
    BY DEF Closed
  <2>1. ASSUME b \in ForceSet(t) PROVE p_next_version[b] \in ForceSet(t)
    BY <1>3, <2>1 DEF ForceSet, Closed
  <2>2. ASSUME p_next_version[b] \in ForceSet(t) PROVE b \in ForceSet(t)
    BY <1>3, <2>2 DEF ForceSet, Closed
  <2>3. QED
    BY <2>1, <2>2
<1>7. ASSUME NEW b \in ForceSet(t), IsHead(b) PROVE \E i \in DOMAIN garbage[t] : garbage[t][i] = b
  BY <1>3, <1>7 DEF ForceSet
<1>8. ASSUME NEW b \in Blocks, IsHead(b), b \notin ForceSet(t) PROVE Chain(b) \cap ForceSet(t) = {}
  <2> SUFFICES ASSUME NEW x \in Chain(b), x \in ForceSet(t) PROVE FALSE
    OBVIOUS
  <2>1. PICK i \in DOMAIN garbage[t] : x \in Chain(garbage[t][i])
    BY DEF ForceSet
  <2>2. b # garbage[t][i]
    BY <1>5, <1>8
  <2>3. QED
    BY <1>3, <1>8, <2>1, <2>2
<1>9. QED
  BY <1>4, <1>5, <1>6, <1>7, <1>8

\* A forced collection frees whole chains that nobody follows.
LEMMA Forces ==
  ASSUME PoolInv, NEW t \in Txs, CtxGcForce(t)
  PROVE  PoolInv'
<1> USE NullIsNoBlock
<1>1. PoolTypeOK /\ ShapeInv /\ TxInv /\ HeadsInv /\ HistInv
  BY InvShape DEF PoolInv
<1>2. PICK S \in SUBSET Blocks :
        /\ S = ForceSet(t) /\ Closed(S)
        /\ \A i \in DOMAIN garbage[t] : garbage[t][i] \in S
        /\ \A b \in S : IsHead(b) => \E i \in DOMAIN garbage[t] : garbage[t][i] = b
        /\ \A b \in Blocks : IsHead(b) /\ b \notin S => Chain(b) \cap S = {}
  BY ForcedChains
<1>3. /\ \A u \in Txs : call[u] = NoCall
      /\ Running = {}
      /\ Release(S)
      /\ p_main' = [r \in Refs |-> IF p_main[r] \in S THEN NULL ELSE p_main[r]]
      /\ garbage' = [garbage EXCEPT ![t] = <<>>]
      /\ UNCHANGED <<call, held, hist, txvars>>
  BY <1>2 DEF CtxGcForce, Idle
<1>4. \A u \in Txs : held[u] = NULL /\ ~IsWriting(u)
  BY <1>3, NothingHeld DEF Running, IsWriting
<1>5. /\ p_main' \in [Refs -> Blocks \cup {NULL}] /\ garbage' \in [Txs -> Seq(Blocks)]
      /\ \A r \in Refs : p_main'[r] = IF p_main[r] \in S THEN NULL ELSE p_main[r]
      /\ garbage'[t] = <<>> /\ \A u \in Txs \ {t} : garbage'[u] = garbage[u]
      /\ call' = call /\ held' = held /\ hist' = hist /\ UNCHANGED txvars
      /\ DOMAIN <<>> = {}
  <2>1. <<>> \in Seq(Blocks) /\ DOMAIN <<>> = {}
    OBVIOUS
  <2>2. QED
    BY <1>1, <1>3, <2>1 DEF PoolTypeOK
<1>6. /\ \A b \in Blocks : IsRoot(b)' <=> IsRoot(b) /\ b \notin S
      /\ \A b : ~IsDropped(b) /\ ~IsDropped(b)'
  BY <1>3, <1>5 DEF IsRoot, IsDropped, NoCall
<1>7. \A b \in Blocks : IsEntry(b)' <=> IsEntry(b) /\ b \notin S
  <2> SUFFICES ASSUME NEW b \in Blocks PROVE IsEntry(b)' <=> IsEntry(b) /\ b \notin S
    OBVIOUS
  <2>1. ASSUME IsEntry(b)' PROVE IsEntry(b) /\ b \notin S
    <3>1. PICK u \in Txs : \E j \in DOMAIN garbage'[u] : garbage'[u][j] = b
      BY <2>1 DEF IsEntry
    <3>2. u # t /\ garbage'[u] = garbage[u]
      BY <1>5, <3>1
    <3>3. IsEntry(b)
      BY <3>1, <3>2 DEF IsEntry
    <3>4. \A i \in DOMAIN garbage[t] : garbage[t][i] # b
      BY <1>1, <3>1, <3>2 DEF HeadsInv
    <3>5. QED
      BY <1>2, <3>3, <3>4 DEF IsHead
  <2>2. ASSUME IsEntry(b), b \notin S PROVE IsEntry(b)'
    <3>1. PICK u \in Txs : \E j \in DOMAIN garbage[u] : garbage[u][j] = b
      BY <2>2 DEF IsEntry
    <3>2. u # t
      BY <1>2, <2>2, <3>1
    <3>3. QED
      BY <1>5, <3>1, <3>2 DEF IsEntry
  <2>3. QED
    BY <2>1, <2>2
<1>8. /\ used' = used \ S
      /\ m_ts' \in [Blocks -> Nat] /\ p_data' \in [Blocks -> Nat \cup {NULL}]
      /\ p_next_version' \in [Blocks -> Blocks \cup {NULL}]
      /\ \A b \in Blocks : /\ m_ts'[b] = IF b \in S THEN 0 ELSE m_ts[b]
                           /\ p_data'[b] = IF b \in S THEN NULL ELSE p_data[b]
                           /\ p_next_version'[b] = IF b \in S THEN NULL ELSE p_next_version[b]
      /\ LinksInv'
  <2>1. HeadsWithout(S)
    BY <1>6, <1>7 DEF HeadsWithout, IsHead
  <2>2. QED
    BY <1>1, <1>2, <1>3, <1>5, <2>1, ReleaseLinks
<1>9. PoolTypeOK'
  BY <1>1, <1>5, <1>8 DEF PoolTypeOK
<1>10. HeadsInv'
  <2>1. ASSUME NEW b \in Blocks
        PROVE  /\ IsHead(b)' => b \in used'
               /\ IsLeftover(b)' => p_next_version'[b] = NULL
               /\ IsDropped(b)' => ~IsRoot(b)' /\ ~IsEntry(b)'
    BY <1>1, <1>6, <1>7, <1>8 DEF HeadsInv, IsHead, IsLeftover
  <2>2. \A r, s \in Rooted' : p_main'[r] = p_main'[s] => r = s
    BY <1>1, <1>5 DEF HeadsInv, Rooted
  <2>3. \A u, w \in Txs : \A i \in DOMAIN garbage'[u], j \in DOMAIN garbage'[w] :
          garbage'[u][i] = garbage'[w][j] => u = w /\ i = j
    BY <1>1, <1>5, SMTT(30) DEF HeadsInv
  <2>4. QED
    BY <1>3, <1>5, <2>1, <2>2, <2>3, SMTT(30) DEF HeadsInv, NoCall
<1>11. /\ LiveVersions' = LiveVersions /\ LiveVersions = {m_last_write_committed_id}
       /\ \A v : InTime(v)' <=> InTime(v)
       /\ m_last_write_committed_id' = m_last_write_committed_id
       /\ \A u : IsWriting(u)' <=> IsWriting(u)
  BY <1>3, <1>5, SameTx DEF LiveVersions, txvars
<1>12. HistInv'
  <2>1. \A r \in Refs : \A i \in DOMAIN hist[r] : InTime(hist[r][i].ver)' <=> InTime(hist[r][i].ver)
    BY <1>5 DEF InTime, IsWriting, IsWriter, txvars
  <2>2. QED
    BY <1>1, <1>5, <2>1 DEF HistInv
<1>13. TxInv' /\ ShapeInv'
  BY <1>1, <1>5, <1>8, <1>9, <1>10, TxInvNext DEF ShapeInv
<1>14. ASSUME NEW r \in Refs PROVE RefInv(r)'
  <2>1. /\ \A v : HistoryAt(r, v)' = HistoryAt(r, v)
        /\ RefInv(r)
    BY <1>5, SameHistory DEF PoolInv
  <2>2. CASE p_main[r] = NULL
    BY <1>5, <1>11, <2>1, <2>2 DEF RefInv
  <2>3. CASE p_main[r] \in S
    <3>1. IsHead(p_main[r])
      BY <2>3 DEF IsHead, IsRoot
    <3>2. PICK i \in DOMAIN garbage[t] : garbage[t][i] = p_main[r]
      BY <1>2, <2>3, <3>1
    <3>3. FreedBy(t, r)
      BY <3>2 DEF PoolInv, GarbageInv
    <3>4. hist[r] # <<>>
      BY <2>1, <2>3 DEF RefInv, RootedInv
    <3>5. Last(r).val = NULL /\ Last(r).ver <= m_last_write_committed_id /\ m_last_write_committed_id \in Nat
      BY <1>1, <1>4, <3>3 DEF FreedBy, TxInv, TypeOK
    <3>6. HistoryAt(r, m_last_write_committed_id) = NULL
      BY <1>1, <3>4, <3>5, HistoryTop
    <3>7. p_main'[r] = NULL
      BY <1>5, <2>3
    <3>8. QED
      BY <1>11, <2>1, <3>6, <3>7 DEF RefInv
  <2>4. CASE p_main[r] # NULL /\ p_main[r] \notin S
    <3>1. p_main[r] \in Blocks /\ IsHead(p_main[r]) /\ r \in Rooted
      BY <1>1, <2>4 DEF PoolTypeOK, IsHead, IsRoot, Rooted
    <3>2. \A b \in Chain(p_main[r]) : b \in Blocks /\ b \notin S
      <4>1. Chain(p_main[r]) \cap S = {}
        BY <1>2, <2>4, <3>1
      <4>2. Chain(p_main[r]) \in SUBSET Blocks
        BY <1>1, <3>1, DroppedApart
      <4>3. QED
        BY <4>1, <4>2
    <3>3. SameRef(r)
      BY <1>5, <1>8, <2>4, <3>2 DEF SameRef
    <3>4. ~Unlinking(p_main[r])
      BY <1>3 DEF Unlinking, NoCall
    <3>5. QED
      BY <1>1, <1>5, <1>13, <2>1, <3>3, <3>4, SameRefInv
  <2>5. QED
    BY <2>2, <2>3, <2>4
<1>15. GarbageInv'
  <2> SUFFICES ASSUME NEW u \in Txs, NEW i \in DOMAIN garbage'[u], NEW r \in Refs, p_main'[r] = garbage'[u][i]
               PROVE  FreedBy(u, r)'
    BY DEF GarbageInv
  <2>1. u # t /\ garbage'[u] = garbage[u]
    BY <1>5
  <2>2. garbage[u][i] \in Blocks
    BY <1>1, <2>1, SeqFacts DEF PoolTypeOK
  <2>3. p_main[r] = garbage[u][i]
    BY <1>5, <2>1, <2>2
  <2>4. FreedBy(u, r)
    BY <2>1, <2>3 DEF PoolInv, GarbageInv
  <2>5. QED
    BY <1>5, <1>11, <2>4 DEF FreedBy, Last, txvars
<1>16. ASSUME NEW u \in Txs PROVE CallInv(u)' /\ HeldInv(u)'
  BY <1>3, <1>4, <1>5 DEF CallInv, HeldInv, Idle, NoCall
<1>17. QED
  BY <1>8, <1>9, <1>10, <1>12, <1>13, <1>14, <1>15, <1>16 DEF PoolInv

\* Every step of the pool and of the transaction manager keeps the invariant.
LEMMA PoolInvNext ==
  ASSUME Liberties = {}
  PROVE  PoolInv /\ [PoolNext]_vars => PoolInv'
<1> SUFFICES ASSUME PoolInv, [PoolNext]_vars PROVE PoolInv'
  OBVIOUS
<1>1. ASSUME NEW t \in Txs, Manager(t) \/ PoolCommit(t) PROVE PoolInv'
  BY <1>1, ManagerMoves, Commits
<1>2. ASSUME NEW t \in Txs, NEW r \in Refs,
             Alloc(t, r) \/ Free(t, r) \/ ReaderStart(t, r) \/ WriterPtr(t, r, "read") \/ WriterPtr(t, r, "write")
      PROVE  PoolInv'
  BY <1>2, Allocs, FreeStarts, ReaderStarts, WriterStarts
<1>3. ASSUME NEW t \in Txs, ReaderStep(t) \/ ReaderEnd(t) PROVE PoolInv'
  BY <1>3, ReaderSteps, ReaderEnds
<1>4. ASSUME NEW t \in Txs, Sever(t) \/ Drop(t) \/ Copy(t) \/ Unlink(t) \/ Reclaim(t) PROVE PoolInv'
  BY <1>4, Severs, Drops, Copies, Unlinks, Reclaims
<1>5. ASSUME NEW t \in Txs, WriterRead(t) \/ WriterWrite(t) \/ FreeEnd(t) PROVE PoolInv'
  BY <1>5, WriterReads, WriterWrites, FreeEnds
<1>6. ASSUME NEW t \in Txs, CtxGc(t) \/ CtxGcForce(t) PROVE PoolInv'
  BY <1>6, SweepStarts, Forces
<1>7. CASE PoolRestart
  BY <1>7, Restarts
<1>8. CASE UNCHANGED vars
  <2>1. TxInv'
    BY <1>8, TxInvNext DEF PoolInv, vars
  <2>2. UNCHANGED <<p_main, m_ts, p_data, p_next_version, used, garbage, call, held, hist>> /\ UNCHANGED txvars
    BY <1>8 DEF vars, poolvars, blocks
  <2>3. /\ PoolTypeOK' /\ LinksInv' /\ HeadsInv' /\ GarbageInv' /\ HistInv'
    <3>1. PoolTypeOK'
      BY <2>2 DEF PoolInv, PoolTypeOK
    <3>2. GarbageInv' /\ HistInv'
      BY <2>2 DEF PoolInv, GarbageInv, HistInv, InTime, IsWriting, IsWriter, FreedBy, Last, txvars
    <3>3. LinksInv'
      BY <2>2 DEF PoolInv, LinksInv, IsHead, IsRoot, IsEntry, IsDropped, InTime, IsWriting, IsWriter, txvars
    <3>4. HeadsInv'
      BY <2>2 DEF PoolInv, HeadsInv, IsHead, IsRoot, IsEntry, IsDropped, IsLeftover, Rooted
    <3>5. QED
      BY <3>1, <3>2, <3>3, <3>4
  <2>4. ShapeInv /\ ShapeInv'
    BY <2>1, <2>3 DEF PoolInv, ShapeInv
  <2>5. ASSUME NEW r \in Refs PROVE RefInv(r)'
    <3>1. SameRef(r) /\ RefInv(r)
      BY <2>2 DEF SameRef, PoolInv
    <3>2. Unlinking(p_main[r])' <=> Unlinking(p_main[r])
      BY <2>2 DEF Unlinking
    <3>3. QED
      BY <2>2, <2>4, <3>1, <3>2, SameRefInv
  <2>6. ASSUME NEW u \in Txs PROVE HeldInv(u)' /\ CallInv(u)'
    <3>1. HeldInv(u) /\ CallInv(u)
      BY DEF PoolInv
    <3>2. HeldInv(u)'
      BY <2>2, <3>1, SameHeld DEF blocks
    <3>3. WalkInv(u) => WalkInv(u)'
      <4>1. /\ IsWriter(u)' <=> IsWriter(u)
            /\ Rooted' = Rooted /\ m_txversion' = m_txversion /\ pc' = pc
            /\ m_ts' = m_ts /\ p_main' = p_main /\ p_data' = p_data /\ call' = call
        BY <2>2 DEF IsWriter, Rooted, txvars
      <4>2. \A s, v : (FreedAt(s, v)' <=> FreedAt(s, v)) /\ HistoryAt(s, v)' = HistoryAt(s, v)
        BY <2>2 DEF FreedAt, HistoryAt
      <4>3. \A s, b : Versions(s)' = Versions(s) /\ (IsLeftover(b)' <=> IsLeftover(b))
        BY <2>2 DEF Versions, Chain, IsRoot, IsEntry, IsLeftover
      <4>4. QED
        BY <4>1, <4>2, <4>3 DEF WalkInv
    <3>4. SweepCall(u) => SweepCall(u)'
      <4>1. LiveVersions' = LiveVersions /\ (IsWriting(u)' <=> IsWriting(u))
        BY <2>2, SameTx
      <4>2. \A r \in Refs : \A v : FreedAt(r, v)' <=> FreedAt(r, v)
        BY <2>2, SameHistory
      <4>3. \A r \in Refs : FreedEarlier(u, r)' <=> FreedEarlier(u, r)
        BY <2>2, <4>2 DEF FreedEarlier, IsWriter, txvars
      <4>4. QED
        BY <2>2, <4>1, <4>2, <4>3 DEF SweepCall
    <3>5. WriterCall(u) => WriterCall(u)'
      BY <2>2, Zenon DEF WriterCall, FreeCandidate, FreedEarlier, FreedAt, HistoryAt, IsWriting, IsWriter, Rooted,
                         FreeBlocks, txvars
    <3>6. CollectRest(u) => CollectRest(u)'
      BY <2>2 DEF CollectRest, IsRoot, Severed, Chain, Collapsible
    <3>7. CollectInv(u) => CollectInv(u)'
      BY <2>2, <3>4, <3>5, <3>6 DEF CollectInv, CollectRest
    <3>8. CallInv(u)'
      BY <2>2, <3>1, <3>3, <3>7 DEF CallInv, Idle, txvars
    <3>9. QED
      BY <3>2, <3>8
  <2>7. QED
    BY <2>1, <2>3, <2>5, <2>6 DEF PoolInv
<1>9. QED
  BY <1>1, <1>2, <1>3, <1>4, <1>5, <1>6, <1>7, <1>8 DEF PoolNext

\* The inductive invariant of the pool: it holds before the first allocation and every store of
\* fdb_txpool_alloc_alloc, _ptr, _free and _gc, every sweep of fdb_txthread_ctx_gc and every step
\* of the transaction manager keeps it.
THEOREM PoolInvariant ==
  ASSUME Liberties = {}
  PROVE  PoolSpec => []PoolInv
<1>1. PoolInit => PoolInv
  BY PoolInvInit
<1>2. PoolInv /\ [PoolNext]_vars => PoolInv'
  BY PoolInvNext
<1>3. QED
  BY <1>1, <1>2, PTL DEF PoolSpec

---------------------------------------------------------------------------
\* What the invariant says about the properties of the runs.

\* What the walk of a transaction finds is what there is for it to see.
LEMMA VisibleIsSeen ==
  ASSUME ShapeInv, NEW r \in Rooted, NEW v \in Nat
  PROVE  Visible(p_main[r], v) \in Blocks /\ Seen(r, v, Visible(p_main[r], v))
<1>1. ChainOfRef(r)
  BY ChainsOfRefs
<1>2. YoungestAt(p_main[r], v) # NULL => YoungestAt(p_main[r], v) \in Versions(r)
  BY WalkEnds
<1>3. Visible(p_main[r], v) \in Blocks
  BY <1>1, <1>2 DEF Visible, ChainOfRef
<1>4. QED
  BY <1>3, WalkFindsSeen

\* RefInv says what a version sees; the walk finds it.
LEMMA InvReadable == PoolInv => SnapshotReadable
<1> SUFFICES ASSUME PoolInv, NEW t \in Running, NEW r \in Refs, ~FreedAt(r, m_txversion[t])
             PROVE  HistoryAt(r, m_txversion[t]) =
                      IF p_main[r] = NULL THEN NULL ELSE p_data[Visible(p_main[r], m_txversion[t])]
  BY DEF SnapshotReadable
<1>1. ShapeInv /\ RefInv(r) /\ m_txversion[t] \in LiveVersions /\ m_txversion[t] \in Nat
  BY InvShape, LiveNat DEF PoolInv, LiveVersions
<1>2. CASE p_main[r] = NULL
  BY <1>1, <1>2 DEF RefInv
<1>3. CASE p_main[r] # NULL
  <2>1. r \in Rooted /\ RootedInv(r)
    BY <1>1, <1>3 DEF RefInv, Rooted
  <2>2. PICK y \in Blocks : y = Visible(p_main[r], m_txversion[t]) /\ Seen(r, m_txversion[t], y)
    BY <1>1, <2>1, VisibleIsSeen
  <2>3. QED
    BY <1>1, <1>3, <2>1, <2>2 DEF RootedInv
<1>4. QED
  BY <1>2, <1>3

\* From any version on, the walk goes on to what a walk from the root finds.
LEMMA WalkOnFrom ==
  ASSUME ShapeInv, NEW r \in Rooted, NEW v \in Nat, NEW a \in Versions(r), m_ts[a] > v
  PROVE  LET w == YoungestAt(a, v)
         IN Seen(r, v, IF w = NULL THEN p_main[r] ELSE w)
<1> USE NullIsNoBlock
<1> DEFINE n == p_next_version[a]
           w == YoungestAt(a, v)
<1>1. ChainOfRef(r) /\ Descends(p_next_version) /\ m_ts \in [Blocks -> Nat]
  BY ChainsOfRefs, LinksDescend DEF ShapeInv, PoolTypeOK
<1>2. n \in Versions(r) \cup {NULL} /\ a \in Blocks /\ n \in Blocks \cup {NULL}
  BY <1>1 DEF ChainOfRef
<1>3. Ordered(p_next_version, m_ts, n) /\ Chain(n) \subseteq Versions(r)
  <2>1. CASE n = NULL
    <3>1. Chain(NULL) = {}
      BY <1>1, ChainUnfolds DEF Chain, Descends
    <3>2. QED
      BY <2>1, <3>1 DEF Ordered, Chain
  <2>2. CASE n # NULL
    <3>1. n \in Versions(r) /\ n \in Blocks /\ ~IsRoot(n)
      BY <1>1, <1>2, <2>2 DEF ChainOfRef, IsHead
    <3>2. p_next_version[p_main[r]] \in Blocks \cup {NULL}
      BY <1>1 DEF ChainOfRef, ShapeInv, PoolTypeOK
    <3>3. Chain(n) \subseteq Versions(r)
      BY <1>1, <3>1, <3>2, ChainSuffix DEF Versions, Chain
    <3>4. QED
      BY <3>1, <3>3, ShapeOrdered
  <2>3. QED
    BY <2>1, <2>2
<1>4. WalkEnd(p_next_version, m_ts, n, v, w)
  BY <1>1, <1>2, <1>3, WalkStops DEF YoungestAt
<1>5. \A x \in Versions(r) : m_ts[x] <= v => x \in Chain(n)
  <2> SUFFICES ASSUME NEW x \in Versions(r), m_ts[x] <= v PROVE x \in Chain(n)
    OBVIOUS
  <2>1. m_ts[x] \in Nat /\ m_ts[a] \in Nat
    BY <1>1, <1>2 DEF ChainOfRef
  <2>2. m_ts[x] < m_ts[a]
    BY <2>1
  <2>3. QED
    BY <1>1, <2>2 DEF ChainOfRef
<1>6. \A x \in Versions(r) : m_ts[x] \in Nat
  BY <1>1 DEF ChainOfRef
<1>7. CASE w = NULL
  <2>1. \A x \in Chain(n) : m_ts[x] > v
    BY <1>4, <1>7 DEF WalkEnd, Chain
  <2>2. \A x \in Versions(r) : m_ts[x] > v
    BY <1>3, <1>5, <1>6, <2>1
  <2>3. QED
    BY <1>7, <2>2 DEF Seen
<1>8. CASE w # NULL
  <2>1. w \in Chain(n) /\ m_ts[w] <= v /\ \A x \in Chain(n) : m_ts[x] <= v => m_ts[x] <= m_ts[w]
    BY <1>4, <1>8 DEF WalkEnd, Chain
  <2>2. QED
    BY <1>3, <1>5, <1>8, <2>1 DEF Seen
<1>9. QED
  BY <1>7, <1>8

\* WalkInv says where a reader can stand; from there the walk finds the value.
LEMMA InvWalks == PoolInv => WalkKeepsSnapshot
<1> USE NullIsNoBlock
<1> SUFFICES ASSUME PoolInv, NEW t \in Txs, call[t].op = "walk"
             PROVE  LET c == call[t]
                        v == m_txversion[t]
                        rest == IF c.at = NULL THEN c.root
                                ELSE IF m_ts[c.at] <= v THEN c.at
                                ELSE IF YoungestAt(c.at, v) = NULL THEN c.root ELSE YoungestAt(c.at, v)
                    IN p_data[rest] = HistoryAt(c.ref, v)
  BY DEF WalkKeepsSnapshot
<1>1. ShapeInv /\ WalkInv(t) /\ PoolTypeOK
  BY InvShape DEF PoolInv, CallInv
<1>2. PICK r \in Rooted, v \in Nat, a \in Blocks \cup {NULL} :
        /\ r = call[t].ref /\ v = m_txversion[t] /\ a = call[t].at
        /\ call[t].root = p_main[r] /\ ~FreedAt(r, v) /\ v \in LiveVersions
  BY <1>1, CallFields, LiveNat DEF WalkInv, LiveVersions, Running, ShapeInv
<1>3. ChainOfRef(r) /\ RootedInv(r)
  BY <1>1, <1>2, ChainsOfRefs DEF PoolInv, RefInv, Rooted
<1>4. \A y \in Blocks : Seen(r, v, y) => p_data[y] = HistoryAt(r, v)
  BY <1>2, <1>3 DEF RootedInv
<1>5. CASE a = NULL
  <2>1. \A b \in Versions(r) : m_ts[b] > v
    <3>1. ~IsLeftover(NULL) /\ NULL \notin Versions(r)
      <4>1. ~IsEntry(NULL)
        BY <1>1, SweepRoot
      <4>2. QED
        BY <1>3, <4>1 DEF IsLeftover, ChainOfRef
    <3>2. QED
      BY <1>1, <1>2, <1>5, <3>1 DEF WalkInv
  <2>2. Seen(r, v, p_main[r])
    BY <2>1 DEF Seen
  <2>3. QED
    BY <1>2, <1>3, <1>4, <1>5, <2>2 DEF ChainOfRef
<1>6. CASE a # NULL /\ a \in Versions(r) /\ \A b \in Versions(r) : m_ts[b] <= v => m_ts[b] <= m_ts[a]
  <2>1. CASE m_ts[a] <= v
    <3>1. Seen(r, v, a)
      BY <1>6, <2>1 DEF Seen
    <3>2. QED
      BY <1>2, <1>4, <1>6, <2>1, <3>1
  <2>2. CASE ~(m_ts[a] <= v)
    <3>1. m_ts[a] > v
      BY <1>1, <1>2, <1>6, <2>2 DEF PoolTypeOK
    <3>2. PICK y : y = (IF YoungestAt(a, v) = NULL THEN p_main[r] ELSE YoungestAt(a, v)) /\ Seen(r, v, y)
      BY <1>1, <1>6, <3>1, WalkOnFrom
    <3>3. y \in Blocks
      BY <1>3, <3>2 DEF Seen, ChainOfRef
    <3>4. p_data[y] = HistoryAt(r, v)
      BY <1>4, <3>2, <3>3
    <3>5. QED
      BY <1>2, <1>6, <2>2, <3>2, <3>4
  <2>3. QED
    BY <2>1, <2>2
<1>7. CASE a # NULL /\ m_ts[a] <= v /\ p_data[a] = HistoryAt(r, v)
  BY <1>2, <1>7
<1>8. QED
  BY <1>1, <1>2, <1>5, <1>6, <1>7 DEF WalkInv

\* Chains, cursors, pointers and entries are blocks in use.
LEMMA InvNoDangling == PoolInv => NoDangling
<1> USE NullIsNoBlock
<1> SUFFICES ASSUME PoolInv PROVE NoDangling
  OBVIOUS
<1>1. PoolTypeOK /\ ShapeInv /\ HeadsInv
  BY InvShape DEF PoolInv
<1>2. ASSUME NEW r \in Refs, p_main[r] # NULL PROVE Chain(p_main[r]) \subseteq used
  BY <1>1, <1>2, ChainsOfRefs DEF ChainOfRef, Rooted
<1>3. \A b : IsEntry(b) => b \in Blocks /\ b \in used
  BY <1>1, SweepRoot
<1>4. ASSUME NEW r \in Rooted PROVE p_main[r] \in used /\ Versions(r) \subseteq used
  BY <1>1, ChainsOfRefs DEF ChainOfRef
<1>5. ASSUME NEW t \in Txs PROVE {call[t].root, call[t].at} \ {NULL} \subseteq used
  <2>1. CallInv(t) /\ call[t] \in Calls
    BY <1>1, CallFields DEF PoolInv
  <2>2. CASE call[t].op = "none"
    BY <2>1, <2>2 DEF CallInv, Idle, NoCall
  <2>3. CASE call[t].op = "walk"
    <3>1. /\ call[t].ref \in Rooted /\ call[t].root = p_main[call[t].ref]
          /\ call[t].at = NULL \/ call[t].at \in Versions(call[t].ref) \/ IsLeftover(call[t].at)
      BY <2>1, <2>3 DEF CallInv, WalkInv
    <3>2. QED
      BY <1>3, <1>4, <3>1 DEF IsLeftover
  <2>4. CASE call[t].op \notin {"none", "walk"}
    <3>1. call[t].root \in used
      <4>1. \/ \E r \in Rooted : call[t].root = p_main[r]
            \/ IsLeftover(call[t].root)
        BY <2>4, CollectRoot
      <4>2. QED
        BY <1>3, <1>4, <4>1 DEF IsLeftover
    <3>2. call[t].at # NULL => call[t].at \in used
      <4>1. call[t].at # NULL => IsDropped(call[t].at)
        BY <2>1, <2>4 DEF CallInv, CollectInv, IsDropped
      <4>2. call[t].at # NULL => call[t].at \in Blocks
        BY <1>1, CallFields
      <4>3. QED
        BY <1>1, <4>1, <4>2 DEF HeadsInv, IsHead
    <3>3. QED
      BY <3>1, <3>2
  <2>5. QED
    BY <2>2, <2>3, <2>4
<1>6. ASSUME NEW t \in Txs, held[t] # NULL PROVE held[t].block \in used
  <2>1. /\ held[t].ref \in Rooted
        /\ \/ held[t].block = p_main[held[t].ref] \/ held[t].block \in Versions(held[t].ref)
           \/ IsLeftover(held[t].block)
    BY <1>6 DEF PoolInv, HeldInv
  <2>2. QED
    BY <1>3, <1>4, <2>1 DEF IsLeftover
<1>7. ASSUME NEW t \in Txs, NEW i \in DOMAIN garbage[t] PROVE Chain(garbage[t][i]) \subseteq used
  <2>1. PICK b : b = garbage[t][i] /\ IsEntry(b)
    BY DEF IsEntry
  <2>2. b \in Blocks /\ b \in used /\ ((\E s \in Rooted : b = p_main[s]) \/ p_next_version[b] = NULL)
    BY <1>1, <2>1, SweepRoot
  <2>3. CASE \E s \in Rooted : b = p_main[s]
    BY <1>2, <2>1, <2>3 DEF Rooted
  <2>4. CASE p_next_version[b] = NULL
    <3>1. LinksOn(p_next_version)
      BY <1>1 DEF PoolTypeOK, LinksOn
    <3>2. ChainOf(p_next_version, NULL) = {} /\ ChainOf(p_next_version, b) = {b} \cup ChainOf(p_next_version, p_next_version[b])
      BY <2>2, <3>1, ChainUnfolds
    <3>3. Chain(b) = {b}
      BY <2>4, <3>2 DEF Chain
    <3>4. QED
      BY <2>1, <2>2, <3>3
  <2>5. QED
    BY <2>2, <2>3, <2>4
<1>8. QED
  BY <1>2, <1>5, <1>6, <1>7 DEF NoDangling

\* A tombstone that collapses lies over a root with data.
LEMMA InvFreesNoNull == PoolInv => NeverFreesNull
<1> USE NullIsNoBlock
<1> SUFFICES ASSUME PoolInv, NEW t \in Txs, call[t].op = "copy", Collapsible(call[t].root, call[t].orv),
                    p_data[p_next_version[call[t].root]] = NULL
             PROVE  p_data[call[t].root] # NULL
  BY DEF NeverFreesNull
<1>1. PoolTypeOK /\ ShapeInv /\ HeadsInv
  BY InvShape DEF PoolInv
<1>2. PICK r \in Rooted : call[t].root = p_main[r]
  BY CollectRoot DEF Collapsible
<1>3. ChainOfRef(r) /\ RootedInv(r)
  BY <1>1, <1>2, ChainsOfRefs DEF PoolInv, RefInv, Rooted
<1>4. p_data[p_main[r]] # NULL \/ Unlinking(p_main[r])
  BY <1>2, <1>3 DEF Collapsible, ChainOfRef, RootedInv
<1>5. ASSUME Unlinking(p_main[r]) PROVE FALSE
  <2>1. PICK u \in Txs : call[u].op = "unlink" /\ call[u].root = p_main[r]
    BY <1>5 DEF Unlinking
  <2>2. u # t
    BY <2>1
  <2>3. Alone(t, r) /\ CollectInv(u)
    BY <1>2, <2>1, CollectsAlone DEF PoolInv, CallInv
  <2>4. CASE call[u].then = "sweep"
    BY <2>1, <2>2, <2>3, <2>4 DEF CollectInv, SweepCall, Alone
  <2>5. CASE call[u].then # "sweep"
    <3>1. call[u].ref \in Rooted /\ p_main[r] = p_main[call[u].ref] /\ call[u].ref # r
      BY <2>1, <2>2, <2>3, <2>5 DEF CollectInv, WriterCall, Alone
    <3>2. QED
      BY <1>1, <3>1 DEF HeadsInv
  <2>6. QED
    BY <2>4, <2>5
<1>6. QED
  BY <1>2, <1>4, <1>5

\* Both parts of MemorySafe.
LEMMA InvMemory == PoolInv => MemorySafe
  BY InvNoDangling, InvFreesNoNull DEF MemorySafe

\* Timestamps decrease along a chain because links descend and roots are the oldest.
LEMMA InvOrder == PoolInv => ChainOrder
<1> SUFFICES ASSUME PoolInv, NEW r \in Refs, p_main[r] # NULL, NEW b \in Chain(p_main[r]) \ {p_main[r]}
             PROVE  /\ m_ts[b] > m_ts[p_main[r]]
                    /\ p_next_version[b] # NULL => m_ts[b] > m_ts[p_next_version[b]]
  BY DEF ChainOrder
<1>1. PoolTypeOK /\ ShapeInv /\ LinksInv /\ r \in Rooted
  BY InvShape DEF PoolInv, Rooted
<1>2. ChainOfRef(r) /\ RootedInv(r)
  BY <1>1, ChainsOfRefs DEF PoolInv, RefInv, Rooted
<1>3. b \in Versions(r) /\ b \in Blocks /\ p_main[r] \in Blocks /\ ~IsRoot(b)
  BY <1>2 DEF ChainOfRef, IsHead
<1>4. m_ts[p_main[r]] < m_ts[b] /\ m_ts[b] \in Nat /\ m_ts[p_main[r]] \in Nat
  BY <1>1, <1>2, <1>3 DEF RootedInv, PoolTypeOK
<1>5. ASSUME p_next_version[b] # NULL PROVE m_ts[b] > m_ts[p_next_version[b]]
  <2>1. m_ts[p_next_version[b]] < m_ts[b] /\ m_ts[p_next_version[b]] \in Nat
    BY <1>1, <1>3, <1>5 DEF LinksInv, PoolTypeOK
  <2>2. QED
    BY <1>4, <2>1
<1>6. QED
  BY <1>4, <1>5

\* A block that cannot be reached would have one before it that cannot be reached either, and
\* that one would be younger: there is no youngest.
LEMMA InvNoLeak == PoolInv => NoLeak
<1> USE NullIsNoBlock
<1> DEFINE FromRoots == UNION {Chain(p_main[r]) : r \in {x \in Refs : p_main[x] # NULL}}
           FromEntries == UNION {ForceSet(t) : t \in Txs}
           Dropped == UNION {Chain(call[t].at) : t \in {x \in Txs : call[x].op = "drop"}}
           Reach == FromRoots \cup FromEntries \cup Dropped
           Lost == used \ Reach
<1> SUFFICES ASSUME PoolInv, Lost # {} PROVE FALSE
  <2>1. (used \subseteq Reach) => NoLeak
    BY DEF NoLeak
  <2> HIDE DEF Reach
  <2>2. (Lost # {} \/ used \subseteq Reach)
    OBVIOUS
  <2>3. QED
    BY <2>1, <2>2
<1>0. \A x : x \in Reach <=> \/ \E r \in Refs : p_main[r] # NULL /\ x \in Chain(p_main[r])
                             \/ \E t \in Txs : x \in ForceSet(t)
                             \/ \E t \in Txs : call[t].op = "drop" /\ x \in Chain(call[t].at)
  <2>1. \A x : x \in FromRoots <=> \E r \in Refs : p_main[r] # NULL /\ x \in Chain(p_main[r])
    OBVIOUS
  <2>2. \A x : x \in FromEntries <=> \E t \in Txs : x \in ForceSet(t)
    OBVIOUS
  <2>3. \A x : x \in Dropped <=> \E t \in Txs : call[t].op = "drop" /\ x \in Chain(call[t].at)
    OBVIOUS
  <2> HIDE DEF FromRoots, FromEntries, Dropped
  <2>4. QED
    BY <2>1, <2>2, <2>3
<1> HIDE DEF Reach
<1>1. PoolTypeOK /\ ShapeInv /\ LinksInv /\ HeadsInv /\ Descends(p_next_version)
  BY InvShape, LinksDescend DEF PoolInv
<1>2. \A b \in Blocks : /\ b \in Chain(b)
                        /\ \A x \in Chain(b) : p_next_version[x] \in Chain(b) \cup {NULL}
  <2>1. \A b \in Blocks : ChainOf(p_next_version, b) = {b} \cup ChainOf(p_next_version, p_next_version[b])
    BY <1>1, ChainUnfolds DEF Descends
  <2>2. QED
    BY <1>1, <2>1, ChainClosed DEF Chain
<1>3. \A b \in Blocks : IsHead(b) => \A x \in Chain(b) : x \in Reach
  <2>1. ASSUME NEW b \in Blocks, IsRoot(b), NEW x \in Chain(b) PROVE x \in Reach
    BY <1>0, <2>1 DEF IsRoot
  <2>2. ASSUME NEW b \in Blocks, IsEntry(b), NEW x \in Chain(b) PROVE x \in Reach
    <3>1. PICK t \in Txs : \E i \in DOMAIN garbage[t] : garbage[t][i] = b
      BY <2>2 DEF IsEntry
    <3>2. x \in ForceSet(t)
      BY <2>2, <3>1 DEF ForceSet
    <3>3. QED
      BY <1>0, <3>2
  <2>3. ASSUME NEW b \in Blocks, IsDropped(b), NEW x \in Chain(b) PROVE x \in Reach
    BY <1>0, <2>3 DEF IsDropped
  <2>4. QED
    BY <2>1, <2>2, <2>3 DEF IsHead
<1>4. ASSUME NEW a \in Blocks, a \in Reach, p_next_version[a] # NULL PROVE p_next_version[a] \in Reach
  <2>1. \E b \in Blocks : a \in Chain(b) /\ \A x \in Chain(b) : x \in Reach
    <3>1. CASE \E r \in Refs : p_main[r] # NULL /\ a \in Chain(p_main[r])
      <4>1. PICK r \in Refs : p_main[r] # NULL /\ a \in Chain(p_main[r])
        BY <3>1
      <4>2. p_main[r] \in Blocks /\ \A x \in Chain(p_main[r]) : x \in Reach
        BY <1>0, <1>1, <4>1 DEF PoolTypeOK
      <4>3. QED
        BY <4>1, <4>2
    <3>2. CASE \E t \in Txs : a \in ForceSet(t)
      <4>1. PICK t \in Txs : \E i \in DOMAIN garbage[t] : a \in Chain(garbage[t][i])
        BY <3>2 DEF ForceSet
      <4>2. PICK i \in DOMAIN garbage[t] : a \in Chain(garbage[t][i])
        BY <4>1
      <4>3. IsEntry(garbage[t][i])
        BY DEF IsEntry
      <4>4. garbage[t][i] \in Blocks /\ IsHead(garbage[t][i])
        BY <1>1, <4>3, SweepRoot DEF IsHead
      <4>5. QED
        BY <1>3, <4>2, <4>4
    <3>3. CASE \E t \in Txs : call[t].op = "drop" /\ a \in Chain(call[t].at)
      <4>1. PICK t \in Txs : call[t].op = "drop" /\ a \in Chain(call[t].at)
        BY <3>3
      <4>2. call[t].at # NULL
        BY <4>1 DEF PoolInv, CallInv, CollectInv
      <4>3. call[t].at \in Blocks
        BY <1>1, <4>2, CallFields
      <4>4. IsHead(call[t].at)
        BY <4>1 DEF IsHead, IsDropped
      <4>5. QED
        BY <1>3, <4>1, <4>3, <4>4
    <3>4. QED
      BY <1>0, <1>4, <3>1, <3>2, <3>3
  <2>2. QED
    BY <1>2, <1>4, <2>1
<1>5. \A b \in Lost : /\ b \in Blocks /\ b \in used /\ ~IsHead(b)
                      /\ m_ts[b] \in Nat /\ m_ts[b] < m_next_id
  <2>1. m_next_id \in Nat /\ \A v \in Nat : InTime(v) => v < m_next_id
    BY LiveTypes DEF PoolInv
  <2>2. QED
    BY <1>1, <1>2, <1>3, <2>1 DEF PoolTypeOK, LinksInv
<1>6. ASSUME NEW b \in Lost PROVE \E a \in Lost : m_ts[b] < m_ts[a]
  <2>1. PICK a \in Blocks : p_next_version[a] = b
    BY <1>1, <1>5 DEF LinksInv
  <2>2. a \in used /\ (~IsRoot(a) => m_ts[b] < m_ts[a])
    BY <1>1, <1>5, <2>1 DEF LinksInv
  <2>3. a \notin Reach
    BY <1>4, <1>5, <2>1
  <2>4. ~IsRoot(a)
    BY <1>2, <1>3, <2>1, <2>3 DEF IsHead
  <2>5. QED
    BY <2>2, <2>3, <2>4
<1> DEFINE Ages == {k \in Nat : \E b \in Lost : k = m_next_id - m_ts[b]}
<1>7. m_next_id \in Nat
  BY LiveTypes DEF PoolInv
<1>8. \A b \in Lost : m_next_id - m_ts[b] \in Ages
  BY <1>5, <1>7
<1>9. PICK k \in Ages : \A j \in Ages : k <= j
  <2>1. Ages \in SUBSET Nat /\ Ages # {}
    BY <1>8
  <2> HIDE DEF Ages
  <2>2. QED
    BY <2>1, LeastNumber
<1>10. PICK b \in Lost : k = m_next_id - m_ts[b]
  BY <1>9
<1>11. PICK a \in Lost : m_ts[b] < m_ts[a]
  BY <1>6
<1>12. k <= m_next_id - m_ts[a]
  BY <1>8, <1>9
<1>13. QED
  BY <1>5, <1>7, <1>10, <1>11, <1>12

\* Entries have no predecessor and each block has one at most, so their chains are apart.
LEMMA InvDisjoint == PoolInv => GarbageDisjoint
<1> SUFFICES ASSUME PoolInv, NEW t \in Txs, NEW u \in Txs, NEW i \in DOMAIN garbage[t],
                    NEW j \in DOMAIN garbage[u], <<t, i>> # <<u, j>>
             PROVE  Chain(garbage[t][i]) \cap Chain(garbage[u][j]) = {}
  BY DEF GarbageDisjoint
<1>1. ShapeInv /\ HeadsInv
  BY InvShape DEF PoolInv
<1>2. garbage[t][i] # garbage[u][j]
  BY <1>1 DEF HeadsInv
<1>3. IsEntry(garbage[t][i]) /\ IsEntry(garbage[u][j])
  BY DEF IsEntry
<1>4. /\ garbage[t][i] \in Blocks /\ IsHead(garbage[t][i])
      /\ garbage[u][j] \in Blocks /\ IsHead(garbage[u][j])
  BY <1>1, <1>3, SweepRoot DEF IsHead
<1>5. QED
  BY <1>1, <1>2, <1>4, DroppedApart

\* The three parts of ChainsSound.
LEMMA InvChains == PoolInv => ChainsSound
  BY InvOrder, InvNoLeak, InvDisjoint DEF ChainsSound

\* Every field of the pool, of its blocks and of the calls inside it keeps its type, for any
\* number of transactions, references and blocks (PoolTypeOK; txpool_allocator.c, all stores).
THEOREM PoolTypeCorrect ==
  ASSUME Liberties = {}
  PROVE  PoolSpec => []PoolTypeOK
<1>1. PoolInv => PoolTypeOK
  BY DEF PoolInv
<1>2. QED
  BY <1>1, PoolInvariant, PTL

\* Whatever store a writer or a collection is at, a running transaction that follows a
\* reference finds the value of its snapshot (fdb_txpool_alloc_ptr, txpool_allocator.c:191-277,
\* against the stores of 97-116, 142-183 and 280-378).
THEOREM SnapshotsReadable ==
  ASSUME Liberties = {}
  PROVE  PoolSpec => []SnapshotReadable
  BY InvReadable, PoolInvariant, PTL

\* A reader in the middle of the loop of txpool_allocator.c:213-221 still reaches the value of
\* its snapshot, although the chain is cut, collapsed and unlinked under it without a lock.
THEOREM WalksKeepSnapshots ==
  ASSUME Liberties = {}
  PROVE  PoolSpec => []WalkKeepsSnapshot
  BY InvWalks, PoolInvariant, PTL

\* No block that a chain, a cursor, a pointer of a client or a garbage list leads to has gone
\* back to the pool, and the data pool is never given NULL (txpool_allocator.c:327-358).
THEOREM MemoryIsSafe ==
  ASSUME Liberties = {}
  PROVE  PoolSpec => []MemorySafe
  BY InvMemory, PoolInvariant, PTL

\* Chains stay ordered (asserted at txpool_allocator.c:218 and 314), no block that was handed
\* out is lost, and no two entries of the garbage lists of tx.c:175-208 share a block.
THEOREM ChainsAreSound ==
  ASSUME Liberties = {}
  PROVE  PoolSpec => []ChainsSound
  BY InvChains, PoolInvariant, PTL
===========================================================================
