----------------------------- MODULE StoreProofs -----------------------------
(***************************************************************************)
(* The pool implements the snapshot store: every step of the pool and of   *)
(* the transaction manager is, under the mapping at the end of TxPool, a   *)
(* step of SnapshotStore or changes nothing it can show.                   *)
(*                                                                         *)
(* PoolInv says that memory handed out stays in use.  The mapping reads    *)
(* what a pointer shows off that memory, so one has to know as well that   *)
(* what it shows is the snapshot's value for as long as it is held, while  *)
(* the root takes the data of another block and a writer stores in place   *)
(* (ShowInv), and that ids stay within the values of the store (IdsInv).   *)
(***************************************************************************)
EXTENDS TxPoolProofs

\* The top of a chain holds the last store; a pointer shows what its transaction sees, and a
\* reader's leads to no block younger than its snapshot.
ShowInv ==
  /\ \A r \in Rooted : p_data[FreeCandidate(p_main[r])] = Last(r).val
  /\ \A t \in Txs : held[t] # NULL =>
       /\ Shown(t) = HistoryAt(held[t].ref, m_txversion[t])
       /\ ~IsWriter(t) /\ held[t].block # p_main[held[t].ref] => m_ts[held[t].block] <= m_txversion[t]

\* One writer queues at a time, and the ids it and the one before it may still take are left.
IdsInv ==
  /\ \A t, u \in Txs : pc[t] = "lock_write" /\ pc[u] = "lock_write" => t = u
  /\ m_next_id + (IF \E t \in Txs : pc[t] = "lock_write" THEN 1 ELSE 0)
               + (IF \E t \in Txs : pc[t] = "begin" THEN 1 ELSE 0) <= MaxId + 1

\* A pointer handed out leads into memory in use.
LEMMA HeldFacts ==
  ASSUME PoolInv, NEW u \in Txs, held[u] # NULL
  PROVE  /\ held[u].ref \in Rooted /\ held[u].ref \in Refs
         /\ held[u].block \in Blocks /\ held[u].block \in used
         /\ pc[u] = "running" /\ m_txversion[u] \in LiveVersions /\ m_txversion[u] \in Nat
         /\ IsWriter(u) \/ ~FreedAt(held[u].ref, m_txversion[u])
<1>1. HeldInv(u) /\ PoolTypeOK /\ NoDangling /\ TxInv
  BY InvNoDangling DEF PoolInv
<1>2. held[u].ref \in Rooted /\ pc[u] = "running" /\ ~FreedEarlier(u, held[u].ref)
  BY <1>1 DEF HeldInv
<1>3. held[u].block \in used /\ used \subseteq Blocks
  BY <1>1 DEF NoDangling, PoolTypeOK
<1>4. m_txversion[u] \in LiveVersions
  BY <1>2 DEF LiveVersions, Running
<1>5. QED
  BY <1>1, <1>2, <1>3, <1>4, LiveNat DEF FreedEarlier, Rooted

\* Steps that leave histories and pointers alone change nothing the store can show if the
\* data of what is held stays.
LEMMA NothingShows ==
  ASSUME PoolInv, PoolInv', ShowInv, UNCHANGED <<txvars, hist, held>>,
         \A r \in Rooted' : /\ p_main'[r] = p_main[r]
                            /\ p_data'[FreeCandidate(p_main[r])'] = p_data[FreeCandidate(p_main[r])],
         \A u \in Txs : held[u] # NULL =>
           /\ held[u].null \/ p_data'[held[u].block] = p_data[held[u].block]
           /\ m_ts'[held[u].block] = m_ts[held[u].block] \/ p_main[held[u].ref] = held[u].block
  PROVE  ShowInv' /\ UNCHANGED Store!storevars
<1>1. /\ \A r \in Refs : \A v : HistoryAt(r, v)' = HistoryAt(r, v)
      /\ \A r \in Refs : Last(r)' = Last(r)
      /\ m_txversion' = m_txversion /\ pc' = pc /\ m_tx_type' = m_tx_type /\ held' = held
      /\ m_last_write_committed_id' = m_last_write_committed_id
  BY SameHistory DEF txvars
<1>2. ASSUME NEW u \in Txs, held[u] # NULL
      PROVE  /\ held[u].ref \in Rooted' /\ held[u].ref \in Refs
             /\ p_main'[held[u].ref] = p_main[held[u].ref]
             /\ Shown(u)' = Shown(u)
  <2>1. HeldInv(u)'
    BY DEF PoolInv
  <2>2. held[u].ref \in Rooted'
    BY <1>1, <1>2, <2>1 DEF HeldInv
  <2>3. Shown(u)' = Shown(u)
    BY <1>1, <1>2 DEF Shown
  <2>4. QED
    BY <2>2, <2>3 DEF Rooted
<1>3. ASSUME NEW r \in Rooted' PROVE p_data'[FreeCandidate(p_main[r])'] = Last(r)'.val
  <2>1. p_main'[r] = p_main[r] /\ r \in Refs /\ p_main'[r] # NULL
    BY DEF Rooted
  <2>2. r \in Rooted
    BY <2>1 DEF Rooted
  <2>3. QED
    BY <1>1, <2>1, <2>2 DEF ShowInv
<1>4. ASSUME NEW u \in Txs, held[u] # NULL
      PROVE  /\ Shown(u)' = HistoryAt(held[u].ref, m_txversion[u])
             /\ ~IsWriter(u) /\ held[u].block # p_main[held[u].ref] => m_ts'[held[u].block] <= m_txversion[u]
  BY <1>2, <1>4 DEF ShowInv
<1>5. ShowInv'
  <2>1. \A u \in Txs : /\ HistoryAt(held[u].ref, m_txversion[u])' = HistoryAt(held[u].ref, m_txversion[u])
                       /\ IsWriter(u)' <=> IsWriter(u)
    BY <1>1 DEF HistoryAt, IsWriter
  <2>2. \A u \in Txs : held[u] # NULL =>
          /\ Shown(u)' = HistoryAt(held[u].ref, m_txversion[u])'
          /\ (~IsWriter(u) /\ held[u].block # p_main[held[u].ref] => m_ts[held[u].block] <= m_txversion[u])'
    BY <1>1, <1>2, <1>4, <2>1
  <2>3. QED
    BY <1>1, <1>3, <2>2 DEF ShowInv
<1>6. StoreDb' = StoreDb /\ StoreMode' = StoreMode /\ StoreView' = StoreView
  BY <1>1 DEF StoreDb, StoreMode, StoreView, IsWriter
<1>7. StoreOut' = StoreOut
  BY <1>1, <1>2 DEF StoreOut
<1>8. QED
  BY <1>5, <1>6, <1>7 DEF Store!storevars

\* Steps that store nothing into blocks.
LEMMA StoresNothing ==
  ASSUME PoolInv, PoolInv', ShowInv, UNCHANGED <<p_main, blocks, held, hist, txvars>>
  PROVE  ShowInv' /\ UNCHANGED Store!storevars
<1>1. /\ \A r \in Rooted' : /\ p_main'[r] = p_main[r]
                            /\ p_data'[FreeCandidate(p_main[r])'] = p_data[FreeCandidate(p_main[r])]
      /\ \A u \in Txs : held[u] # NULL =>
           /\ held[u].null \/ p_data'[held[u].block] = p_data[held[u].block]
           /\ m_ts'[held[u].block] = m_ts[held[u].block] \/ p_main[held[u].ref] = held[u].block
  BY DEF blocks, FreeCandidate
<1>2. UNCHANGED <<txvars, hist, held>>
  OBVIOUS
<1>3. QED
  BY <1>1, <1>2, NothingShows

\* Blocks that go back to the pool are none that is held or at the top of a chain.
LEMMA ReleasesUnseen ==
  ASSUME PoolInv, PoolInv', ShowInv, UNCHANGED <<txvars, hist, held>>, NEW S, Release(S),
         \A r \in Refs : p_main'[r] \in {p_main[r], NULL}
  PROVE  ShowInv' /\ UNCHANGED Store!storevars
<1> USE NullIsNoBlock
<1>1. NoDangling'
  <2>1. (PoolInv => NoDangling)'
    BY InvNoDangling, PTL
  <2>2. QED
    BY <2>1
<1>2. /\ used' = used \ S /\ used' \subseteq Blocks
      /\ \A b \in Blocks \ S : m_ts'[b] = m_ts[b] /\ p_data'[b] = p_data[b] /\ p_next_version'[b] = p_next_version[b]
  BY DEF Release, PoolInv, PoolTypeOK
<1>3. ASSUME NEW r \in Rooted'
      PROVE  /\ p_main'[r] = p_main[r]
             /\ p_data'[FreeCandidate(p_main[r])'] = p_data[FreeCandidate(p_main[r])]
  <2>1. p_main'[r] = p_main[r] /\ p_main'[r] # NULL /\ r \in Refs
    BY DEF Rooted
  <2>2. LinksInv' /\ HeadsInv' /\ PoolTypeOK
    BY DEF PoolInv
  <2>3. PICK root \in Blocks : root = p_main[r] /\ root \in used'
    <3>1. PICK root \in Blocks : root = p_main[r]
      BY <2>1, <2>2 DEF PoolTypeOK
    <3>2. IsHead(root)'
      BY <2>1, <3>1 DEF IsHead, IsRoot
    <3>3. root \in used'
      BY <2>2, <3>2 DEF HeadsInv
    <3>4. QED
      BY <3>1, <3>3
  <2>4. p_next_version'[root] = p_next_version[root] /\ p_data'[root] = p_data[root]
    BY <1>2, <2>3
  <2>5. p_next_version'[root] # NULL => p_next_version'[root] \in used'
    BY <2>2, <2>3 DEF LinksInv
  <2>6. FreeCandidate(p_main[r])' = FreeCandidate(p_main[r]) /\ FreeCandidate(p_main[r]) \in used'
    BY <2>1, <2>3, <2>4, <2>5 DEF FreeCandidate
  <2>7. QED
    BY <1>2, <2>1, <2>6
<1>4. ASSUME NEW u \in Txs, held[u] # NULL
      PROVE  p_data'[held[u].block] = p_data[held[u].block] /\ m_ts'[held[u].block] = m_ts[held[u].block]
  <2>1. held[u].block \in used'
    BY <1>1, <1>4 DEF NoDangling
  <2>2. QED
    BY <1>2, <2>1
<1>5. QED
  BY <1>3, <1>4, NothingShows

\* Calls that store nothing, and calls that give blocks back.
LEMMA QuietCalls ==
  ASSUME PoolInv, PoolInv', ShowInv, NEW t \in Txs,
         \/ \E r \in Refs : \/ ReaderStart(t, r) \/ Free(t, r)
                            \/ WriterPtr(t, r, "read") \/ WriterPtr(t, r, "write")
         \/ ReaderStep(t) \/ CtxGc(t)
         \/ Drop(t) \/ Reclaim(t)
  PROVE  ShowInv' /\ UNCHANGED Store!storevars
<1>1. ASSUME \/ \E r \in Refs : \/ ReaderStart(t, r) \/ Free(t, r)
                                \/ WriterPtr(t, r, "read") \/ WriterPtr(t, r, "write")
             \/ ReaderStep(t) \/ CtxGc(t)
      PROVE  UNCHANGED <<p_main, blocks, held, hist, txvars>>
  BY <1>1 DEF ReaderStart, Free, WriterPtr, ReaderStep, CtxGc
<1>2. ASSUME Drop(t) PROVE ShowInv' /\ UNCHANGED Store!storevars
  <2>1. PICK S : S = Chain(call[t].at)
    OBVIOUS
  <2>2. /\ UNCHANGED <<txvars, hist, held>> /\ Release(S)
        /\ \A r \in Refs : p_main'[r] \in {p_main[r], NULL}
    BY <1>2, <2>1 DEF Drop
  <2>3. QED
    BY <2>2, ReleasesUnseen
<1>3. ASSUME Reclaim(t) PROVE ShowInv' /\ UNCHANGED Store!storevars
  <2>1. CASE Reclaimable(call[t].root, call[t].orv)
    <3>1. PICK S : S = {call[t].root}
      OBVIOUS
    <3>2. /\ UNCHANGED <<txvars, hist, held>> /\ Release(S)
          /\ p_main' = [r \in Refs |-> IF p_main[r] = call[t].root THEN NULL ELSE p_main[r]]
      BY <1>3, <2>1, <3>1 DEF Reclaim
    <3>3. \A r \in Refs : p_main'[r] \in {p_main[r], NULL}
      BY <3>2
    <3>4. QED
      BY <3>2, <3>3, ReleasesUnseen
  <2>2. CASE ~Reclaimable(call[t].root, call[t].orv)
    <3>1. UNCHANGED <<p_main, blocks, held, hist, txvars>>
      BY <1>3, <2>2 DEF Reclaim
    <3>2. QED
      BY <3>1, StoresNothing
  <2>3. QED
    BY <2>1, <2>2
<1>4. UNCHANGED <<p_main, blocks, held, hist, txvars>> => ShowInv' /\ UNCHANGED Store!storevars
  BY StoresNothing
<1>5. ASSUME \/ \E r \in Refs : \/ ReaderStart(t, r) \/ Free(t, r)
                                \/ WriterPtr(t, r, "read") \/ WriterPtr(t, r, "write")
             \/ ReaderStep(t) \/ CtxGc(t)
      PROVE  ShowInv' /\ UNCHANGED Store!storevars
  BY <1>1, <1>4, <1>5
<1>6. QED
  BY <1>2, <1>3, <1>5, Zenon

\* Cutting a chain leaves its top where it is.
LEMMA SeverUnseen ==
  ASSUME PoolInv, PoolInv', ShowInv, NEW t \in Txs, Sever(t)
  PROVE  ShowInv' /\ UNCHANGED Store!storevars
<1> USE NullIsNoBlock
<1>1. ShapeInv /\ CollectInv(t) /\ PoolTypeOK /\ TxInv /\ call[t].op = "sever" /\ UNCHANGED <<p_main, m_ts, p_data, held, hist, txvars>>
  BY InvShape DEF PoolInv, CallInv, Sever
<1>2. PICK keep : keep = YoungestAt(call[t].root, call[t].orv)
  OBVIOUS
<1>3. CASE keep # NULL /\ p_next_version[keep] # NULL
  <2>1. p_next_version' = [p_next_version EXCEPT ![keep] = NULL]
    BY <1>2, <1>3 DEF Sever
  <2>2. call[t].root \in Blocks
    BY <1>1, CollectRoot
  <2>3. PICK r \in Rooted : call[t].root = p_main[r]
    <3>1. CASE \E r \in Rooted : call[t].root = p_main[r]
      BY <3>1
    <3>2. CASE p_next_version[call[t].root] = NULL
      <4>1. Descends(p_next_version) /\ LinksOn(p_next_version)
        BY <1>1, LinksDescend DEF Descends
      <4>2. YoungestAt(call[t].root, call[t].orv) = NULL
        BY <3>2, <4>1, WalkUnfolds DEF YoungestAt
      <4>3. QED
        BY <1>2, <1>3, <4>2
    <3>3. call[t].op \notin {"none", "walk"}
      BY <1>1
    <3>4. QED
      BY <3>1, <3>2, <3>3, CollectRoot
  <2>4. keep \in Versions(r)
    <3>1. call[t].orv \in Nat
      BY <1>1, CallFields
    <3>2. QED
      BY <1>1, <1>2, <1>3, <2>3, <3>1, WalkEnds
  <2>5. keep \in Blocks /\ ~IsHead(keep)
    BY <1>1, <2>4, ChainsOfRefs DEF ChainOfRef
  <2>6. \A s \in Refs : p_main[s] # keep
    BY <2>5 DEF IsHead, IsRoot
  <2>7. ASSUME NEW s \in Rooted'
        PROVE  /\ p_main'[s] = p_main[s]
               /\ p_data'[FreeCandidate(p_main[s])'] = p_data[FreeCandidate(p_main[s])]
    <3>1. p_main[s] \in Blocks /\ p_main'[s] = p_main[s] /\ p_main[s] # keep
      BY <1>1, <2>6 DEF Rooted, PoolTypeOK
    <3>2. p_next_version'[p_main[s]] = p_next_version[p_main[s]]
      BY <1>1, <2>1, <3>1 DEF PoolTypeOK
    <3>3. FreeCandidate(p_main[s])' = FreeCandidate(p_main[s])
      BY <1>1, <3>1, <3>2 DEF FreeCandidate
    <3>4. QED
      BY <1>1, <3>1, <3>3
  <2>8. QED
    BY <1>1, <2>7, NothingShows
<1>4. CASE ~(keep # NULL /\ p_next_version[keep] # NULL)
  <2>1. UNCHANGED <<p_main, blocks, held, hist, txvars>>
    BY <1>1, <1>2, <1>4 DEF Sever, blocks
  <2>2. QED
    BY <2>1, StoresNothing
<1>5. QED
  BY <1>3, <1>4

\* A held block that is a root is the root of its reference.
LEMMA HeldRoot ==
  ASSUME PoolInv, NEW u \in Txs, held[u] # NULL, NEW r \in Rooted, held[u].block = p_main[r]
  PROVE  held[u].ref = r
<1>1. ShapeInv /\ HeldInv(u) /\ held[u].ref \in Rooted
  BY InvShape, HeldFacts DEF PoolInv
<1>2. IsRoot(p_main[r]) /\ IsHead(p_main[r])
  BY DEF IsHead, IsRoot, Rooted
<1>3. held[u].block \notin Versions(held[u].ref) /\ ~IsLeftover(held[u].block)
  BY <1>1, <1>2, ChainsOfRefs DEF ChainOfRef, IsLeftover
<1>4. p_main[held[u].ref] = p_main[r]
  BY <1>1, <1>3 DEF HeldInv
<1>5. QED
  BY <1>1, <1>4 DEF ShapeInv, HeadsInv

\* Moving the one version left into the root shows nothing new: whoever holds the root sees
\* that version already.
LEMMA CopyUnseen ==
  ASSUME PoolInv, PoolInv', ShowInv, NEW t \in Txs, Copy(t)
  PROVE  ShowInv' /\ UNCHANGED Store!storevars
<1> USE NullIsNoBlock
<1>1. /\ ShapeInv /\ CollectInv(t) /\ PoolTypeOK /\ TxInv /\ call[t].op = "copy"
      /\ UNCHANGED <<p_main, m_ts, p_next_version, used, held, hist, txvars>>
  BY InvShape DEF PoolInv, CallInv, Copy
<1>2. CASE ~Collapsible(call[t].root, call[t].orv)
  <2>1. UNCHANGED <<p_main, blocks, held, hist, txvars>>
    BY <1>1, <1>2 DEF Copy, blocks
  <2>2. QED
    BY <2>1, StoresNothing
<1>3. CASE Collapsible(call[t].root, call[t].orv)
  <2>1. call[t].op \notin {"none", "walk"} /\ p_next_version[call[t].root] # NULL
    BY <1>1, <1>3 DEF Collapsible
  <2>2. PICK r \in Rooted : call[t].root = p_main[r]
    BY <2>1, CollectRoot
  <2>3. PICK root \in Blocks, y \in Blocks :
          /\ root = p_main[r] /\ y = p_next_version[root] /\ p_next_version[y] = NULL
          /\ m_ts[y] <= call[t].orv /\ r \in Refs
    BY <1>1, <1>3, <2>2 DEF Collapsible, Rooted, PoolTypeOK
  <2>4. Versions(r) = {y} /\ FreeCandidate(root) = y
    BY <1>1, <2>3, OneVersion
  <2>5. y # root /\ m_ts[y] \in Nat /\ call[t].orv \in Nat
    BY <1>1, <2>3, <2>4, ChainsOfRefs, CallFields DEF ChainOfRef, PoolTypeOK
  <2>6. p_data' = [p_data EXCEPT ![root] = p_data[y]]
    BY <1>3, <2>2, <2>3 DEF Copy
  <2>7. p_data'[root] = p_data[y] /\ \A b \in Blocks \ {root} : p_data'[b] = p_data[b]
    BY <1>1, <2>3, <2>6 DEF PoolTypeOK
  <2>8. ASSUME NEW s \in Rooted'
        PROVE  /\ p_main'[s] = p_main[s]
               /\ p_data'[FreeCandidate(p_main[s])'] = p_data[FreeCandidate(p_main[s])]
    <3>1. p_main'[s] = p_main[s] /\ s \in Rooted
      BY <1>1, <2>8 DEF Rooted
    <3>2. FreeCandidate(p_main[s])' = FreeCandidate(p_main[s])
      BY <1>1 DEF FreeCandidate
    <3>3. FreeCandidate(p_main[s]) # root /\ FreeCandidate(p_main[s]) \in Blocks
      <4>1. CASE s = r
        BY <2>3, <2>4, <2>5, <4>1
      <4>2. CASE s # r
        <5>1. root \in Chain(p_main[r]) /\ Chain(p_main[r]) \cap Chain(p_main[s]) = {}
          BY <1>1, <2>3, <3>1, <4>2, ChainsOfRefs, RefsApart DEF ChainOfRef
        <5>2. /\ FreeCandidate(p_main[s]) \in Chain(p_main[s])
              /\ FreeCandidate(p_main[s]) \in Blocks
          BY <1>1, <3>1, ChainsOfRefs DEF ChainOfRef, FreeCandidate
        <5>3. QED
          BY <5>1, <5>2
      <4>3. QED
        BY <4>1, <4>2
    <3>4. QED
      BY <2>7, <3>1, <3>2, <3>3
  <2>9. ASSUME NEW u \in Txs, held[u] # NULL, held[u].block = root
        PROVE  held[u].null \/ p_data[root] = p_data[y]
    <3>1. held[u].ref = r
      BY <2>3, <2>9, HeldRoot
    <3>2. Shown(u) = HistoryAt(r, m_txversion[u])
      BY <2>9, <3>1 DEF ShowInv
    <3>3. /\ m_txversion[u] \in LiveVersions /\ m_txversion[u] \in Nat /\ pc[u] = "running"
          /\ IsWriter(u) \/ ~FreedAt(r, m_txversion[u])
      BY <2>9, <3>1, HeldFacts
    <3>4. HistoryAt(r, m_txversion[u]) = p_data[y]
      <4>1. CASE IsWriter(u)
        <5>1. HistoryAt(r, m_txversion[u]) = Last(r).val
          BY <3>3, <4>1, WriterSeesLast DEF IsWriting
        <5>2. p_data[FreeCandidate(p_main[r])] = Last(r).val
          BY DEF ShowInv
        <5>3. QED
          BY <2>3, <2>4, <5>1, <5>2
      <4>2. CASE ~FreedAt(r, m_txversion[u])
        <5>1. call[t].orv <= m_txversion[u]
          BY <2>1, <2>2, <3>3, <4>2, CollectsSafely
        <5>2. m_ts[y] <= m_txversion[u]
          BY <2>3, <2>5, <3>3, <5>1
        <5>3. Seen(r, m_txversion[u], y)
          BY <2>4, <2>5, <5>2 DEF Seen
        <5>4. RootedInv(r)
          BY <2>3 DEF PoolInv, RefInv, Rooted
        <5>5. QED
          BY <3>3, <4>2, <5>3, <5>4 DEF RootedInv
      <4>3. QED
        BY <3>3, <4>1, <4>2
    <3>5. QED
      BY <2>9, <3>2, <3>4 DEF Shown
  <2>10. \A u \in Txs : held[u] # NULL =>
           /\ held[u].null \/ p_data'[held[u].block] = p_data[held[u].block]
           /\ m_ts'[held[u].block] = m_ts[held[u].block] \/ p_main[held[u].ref] = held[u].block
    BY <1>1, <2>7, <2>9, HeldFacts
  <2>11. QED
    BY <1>1, <2>8, <2>10, NothingShows
<1>4. QED
  BY <1>2, <1>3

\* Nor does taking the version out of the chain: the root shows the same.
LEMMA UnlinkUnseen ==
  ASSUME PoolInv, PoolInv', ShowInv, NEW t \in Txs, Unlink(t)
  PROVE  ShowInv' /\ UNCHANGED Store!storevars
<1> USE NullIsNoBlock
<1>1. /\ ShapeInv /\ CollectInv(t) /\ PoolTypeOK /\ TxInv /\ call[t].op = "unlink"
      /\ UNCHANGED <<p_main, p_data, used, held, hist, txvars>>
  BY InvShape DEF PoolInv, CallInv, Unlink
<1>2. /\ Collapsible(call[t].root, call[t].orv) /\ call[t].op \notin {"none", "walk"}
      /\ p_data[call[t].root] = p_data[p_next_version[call[t].root]]
  BY <1>1 DEF CollectInv
<1>3. PICK r \in Rooted : call[t].root = p_main[r]
  BY <1>2, CollectRoot DEF Collapsible
<1>4. PICK root \in Blocks, y \in Blocks :
        root = p_main[r] /\ y = p_next_version[root] /\ p_data[root] = p_data[y] /\ r \in Refs
  BY <1>1, <1>2, <1>3 DEF Collapsible, Rooted, PoolTypeOK
<1>5. /\ m_ts' = [m_ts EXCEPT ![root] = m_ts[y]]
      /\ p_next_version' = [p_next_version EXCEPT ![root] = NULL]
  BY <1>3, <1>4 DEF Unlink
<1>6. /\ \A b \in Blocks \ {root} : m_ts'[b] = m_ts[b] /\ p_next_version'[b] = p_next_version[b]
      /\ p_next_version'[root] = NULL
  BY <1>1, <1>4, <1>5 DEF PoolTypeOK
<1>7. ASSUME NEW s \in Rooted'
      PROVE  /\ p_main'[s] = p_main[s]
             /\ p_data'[FreeCandidate(p_main[s])'] = p_data[FreeCandidate(p_main[s])]
  <2>1. p_main'[s] = p_main[s] /\ s \in Rooted /\ p_main[s] \in Blocks
    BY <1>1, <1>7 DEF Rooted, PoolTypeOK
  <2>2. CASE s = r
    <3>1. FreeCandidate(p_main[s])' = root /\ FreeCandidate(p_main[s]) = y
      BY <1>1, <1>4, <1>6, <2>2 DEF FreeCandidate
    <3>2. QED
      BY <1>1, <1>4, <2>1, <3>1
  <2>3. CASE s # r
    <3>1. p_main[s] # root
      BY <1>1, <1>4, <2>1, <2>3 DEF ShapeInv, HeadsInv
    <3>2. FreeCandidate(p_main[s])' = FreeCandidate(p_main[s])
      BY <1>1, <1>6, <2>1, <3>1 DEF FreeCandidate
    <3>3. QED
      BY <1>1, <2>1, <3>2
  <2>4. QED
    BY <2>2, <2>3
<1>8. ASSUME NEW u \in Txs, held[u] # NULL
      PROVE  /\ held[u].null \/ p_data'[held[u].block] = p_data[held[u].block]
             /\ m_ts'[held[u].block] = m_ts[held[u].block] \/ p_main[held[u].ref] = held[u].block
  <2>1. CASE held[u].block = root
    BY <1>1, <1>4, <1>8, <2>1, HeldRoot
  <2>2. CASE held[u].block # root
    BY <1>1, <1>6, <1>8, <2>2, HeldFacts
  <2>3. QED
    BY <2>1, <2>2
<1>9. QED
  BY <1>1, <1>7, <1>8, NothingShows

\* A forced collection runs while nobody holds anything.
LEMMA ForceUnseen ==
  ASSUME PoolInv, PoolInv', ShowInv, NEW t \in Txs, CtxGcForce(t)
  PROVE  ShowInv' /\ UNCHANGED Store!storevars
<1>1. PICK S : S = ForceSet(t)
  OBVIOUS
<1>2. /\ UNCHANGED <<txvars, hist, held>> /\ Release(S)
      /\ p_main' = [r \in Refs |-> IF p_main[r] \in S THEN NULL ELSE p_main[r]]
  BY <1>1 DEF CtxGcForce
<1>3. \A r \in Refs : p_main'[r] \in {p_main[r], NULL}
  BY <1>2
<1>4. QED
  BY <1>2, <1>3, ReleasesUnseen

---------------------------------------------------------------------------
\* A pointer to a block with the value of the snapshot is what the store hands out.
LEMMA Handed ==
  ASSUME PoolInv, ShowInv, NEW t \in Txs, NEW r \in Refs, NEW b \in Blocks, Hold(t, r, b),
         pc[t] = "running", p_data[b] = HistoryAt(r, m_txversion[t]),
         ~IsWriter(t) /\ b # p_main[r] => m_ts[b] <= m_txversion[t],
         UNCHANGED <<p_main, blocks, hist, txvars>>
  PROVE  ShowInv' /\ Store!Get(t, r)
<1>1. /\ \A s \in Refs : \A v : HistoryAt(s, v)' = HistoryAt(s, v)
      /\ \A s \in Refs : Last(s)' = Last(s)
      /\ m_txversion' = m_txversion /\ pc' = pc /\ m_tx_type' = m_tx_type
      /\ m_last_write_committed_id' = m_last_write_committed_id
      /\ p_main' = p_main /\ m_ts' = m_ts /\ p_data' = p_data /\ p_next_version' = p_next_version
  BY SameHistory DEF txvars, blocks
<1>2. PICK h : h = [ref |-> r, block |-> b, null |-> p_data[b] = NULL]
  OBVIOUS
<1>3. /\ h.ref = r /\ h.block = b /\ (h.null <=> p_data[b] = NULL) /\ h # NULL
      /\ held' = [held EXCEPT ![t] = h] /\ held \in [Txs -> {NULL} \cup [ref : Refs, block : Blocks, null : BOOLEAN]]
  <2>1. PICK n \in BOOLEAN : n = (p_data[b] = NULL)
    OBVIOUS
  <2>2. h \in [ref : Refs, block : Blocks, null : BOOLEAN]
    BY <1>2, <2>1
  <2>3. h # NULL
    BY <2>2, PoolAssumption
  <2>4. QED
    BY <1>2, <2>3 DEF Hold, PoolInv, PoolTypeOK
<1>4. held'[t] = h /\ \A u \in Txs \ {t} : held'[u] = held[u]
  BY <1>3
<1>5. Shown(t)' = p_data[b] /\ \A u \in Txs \ {t} : Shown(u)' = Shown(u)
  BY <1>1, <1>3, <1>4 DEF Shown
<1>6. ShowInv'
  <2>1. \A s \in Rooted' : p_data'[FreeCandidate(p_main[s])'] = Last(s)'.val
    BY <1>1 DEF ShowInv, Rooted, FreeCandidate
  <2>2. ASSUME NEW u \in Txs, held'[u] # NULL
        PROVE  /\ Shown(u)' = HistoryAt(held[u].ref, m_txversion[u])'
               /\ (~IsWriter(u) /\ held[u].block # p_main[held[u].ref] => m_ts[held[u].block] <= m_txversion[u])'
    <3>1. CASE u = t
      <4>1. hist' = hist /\ held'[u].ref = r /\ m_txversion'[u] = m_txversion[t]
        BY <1>1, <1>3, <1>4, <3>1
      <4>2. HistoryAt(held[u].ref, m_txversion[u])' = HistoryAt(r, m_txversion[t])
        BY <4>1 DEF HistoryAt
      <4>3. QED
        BY <1>1, <1>3, <1>4, <1>5, <3>1, <4>2 DEF IsWriter
    <3>2. CASE u # t
      <4>1. held[u] # NULL /\ held'[u] = held[u] /\ Shown(u)' = Shown(u)
        BY <1>4, <1>5, <2>2, <3>2
      <4>2. HistoryAt(held[u].ref, m_txversion[u])' = HistoryAt(held[u].ref, m_txversion[u])
        BY <1>1, <4>1 DEF HistoryAt
      <4>3. QED
        BY <1>1, <4>1, <4>2 DEF IsWriter, ShowInv
    <3>3. QED
      BY <3>1, <3>2
  <2>3. QED
    BY <2>1, <2>2 DEF ShowInv
<1>7. StoreDb' = StoreDb /\ StoreMode' = StoreMode /\ StoreView' = StoreView
  BY <1>1 DEF StoreDb, StoreMode, StoreView, IsWriter
<1>8. StoreView[t][r] = HistoryAt(r, m_txversion[t]) /\ StoreMode[t] # "idle"
  BY DEF StoreView, StoreMode
<1>9. StoreOut' = [StoreOut EXCEPT ![t] = [ref |-> r, val |-> p_data[b]]]
  BY <1>3, <1>4, <1>5 DEF StoreOut
<1>10. Store!Get(t, r)
  BY <1>7, <1>8, <1>9 DEF Store!Get, Store!Result
<1>11. QED
  BY <1>6, <1>10

\* The walk of a reader ends at the value of its snapshot.
LEMMA ReaderGets ==
  ASSUME PoolInv, ShowInv, NEW t \in Txs, ReaderEnd(t)
  PROVE  ShowInv' /\ \E r \in Refs : Store!Get(t, r)
<1> USE NullIsNoBlock
<1>1. ShapeInv /\ PoolTypeOK /\ TxInv /\ WalkInv(t)
  BY InvShape DEF PoolInv, CallInv, ReaderEnd
<1>2. PICK r \in Rooted : r = call[t].ref
  BY <1>1 DEF WalkInv
<1>3. PICK a : a = call[t].at
  OBVIOUS
<1>4. PICK v : v = m_txversion[t]
  OBVIOUS
<1>5. /\ r \in Refs /\ pc[t] = "running" /\ ~IsWriter(t) /\ call[t].root = p_main[r]
      /\ ~FreedAt(r, v) /\ v \in LiveVersions /\ v \in Nat
      /\ p_main[r] \in Blocks /\ Versions(r) \subseteq Blocks /\ RootedInv(r)
  <2>1. pc[t] = "running" /\ ~IsWriter(t) /\ call[t].root = p_main[r] /\ ~FreedAt(r, v)
    BY <1>1, <1>2, <1>4 DEF WalkInv
  <2>2. v \in LiveVersions /\ v \in Nat
    BY <1>1, <1>4, <2>1, LiveNat DEF LiveVersions, Running
  <2>3. r \in Refs /\ RootedInv(r) /\ ChainOfRef(r)
    BY <1>1, ChainsOfRefs DEF Rooted, PoolInv, RefInv
  <2>4. QED
    BY <2>1, <2>2, <2>3 DEF ChainOfRef
<1>6. PICK b : b = IF a = NULL THEN p_main[r] ELSE a
  OBVIOUS
<1>7. Hold(t, r, b) /\ UNCHANGED <<p_main, blocks, hist, txvars>> /\ ~TooYoung(t, a)
  BY <1>2, <1>3, <1>5, <1>6 DEF ReaderEnd
<1>8. /\ b \in Blocks /\ p_data[b] = HistoryAt(r, v)
      /\ b # p_main[r] => m_ts[b] <= v
  <2>1. CASE a = NULL /\ \A x \in Versions(r) : m_ts[x] > v
    <3>1. Seen(r, v, b) /\ b \in Blocks
      BY <1>5, <1>6, <2>1 DEF Seen
    <3>2. QED
      BY <1>5, <1>6, <2>1, <3>1 DEF RootedInv
  <2>2. CASE /\ a \in Versions(r)
             /\ \A x \in Versions(r) : m_ts[x] <= v => m_ts[x] <= m_ts[a]
    <3>1. a \in Blocks /\ a # NULL /\ m_ts[a] \in Nat
      BY <1>1, <1>5, <2>2 DEF PoolTypeOK
    <3>2. b = a /\ m_ts[a] <= v
      BY <1>4, <1>5, <1>6, <1>7, <3>1 DEF TooYoung
    <3>3. Seen(r, v, b)
      BY <2>2, <3>2 DEF Seen
    <3>4. QED
      BY <1>5, <3>1, <3>2, <3>3 DEF RootedInv
  <2>3. CASE /\ IsLeftover(a) /\ m_ts[a] <= v
             /\ p_data[a] # NULL /\ p_data[a] = HistoryAt(r, v)
    <3>1. a \in Blocks
      BY <1>1, <2>3, SweepRoot DEF IsLeftover
    <3>2. QED
      BY <1>6, <2>3, <3>1
  <2>4. QED
    BY <1>1, <1>2, <1>3, <1>4, <2>1, <2>2, <2>3 DEF WalkInv
<1>9. QED
  BY <1>4, <1>5, <1>7, <1>8, Handed

\* A writer that reads finds the last store.
LEMMA WriterGets ==
  ASSUME PoolInv, ShowInv, NEW t \in Txs, WriterRead(t)
  PROVE  ShowInv' /\ \E r \in Refs : Store!Get(t, r)
<1>1. CollectInv(t) /\ call[t].then = "read"
  BY DEF PoolInv, CallInv, WriterRead
<1>2. WriterCall(t)
  BY <1>1 DEF CollectInv
<1>3. PICK r \in Rooted : r = call[t].ref
  BY <1>2 DEF WriterCall
<1>4. IsWriting(t) /\ call[t].root = p_main[r] /\ r \in Refs
  BY <1>2, <1>3 DEF WriterCall, Rooted
<1>5. PICK b \in Blocks : b = Visible(p_main[r], m_txversion[t]) /\ b = FreeCandidate(p_main[r])
  BY <1>4, WriterSeesTop
<1>6. Hold(t, r, b) /\ UNCHANGED <<p_main, blocks, hist, txvars>>
  BY <1>3, <1>4, <1>5 DEF WriterRead
<1>7. p_data[b] = HistoryAt(r, m_txversion[t])
  BY <1>4, <1>5, WriterSeesLast DEF ShowInv
<1>8. pc[t] = "running" /\ IsWriter(t)
  BY <1>4 DEF IsWriting
<1>9. QED
  BY <1>4, <1>6, <1>7, <1>8, Handed


---------------------------------------------------------------------------
\* A store of the running writer shows in its own view only.
LEMMA Recorded ==
  ASSUME PoolInv, NEW t \in Txs, IsWriting(t), NEW r \in Refs, NEW val \in Nat \cup {NULL},
         Record(r, m_txversion[t], val), UNCHANGED txvars
  PROVE  /\ \A s \in Refs \ {r} : Last(s)' = Last(s)
         /\ Last(r)'.val = val
         /\ HistoryAt(r, m_txversion[t])' = val
         /\ \A u \in Txs, s \in Refs : pc[u] = "running" /\ (u # t \/ s # r) =>
              HistoryAt(s, m_txversion[u])' = HistoryAt(s, m_txversion[u])
         /\ StoreDb' = StoreDb /\ StoreMode' = StoreMode
         /\ StoreView' = [StoreView EXCEPT ![t][r] = val]
         /\ StoreMode[t] = "writer"
         /\ \A u \in Txs \ {t} : pc[u] = "running" => ~IsWriter(u) /\ m_txversion[u] < m_txversion[t]
<1>1. PoolTypeOK /\ TxInv /\ HistInv /\ pc[t] = "running" /\ IsWriter(t)
  BY DEF PoolInv, IsWriting
<1>2. PICK v \in Nat : v = m_txversion[t]
  BY <1>1, WriterBounds
<1>3. \A i \in DOMAIN hist[r] : hist[r][i].ver <= v
  <2>1. /\ m_last_write_committed_id \in Nat /\ m_last_write_committed_id < v
        /\ \A x : InTime(x) => x <= m_last_write_committed_id \/ x = v
    BY <1>1, <1>2, WriterBounds
  <2>2. \A i \in DOMAIN hist[r] : hist[r][i].ver \in Nat
    BY <1>1, HistoryTypes
  <2>3. QED
    BY <1>1, <2>1, <2>2 DEF HistInv
<1>4. /\ \A s \in Refs \ {r} : hist'[s] = hist[s]
      /\ Last(r)'.val = val
      /\ \A x \in Nat : x < v => HistoryAt(r, x)' = HistoryAt(r, x)
      /\ \A x \in Nat : v <= x => HistoryAt(r, x)' = val
  BY <1>1, <1>2, <1>3, RecordHistory
<1>5. \A s \in Refs \ {r} : Last(s)' = Last(s) /\ \A x : HistoryAt(s, x)' = HistoryAt(s, x)
  BY <1>4, SameHistory
<1>6. /\ m_txversion' = m_txversion /\ pc' = pc /\ m_tx_type' = m_tx_type
      /\ m_last_write_committed_id' = m_last_write_committed_id
  BY DEF txvars
<1>7. \A u \in Txs \ {t} : pc[u] = "running" => ~IsWriter(u) /\ m_txversion[u] \in Nat /\ m_txversion[u] < v
  <2> SUFFICES ASSUME NEW u \in Txs \ {t}, pc[u] = "running"
               PROVE  ~IsWriter(u) /\ m_txversion[u] \in Nat /\ m_txversion[u] < v
    OBVIOUS
  <2>1. ~IsWriter(u)
    BY <1>1, OneWriter DEF IsWriting
  <2>2. m_txversion[u] \in Nat /\ m_txversion[u] <= m_last_write_committed_id
    BY <1>1, <2>1 DEF TxInv, TypeOK, SnapshotIsCommitted, Running
  <2>3. m_last_write_committed_id \in Nat /\ m_last_write_committed_id < v
    BY <1>1, <1>2, WriterBounds
  <2>4. QED
    BY <2>1, <2>2, <2>3
<1>8. HistoryAt(r, m_txversion[t])' = val
  <2>1. HistoryAt(r, m_txversion[t])' = HistoryAt(r, v)'
    BY <1>2, <1>6 DEF HistoryAt
  <2>2. v <= v
    OBVIOUS
  <2>3. QED
    BY <1>4, <2>1, <2>2
<1>9. ASSUME NEW u \in Txs, NEW s \in Refs, pc[u] = "running", u # t \/ s # r
      PROVE  HistoryAt(s, m_txversion[u])' = HistoryAt(s, m_txversion[u])
  <2>1. PICK x : x = m_txversion[u]
    OBVIOUS
  <2>2. HistoryAt(s, m_txversion[u])' = HistoryAt(s, x)'
    BY <1>6, <2>1 DEF HistoryAt
  <2>3. s = r => x \in Nat /\ x < v
    BY <1>7, <1>9, <2>1
  <2>4. HistoryAt(s, x)' = HistoryAt(s, x)
    BY <1>4, <1>5, <2>3
  <2>5. QED
    BY <2>1, <2>2, <2>4
<1>10. StoreDb' = StoreDb
  <2>1. PICK x \in Nat : x = m_last_write_committed_id /\ x < v
    BY <1>1, <1>2, WriterBounds
  <2>2. \A s \in Refs : HistoryAt(s, m_last_write_committed_id)' = HistoryAt(s, x)'
    BY <1>6, <2>1 DEF HistoryAt
  <2>3. \A s \in Refs : HistoryAt(s, x)' = HistoryAt(s, x)
    BY <1>4, <1>5, <2>1
  <2>4. QED
    BY <2>1, <2>2, <2>3 DEF StoreDb
<1>11. StoreMode' = StoreMode /\ StoreMode[t] = "writer"
  BY <1>1, <1>6 DEF StoreMode, IsWriter
<1>12. StoreView' = [StoreView EXCEPT ![t][r] = val]
  <2>1. \A u \in Txs, s \in Refs :
          (IF pc[u] # "running" THEN NULL ELSE HistoryAt(s, m_txversion[u]))'
            = IF u = t /\ s = r THEN val ELSE IF pc[u] # "running" THEN NULL ELSE HistoryAt(s, m_txversion[u])
    BY <1>1, <1>6, <1>8, <1>9
  <2>2. QED
    BY <2>1 DEF StoreView
<1>13. QED
  BY <1>2, <1>4, <1>5, <1>7, <1>8, <1>9, <1>10, <1>11, <1>12

\* What other references show stays, and what readers hold is not the block that is written.
LEMMA StoredElsewhere ==
  ASSUME PoolInv, NEW t \in Txs, IsWriting(t), NEW r \in Rooted, NEW val, NEW top,
         Stored(t, r, top, val), p_main' = p_main
  PROVE  /\ \A b \in used : b = top => m_ts[b] = m_txversion[t]
         /\ ~IsRoot(top)
         /\ \A s \in Rooted \ {r} : /\ FreeCandidate(p_main[s])' = FreeCandidate(p_main[s])
                                    /\ p_data'[FreeCandidate(p_main[s])] = p_data[FreeCandidate(p_main[s])]
<1> USE NullIsNoBlock
<1>1. ShapeInv /\ PoolTypeOK /\ HeadsInv /\ LinksInv /\ ChainOfRef(r)
  BY InvShape, ChainsOfRefs DEF PoolInv
<1>2. /\ \A b \in used : b = top => m_ts[b] = m_txversion[t]
      /\ ~IsRoot(top)
      /\ \A s \in Rooted \ {r} : top \notin Chain(p_main[s])
  <2>1. CASE top \in FreeBlocks
    <3>1. top \notin used
      BY <2>1 DEF FreeBlocks
    <3>2. ~IsRoot(top)
      BY <1>1, <2>1, <3>1 DEF FreeBlocks, HeadsInv, IsHead
    <3>3. \A s \in Rooted : top \notin Chain(p_main[s])
      BY <1>1, <3>1, ChainsOfRefs DEF ChainOfRef
    <3>4. QED
      BY <3>1, <3>2, <3>3
  <2>2. CASE top = p_next_version[p_main[r]] /\ m_ts[top] = m_txversion[t]
    <3>1. top \in Blocks /\ top # NULL /\ top \in Versions(r) /\ ~IsHead(top)
      BY <1>1, <2>2 DEF Stored, ChainOfRef
    <3>2. ~IsRoot(top) /\ top \in Chain(p_main[r])
      BY <1>1, <3>1 DEF IsHead, ChainOfRef
    <3>3. QED
      BY <1>1, <2>2, <3>2, RefsApart
  <2>3. QED
    BY <2>1, <2>2 DEF Stored
<1>3. ASSUME NEW s \in Rooted \ {r}
      PROVE  /\ FreeCandidate(p_main[s])' = FreeCandidate(p_main[s])
             /\ p_data'[FreeCandidate(p_main[s])] = p_data[FreeCandidate(p_main[s])]
  <2>1. p_main[s] \in Blocks /\ p_main[s] # p_main[r] /\ p_main[s] # top
    BY <1>1, <1>2 DEF Rooted, PoolTypeOK, HeadsInv, IsRoot
  <2>2. p_next_version'[p_main[s]] = p_next_version[p_main[s]]
    BY <2>1 DEF Stored
  <2>3. FreeCandidate(p_main[s])' = FreeCandidate(p_main[s])
    BY <2>2 DEF FreeCandidate
  <2>4. FreeCandidate(p_main[s]) \in Chain(p_main[s]) /\ FreeCandidate(p_main[s]) \in Blocks
    BY <1>1, ChainsOfRefs DEF ChainOfRef, FreeCandidate
  <2>5. QED
    BY <1>2, <2>3, <2>4 DEF Stored
<1>4. QED
  BY <1>2, <1>3

\* A store through the top of a chain is a write of the store.
LEMMA Puts ==
  ASSUME PoolInv, PoolInv', ShowInv, NEW t \in Txs, IsWriting(t), NEW r \in Rooted,
         NEW val \in Nat \cup {NULL}, NEW top \in Blocks,
         Stored(t, r, top, val), Record(r, m_txversion[t], val),
         NEW h \in {NULL, [ref |-> r, block |-> top, null |-> FALSE]},
         held' = [held EXCEPT ![t] = h], UNCHANGED <<p_main, txvars>>
  PROVE  ShowInv' /\ Store!Put(t, r, val)
<1> USE NullIsNoBlock
<1>1. /\ PoolTypeOK /\ ShapeInv /\ ShapeInv' /\ r \in Refs
      /\ p_main' = p_main /\ m_txversion' = m_txversion /\ m_tx_type' = m_tx_type /\ pc' = pc
  <2>1. (PoolInv => ShapeInv)'
    BY InvShape, PTL
  <2>2. QED
    BY <2>1, InvShape DEF PoolInv, Rooted, txvars
<1>2. /\ \A s \in Refs \ {r} : Last(s)' = Last(s)
      /\ Last(r)'.val = val
      /\ HistoryAt(r, m_txversion[t])' = val
      /\ \A u \in Txs, s \in Refs : pc[u] = "running" /\ (u # t \/ s # r) =>
           HistoryAt(s, m_txversion[u])' = HistoryAt(s, m_txversion[u])
      /\ StoreDb' = StoreDb /\ StoreMode' = StoreMode
      /\ StoreView' = [StoreView EXCEPT ![t][r] = val]
      /\ StoreMode[t] = "writer"
      /\ \A u \in Txs \ {t} : pc[u] = "running" => ~IsWriter(u) /\ m_txversion[u] < m_txversion[t]
  BY <1>1, Recorded
<1>3. /\ \A b \in used : b = top => m_ts[b] = m_txversion[t]
      /\ ~IsRoot(top)
      /\ \A s \in Rooted \ {r} : /\ FreeCandidate(p_main[s])' = FreeCandidate(p_main[s])
                                 /\ p_data'[FreeCandidate(p_main[s])] = p_data[FreeCandidate(p_main[s])]
  BY <1>1, StoredElsewhere
<1>4. /\ \A b \in Blocks \ {top} : m_ts'[b] = m_ts[b] /\ p_data'[b] = p_data[b]
      /\ p_data'[top] = val
  BY DEF Stored
<1>5. ASSUME NEW s \in Rooted' PROVE p_data'[FreeCandidate(p_main[s])'] = Last(s)'.val
  <2>1. s \in Rooted
    BY <1>1, <1>5 DEF Rooted
  <2>2. CASE s = r
    <3>1. FreeCandidate(p_main[r])' = top
      BY <1>1, StoreVersions
    <3>2. QED
      BY <1>2, <1>4, <2>2, <3>1
  <2>3. CASE s # r
    <3>1. s \in Refs /\ p_data[FreeCandidate(p_main[s])] = Last(s).val
      BY <2>1 DEF ShowInv, Rooted
    <3>2. QED
      BY <1>2, <1>3, <2>1, <2>3, <3>1
  <2>4. QED
    BY <2>2, <2>3
<1>6. held'[t] = h /\ \A u \in Txs \ {t} : held'[u] = held[u]
  BY <1>1 DEF PoolTypeOK
<1>7. ASSUME NEW u \in Txs \ {t}, held[u] # NULL
      PROVE  /\ Shown(u)' = Shown(u) /\ Shown(u) = HistoryAt(held[u].ref, m_txversion[u])
             /\ HistoryAt(held[u].ref, m_txversion[u])' = HistoryAt(held[u].ref, m_txversion[u])
             /\ held[u].block # p_main[held[u].ref] => m_ts'[held[u].block] <= m_txversion[u]
  <2>1. /\ held[u].ref \in Rooted /\ held[u].ref \in Refs
        /\ held[u].block \in Blocks /\ held[u].block \in used
        /\ pc[u] = "running" /\ m_txversion[u] \in Nat
    BY <1>7, HeldFacts
  <2>2. /\ Shown(u) = HistoryAt(held[u].ref, m_txversion[u])
        /\ ~IsWriter(u) /\ held[u].block # p_main[held[u].ref] => m_ts[held[u].block] <= m_txversion[u]
    BY <1>7 DEF ShowInv
  <2>3. ~IsWriter(u) /\ m_txversion[u] < m_txversion[t] /\ m_txversion[t] \in Nat
    BY <1>2, <2>1, WriterBounds DEF PoolInv
  <2>4. held[u].block # top
    <3> SUFFICES ASSUME held[u].block = top PROVE FALSE
      OBVIOUS
    <3>1. m_ts[held[u].block] = m_txversion[t] /\ held[u].block # p_main[held[u].ref]
      BY <1>3, <2>1 DEF IsRoot
    <3>2. QED
      BY <2>1, <2>2, <2>3, <3>1
  <2>5. Shown(u)' = Shown(u)
    BY <1>4, <1>6, <2>1, <2>4 DEF Shown
  <2>6. PICK s \in Refs : s = held[u].ref
    BY <2>1
  <2>7. HistoryAt(held[u].ref, m_txversion[u])' = HistoryAt(s, m_txversion[u])'
    BY <1>1, <1>6, <2>6 DEF HistoryAt
  <2>8. HistoryAt(s, m_txversion[u])' = HistoryAt(s, m_txversion[u])
    BY <1>2, <2>1
  <2>9. QED
    BY <1>4, <2>1, <2>2, <2>3, <2>4, <2>5, <2>6, <2>7, <2>8
<1>8. h # NULL => h = [ref |-> r, block |-> top, null |-> FALSE] /\ Shown(t)' = val
  BY <1>4, <1>6 DEF Shown
<1>9. ShowInv'
  <2>1. ASSUME NEW u \in Txs, held'[u] # NULL
        PROVE  /\ Shown(u)' = HistoryAt(held[u].ref, m_txversion[u])'
               /\ (~IsWriter(u) /\ held[u].block # p_main[held[u].ref] => m_ts[held[u].block] <= m_txversion[u])'
    <3>1. CASE u = t
      <4>1. held'[t].ref = r /\ Shown(t)' = val /\ IsWriter(t)'
        BY <1>1, <1>6, <1>8, <2>1, <3>1 DEF IsWriting, IsWriter
      <4>2. PICK s, v : s = held'[t].ref /\ v = m_txversion'[t]
        OBVIOUS
      <4>3. HistoryAt(held[t].ref, m_txversion[t])' = HistoryAt(s, v)'
        BY <4>2 DEF HistoryAt
      <4>4. HistoryAt(r, m_txversion[t])' = HistoryAt(r, v)'
        BY <4>2 DEF HistoryAt
      <4>5. QED
        BY <1>2, <3>1, <4>1, <4>2, <4>3, <4>4
    <3>2. CASE u # t
      <4>1. u \in Txs \ {t} /\ held'[u] = held[u] /\ held[u] # NULL
        BY <1>6, <2>1, <3>2
      <4>2. Shown(u)' = HistoryAt(held[u].ref, m_txversion[u])'
        BY <1>7, <4>1
      <4>3. held'[u].block # p_main'[held'[u].ref] => m_ts'[held'[u].block] <= m_txversion'[u]
        BY <1>1, <1>7, <4>1
      <4>4. QED
        BY <4>2, <4>3
    <3>3. QED
      BY <3>1, <3>2
  <2>2. QED
    BY <1>5, <2>1 DEF ShowInv
<1>10. StoreOut' \in {[StoreOut EXCEPT ![t] = NULL], [StoreOut EXCEPT ![t] = [ref |-> r, val |-> val]]}
  <2>1. \A u \in Txs \ {t} :
          (IF held[u] = NULL THEN NULL ELSE [ref |-> held[u].ref, val |-> Shown(u)])'
            = IF held[u] = NULL THEN NULL ELSE [ref |-> held[u].ref, val |-> Shown(u)]
    BY <1>6, <1>7
  <2>2. CASE h = NULL
    BY <1>6, <2>1, <2>2 DEF StoreOut
  <2>3. CASE h # NULL
    <3>1. held'[t] # NULL /\ held'[t].ref = r /\ Shown(t)' = val
      BY <1>6, <1>8, <2>3
    <3>2. StoreOut' = [StoreOut EXCEPT ![t] = [ref |-> r, val |-> val]]
      BY <2>1, <3>1 DEF StoreOut
    <3>3. QED
      BY <3>2
  <2>4. QED
    BY <2>2, <2>3
<1>11. Store!Put(t, r, val)
  BY <1>2, <1>10 DEF Store!Put, Store!Result
<1>12. QED
  BY <1>9, <1>11

\* A write and a freeing.
LEMMA WriterPuts ==
  ASSUME PoolInv, PoolInv', ShowInv, NEW t \in Txs, WriterWrite(t)
  PROVE  ShowInv' /\ \E r \in Refs : Store!Put(t, r, m_id[t])
<1>1. PICK r \in Rooted, b \in Blocks :
        /\ IsWriting(t) /\ r = call[t].ref /\ call[t].op = "ptr" /\ call[t].then = "write"
        /\ Stored(t, r, b, m_id[t])
        /\ Record(r, m_txversion[t], m_id[t])
        /\ held' = [held EXCEPT ![t] = [ref |-> r, block |-> b, null |-> FALSE]]
        /\ call' = [call EXCEPT ![t] = NoCall]
        /\ UNCHANGED <<p_main, garbage, txvars>>
  BY WriterStores
<1>2. PICK val \in Nat \cup {NULL} : val = m_id[t]
  BY DEF PoolInv, TxInv, TypeOK
<1>3. PICK h : h = [ref |-> r, block |-> b, null |-> FALSE]
  OBVIOUS
<1>4. held' = [held EXCEPT ![t] = h] /\ h \in {NULL, [ref |-> r, block |-> b, null |-> FALSE]}
  BY <1>1, <1>3
<1>5. /\ IsWriting(t) /\ UNCHANGED <<p_main, txvars>> /\ r \in Refs
      /\ Stored(t, r, b, val) /\ Record(r, m_txversion[t], val)
  BY <1>1, <1>2 DEF Rooted
<1>6. ShowInv' /\ Store!Put(t, r, val)
  BY <1>4, <1>5, Puts
<1>7. QED
  BY <1>2, <1>5, <1>6

\* A free is a store of nothing: those who begin after its commit find the reference absent.
LEMMA FreePuts ==
  ASSUME PoolInv, PoolInv', ShowInv, NEW t \in Txs, FreeEnd(t)
  PROVE  ShowInv' /\ \E r \in Refs : Store!Put(t, r, NULL)
<1>1. PICK r \in Rooted, top \in Blocks :
        /\ IsWriting(t) /\ r = call[t].ref /\ call[t].op = "free" /\ call[t].then = "free"
        /\ Stored(t, r, top, NULL) /\ p_data[p_main[r]] # NULL
        /\ Record(r, m_txversion[t], NULL)
        /\ garbage' = [garbage EXCEPT ![t] = <<p_main[r]>> \o @]
        /\ held' = [held EXCEPT ![t] = NULL]
        /\ call' = [call EXCEPT ![t] = NoCall]
        /\ UNCHANGED <<p_main, txvars>>
  BY FreeStores
<1>2. PICK val \in Nat \cup {NULL} : val = NULL
  OBVIOUS
<1>3. PICK h : h = NULL
  OBVIOUS
<1>4. held' = [held EXCEPT ![t] = h] /\ h \in {NULL, [ref |-> r, block |-> top, null |-> FALSE]}
  BY <1>1, <1>3
<1>5. /\ IsWriting(t) /\ UNCHANGED <<p_main, txvars>> /\ r \in Refs
      /\ Stored(t, r, top, val) /\ Record(r, m_txversion[t], val)
  BY <1>1, <1>2 DEF Rooted
<1>6. ShowInv' /\ Store!Put(t, r, val)
  BY <1>4, <1>5, Puts
<1>7. QED
  BY <1>2, <1>5, <1>6

\* An allocation is a write to a reference nobody has a pointer to.
LEMMA AllocPuts ==
  ASSUME PoolInv, PoolInv', ShowInv, NEW t \in Txs, NEW r \in Refs, Alloc(t, r)
  PROVE  ShowInv' /\ Store!Put(t, r, 0)
<1> USE NullIsNoBlock
<1>1. PICK root, new : Allocated(t, r, root, new) /\ Record(r, m_txversion[t], 0)
  BY AllocStores
<1>2. PICK val \in Nat \cup {NULL} : val = 0
  OBVIOUS
<1>3. /\ PoolTypeOK /\ PoolTypeOK' /\ LinksInv /\ HeadsInv /\ ShapeInv /\ IsWriting(t) /\ UNCHANGED txvars
      /\ root \in Blocks /\ new \in Blocks /\ root \notin used /\ new \notin used /\ root # new
      /\ p_main[r] = NULL /\ p_main'[r] = root /\ \A s \in Refs \ {r} : p_main'[s] = p_main[s]
      /\ held' = held /\ Record(r, m_txversion[t], val)
      /\ m_txversion' = m_txversion /\ m_tx_type' = m_tx_type
  BY <1>1, <1>2, InvShape DEF Allocated, PoolInv, PoolTypeOK, FreeBlocks, txvars
<1>4. /\ \A b \in Blocks : b # root /\ b # new =>
           m_ts'[b] = m_ts[b] /\ p_data'[b] = p_data[b] /\ p_next_version'[b] = p_next_version[b]
      /\ p_data'[new] = 0 /\ p_next_version'[root] = new
  BY <1>1, <1>3 DEF Allocated, PoolTypeOK
<1>5. /\ \A s \in Refs \ {r} : Last(s)' = Last(s)
      /\ Last(r)'.val = 0
      /\ \A u \in Txs, s \in Refs : pc[u] = "running" /\ (u # t \/ s # r) =>
           HistoryAt(s, m_txversion[u])' = HistoryAt(s, m_txversion[u])
      /\ StoreDb' = StoreDb /\ StoreMode' = StoreMode
      /\ StoreView' = [StoreView EXCEPT ![t][r] = 0]
      /\ StoreMode[t] = "writer"
  BY <1>2, <1>3, Recorded
<1>6. ASSUME NEW s \in Rooted' PROVE p_data'[FreeCandidate(p_main[s])'] = Last(s)'.val
  <2>1. CASE s = r
    <3>1. FreeCandidate(p_main[s])' = new
      BY <1>3, <1>4, <2>1 DEF FreeCandidate
    <3>2. QED
      BY <1>4, <1>5, <2>1, <3>1
  <2>2. CASE s # r
    <3>1. s \in Rooted /\ s \in Refs \ {r} /\ p_main'[s] = p_main[s]
      BY <1>3, <1>6, <2>2 DEF Rooted
    <3>2. p_main[s] \in Blocks /\ p_main[s] \in used
      BY <1>3, <3>1, ChainsOfRefs DEF ChainOfRef
    <3>3. p_next_version'[p_main[s]] = p_next_version[p_main[s]]
      BY <1>3, <1>4, <3>2
    <3>4. FreeCandidate(p_main[s])' = FreeCandidate(p_main[s])
      BY <3>1, <3>3 DEF FreeCandidate
    <3>5. FreeCandidate(p_main[s]) \in used
      BY <1>3, <3>2 DEF FreeCandidate, LinksInv
    <3>6. p_data'[FreeCandidate(p_main[s])] = p_data[FreeCandidate(p_main[s])]
      BY <1>3, <1>4, <3>5 DEF PoolTypeOK
    <3>7. QED
      BY <1>5, <3>1, <3>4, <3>6 DEF ShowInv
  <2>3. QED
    BY <2>1, <2>2
<1>7. ASSUME NEW u \in Txs, held[u] # NULL
      PROVE  /\ Shown(u)' = Shown(u)
             /\ Shown(u)' = HistoryAt(held[u].ref, m_txversion[u])'
             /\ (~IsWriter(u) /\ held[u].block # p_main[held[u].ref] => m_ts[held[u].block] <= m_txversion[u])'
  <2>1. /\ held[u].ref \in Refs /\ held[u].block \in Blocks /\ held[u].block \in used
        /\ pc[u] = "running"
    BY <1>7, HeldFacts
  <2>2. held[u].ref # r
    BY <1>3, <1>7, UnusedRef
  <2>3. p_data'[held[u].block] = p_data[held[u].block] /\ m_ts'[held[u].block] = m_ts[held[u].block]
    BY <1>3, <1>4, <2>1
  <2>4. Shown(u)' = Shown(u)
    BY <1>3, <2>3 DEF Shown
  <2>5. PICK s \in Refs : s = held[u].ref
    BY <2>1
  <2>6. HistoryAt(held[u].ref, m_txversion[u])' = HistoryAt(s, m_txversion[u])'
    BY <1>3, <2>5 DEF HistoryAt
  <2>7. HistoryAt(s, m_txversion[u])' = HistoryAt(s, m_txversion[u])
    BY <1>5, <2>1, <2>2, <2>5
  <2>8. /\ Shown(u) = HistoryAt(held[u].ref, m_txversion[u])
        /\ ~IsWriter(u) /\ held[u].block # p_main[held[u].ref] => m_ts[held[u].block] <= m_txversion[u]
    BY <1>7 DEF ShowInv
  <2>9. (~IsWriter(u) /\ held[u].block # p_main[held[u].ref] => m_ts[held[u].block] <= m_txversion[u])'
    BY <1>3, <2>1, <2>2, <2>3, <2>8 DEF IsWriter
  <2>10. QED
    BY <2>4, <2>5, <2>6, <2>7, <2>8, <2>9
<1>8. ShowInv'
  <2>1. \A u \in Txs : held'[u] # NULL =>
          /\ Shown(u)' = HistoryAt(held[u].ref, m_txversion[u])'
          /\ (~IsWriter(u) /\ held[u].block # p_main[held[u].ref] => m_ts[held[u].block] <= m_txversion[u])'
    BY <1>3, <1>7
  <2>2. QED
    BY <1>6, <2>1 DEF ShowInv
<1>9. StoreOut' = StoreOut
  BY <1>3, <1>7 DEF StoreOut
<1>10. QED
  BY <1>5, <1>8, <1>9 DEF Store!Put

---------------------------------------------------------------------------
\* What nobody but t may notice when t begins, commits or waits.
LEMMA ManagerShows ==
  ASSUME PoolInv, PoolInv', ShowInv, UNCHANGED <<p_main, blocks, hist>>, NEW t \in Txs,
         held' = [held EXCEPT ![t] = NULL],
         \A u \in Txs \ {t} : pc'[u] = pc[u] /\ m_txversion'[u] = m_txversion[u] /\ m_tx_type'[u] = m_tx_type[u]
  PROVE  /\ ShowInv'
         /\ StoreOut' = [StoreOut EXCEPT ![t] = NULL]
         /\ \A u \in Txs \ {t} : StoreMode'[u] = StoreMode[u] /\ StoreView'[u] = StoreView[u]
<1>1. /\ \A s \in Refs : \A v : HistoryAt(s, v)' = HistoryAt(s, v)
      /\ \A s \in Refs : Last(s)' = Last(s)
      /\ p_main' = p_main /\ m_ts' = m_ts /\ p_data' = p_data /\ p_next_version' = p_next_version
  BY SameHistory DEF blocks
<1>2. held'[t] = NULL /\ \A u \in Txs \ {t} : held'[u] = held[u]
  BY DEF PoolInv, PoolTypeOK
<1>3. \A s \in Rooted' : p_data'[FreeCandidate(p_main[s])'] = Last(s)'.val
  BY <1>1 DEF ShowInv, Rooted, FreeCandidate
<1>4. ASSUME NEW u \in Txs \ {t}, held[u] # NULL
      PROVE  /\ Shown(u)' = Shown(u)
             /\ Shown(u)' = HistoryAt(held[u].ref, m_txversion[u])'
             /\ (~IsWriter(u) /\ held[u].block # p_main[held[u].ref] => m_ts[held[u].block] <= m_txversion[u])'
  <2>1. Shown(u)' = Shown(u)
    BY <1>1, <1>2 DEF Shown
  <2>2. PICK s, v : /\ s = held[u].ref /\ v = m_txversion[u] /\ s \in Refs
                    /\ s = held'[u].ref /\ v = m_txversion'[u]
    BY <1>2, <1>4, HeldFacts
  <2>3. HistoryAt(held[u].ref, m_txversion[u])' = HistoryAt(s, v)'
    BY <2>2 DEF HistoryAt
  <2>4. QED
    BY <1>1, <1>2, <1>4, <2>1, <2>2, <2>3 DEF ShowInv, IsWriter
<1>5. ShowInv'
  <2>1. \A u \in Txs : held'[u] # NULL =>
          /\ Shown(u)' = HistoryAt(held[u].ref, m_txversion[u])'
          /\ (~IsWriter(u) /\ held[u].block # p_main[held[u].ref] => m_ts[held[u].block] <= m_txversion[u])'
    BY <1>2, <1>4
  <2>2. QED
    BY <1>3, <2>1 DEF ShowInv
<1>6. StoreOut' = [StoreOut EXCEPT ![t] = NULL]
  BY <1>2, <1>4 DEF StoreOut
<1>7. ASSUME NEW u \in Txs \ {t} PROVE StoreMode'[u] = StoreMode[u] /\ StoreView'[u] = StoreView[u]
  <2>1. \A s \in Refs : HistoryAt(s, m_txversion[u])' = HistoryAt(s, m_txversion[u])
    BY DEF HistoryAt
  <2>2. QED
    BY <2>1 DEF StoreMode, StoreView, IsWriter
<1>8. QED
  BY <1>5, <1>6, <1>7

\* A thread that runs nothing holds nothing.
LEMMA OutsideHolds ==
  ASSUME PoolInv, NEW t \in Txs, pc[t] # "running"
  PROVE  /\ held[t] = NULL /\ held = [held EXCEPT ![t] = NULL]
         /\ StoreOut = [StoreOut EXCEPT ![t] = NULL]
         /\ StoreMode[t] = "idle" /\ StoreView[t] = [r \in Refs |-> NULL]
<1>1. held[t] = NULL
  BY NothingHeld
<1>2. held = [held EXCEPT ![t] = NULL]
  BY <1>1 DEF PoolInv, PoolTypeOK
<1>3. QED
  BY <1>1, <1>2 DEF StoreOut, StoreMode, StoreView

\* A reader begins with the committed state, and so does a writer.
LEMMA Begins ==
  ASSUME PoolInv, PoolInv', ShowInv, NEW t \in Txs, NEW type \in TxType, Enter(t, type),
         pc[t] = IF type = "E_READ_WRITE" THEN "begin" ELSE "idle", UNCHANGED poolvars
  PROVE  ShowInv' /\ Store!Begin(t, IF type = "E_READ_WRITE" THEN "writer" ELSE "reader")
<1>1. /\ PoolTypeOK /\ TxInv /\ HistInv /\ pc[t] # "running"
      /\ UNCHANGED <<p_main, blocks, hist>> /\ held' = held
  BY DEF PoolInv, poolvars
<1>2. /\ \A u \in Txs \ {t} : pc'[u] = pc[u] /\ m_txversion'[u] = m_txversion[u] /\ m_tx_type'[u] = m_tx_type[u]
      /\ pc'[t] = "running" /\ m_tx_type'[t] = type
      /\ m_txversion'[t] = SnapshotVersion(type)
      /\ m_last_write_committed_id' = m_last_write_committed_id
  BY <1>1 DEF Enter, TxInv, TypeOK
<1>3. /\ held' = [held EXCEPT ![t] = NULL] /\ StoreOut = [StoreOut EXCEPT ![t] = NULL]
      /\ StoreMode[t] = "idle"
  BY <1>1, OutsideHolds
<1>4. /\ ShowInv'
      /\ StoreOut' = StoreOut
      /\ \A u \in Txs \ {t} : StoreMode'[u] = StoreMode[u] /\ StoreView'[u] = StoreView[u]
  BY <1>1, <1>2, <1>3, ManagerShows
<1>5. type = "E_READ_WRITE" => \A u \in Txs : ~IsWriting(u)
  <2> SUFFICES ASSUME type = "E_READ_WRITE", NEW u \in Txs, IsWriting(u) PROVE FALSE
    OBVIOUS
  <2>1. pc[t] = "begin"
    OBVIOUS
  <2>2. m_write_running = t /\ m_write_running = u
    BY <1>1, <2>1 DEF TxInv, WriterExclusion, IsWriting
  <2>3. QED
    BY <2>1, <2>2 DEF IsWriting
<1>6. ASSUME NEW r \in Refs
      PROVE  HistoryAt(r, m_txversion[t])' = HistoryAt(r, m_last_write_committed_id)
  <2>1. CASE type # "E_READ_WRITE"
    <3>1. m_txversion'[t] = m_last_write_committed_id
      BY <1>2, <2>1 DEF SnapshotVersion
    <3>2. QED
      BY <3>1, <1>1 DEF HistoryAt
  <2>2. CASE type = "E_READ_WRITE"
    <3>1. m_txversion'[t] = m_next_id
      BY <1>2, <2>2 DEF SnapshotVersion
    <3>2. m_last_write_committed_id \in Nat /\ m_next_id \in Nat /\ m_last_write_committed_id < m_next_id
      BY <1>1 DEF TxInv, TypeOK, IdOrder
    <3>3. \A i \in DOMAIN hist[r] : hist[r][i].ver \in Nat /\ hist[r][i].ver <= m_last_write_committed_id
      BY <1>1, <1>5, <2>2, HistoryTypes DEF HistInv, InTime
    <3>4. {i \in DOMAIN hist[r] : hist[r][i].ver <= m_next_id}
            = {i \in DOMAIN hist[r] : hist[r][i].ver <= m_last_write_committed_id}
      BY <3>2, <3>3
    <3>5. HistoryAt(r, m_next_id) = HistoryAt(r, m_last_write_committed_id)
      BY <3>4 DEF HistoryAt
    <3>6. HistoryAt(r, m_txversion[t])' = HistoryAt(r, m_next_id)
      BY <1>1, <3>1 DEF HistoryAt
    <3>7. QED
      BY <3>5, <3>6
  <2>3. QED
    BY <2>1, <2>2
<1>7. StoreDb' = StoreDb
  BY <1>1, <1>2 DEF StoreDb, HistoryAt
<1>8. StoreView' = [StoreView EXCEPT ![t] = StoreDb]
  <2>1. StoreView'[t] = StoreDb
    BY <1>2, <1>6 DEF StoreView, StoreDb
  <2>2. /\ StoreView = [u \in Txs |-> StoreView[u]]
        /\ StoreView' = [u \in Txs |-> StoreView'[u]]
    BY Zenon DEF StoreView
  <2>3. QED
    BY <1>4, <2>1, <2>2, Zenon
<1>9. StoreMode' = [StoreMode EXCEPT ![t] = IF type = "E_READ_WRITE" THEN "writer" ELSE "reader"]
  <2>1. StoreMode'[t] = IF type = "E_READ_WRITE" THEN "writer" ELSE "reader"
    BY <1>2 DEF StoreMode, IsWriter
  <2>2. QED
    BY <1>4, <2>1 DEF StoreMode
<1>10. type = "E_READ_WRITE" => \A u \in Txs : StoreMode[u] # "writer"
  BY <1>5 DEF StoreMode, IsWriting
<1>11. QED
  BY <1>3, <1>4, <1>7, <1>8, <1>9, <1>10 DEF Store!Begin


\* A commit puts the writer's view in place of the committed state.
LEMMA Ends ==
  ASSUME PoolInv, PoolInv', ShowInv, NEW t \in Txs, PoolCommit(t)
  PROVE  ShowInv' /\ Store!End(t)
<1>1. /\ PoolTypeOK /\ TxInv /\ pc[t] = "running" /\ t \in Running
      /\ UNCHANGED <<p_main, blocks, hist>> /\ held' = [held EXCEPT ![t] = NULL]
  BY DEF PoolInv, PoolCommit, Commit, Running
<1>2. \A u \in Txs \ {t} : pc'[u] = pc[u] /\ m_txversion'[u] = m_txversion[u] /\ m_tx_type'[u] = m_tx_type[u]
  BY <1>1 DEF PoolCommit, Commit, TxInv, TypeOK
<1>3. pc'[t] # "running"
  BY <1>1 DEF PoolCommit, Commit, TxInv, TypeOK
<1>4. m_last_write_committed_id' = IF IsWriter(t) THEN m_txversion[t] ELSE m_last_write_committed_id
  <2>1. IsWriter(t) => m_txversion[t] = m_id[t] /\ m_last_write_committed_id < m_txversion[t]
    BY <1>1 DEF TxInv, VersionOrder, SnapshotIsCommitted
  <2>2. QED
    BY <1>1, <2>1 DEF PoolCommit, Commit, TxInv, TypeOK
<1>5. /\ ShowInv'
      /\ StoreOut' = [StoreOut EXCEPT ![t] = NULL]
      /\ \A u \in Txs \ {t} : StoreMode'[u] = StoreMode[u] /\ StoreView'[u] = StoreView[u]
  BY <1>1, <1>2, ManagerShows
<1>6. StoreMode[t] = (IF IsWriter(t) THEN "writer" ELSE "reader")
  BY <1>1 DEF StoreMode
<1>7. StoreMode' = [StoreMode EXCEPT ![t] = "idle"]
  BY <1>3, <1>5 DEF StoreMode
<1>8. StoreView' = [StoreView EXCEPT ![t] = Store!Empty]
  <2>1. StoreView'[t] = Store!Empty
    BY <1>3 DEF StoreView, Store!Empty
  <2>2. /\ StoreView = [u \in Txs |-> StoreView[u]]
        /\ StoreView' = [u \in Txs |-> StoreView'[u]]
    BY Zenon DEF StoreView
  <2>3. QED
    BY <1>5, <2>1, <2>2, Zenon
<1>9. StoreDb' = IF StoreMode[t] = "writer" THEN StoreView[t] ELSE StoreDb
  <2>1. CASE IsWriter(t)
    <3>1. \A s \in Refs : HistoryAt(s, m_last_write_committed_id)' = HistoryAt(s, m_txversion[t])
      BY <1>1, <1>4, <2>1 DEF HistoryAt
    <3>2. QED
      BY <1>1, <1>6, <2>1, <3>1 DEF StoreDb, StoreView
  <2>2. CASE ~IsWriter(t)
    <3>1. \A s \in Refs : HistoryAt(s, m_last_write_committed_id)' = HistoryAt(s, m_last_write_committed_id)
      BY <1>1, <1>4, <2>2 DEF HistoryAt
    <3>2. QED
      BY <1>6, <2>2, <3>1 DEF StoreDb
  <2>3. QED
    BY <2>1, <2>2
<1>10. QED
  BY <1>5, <1>6, <1>7, <1>8, <1>9 DEF Store!End

\* Threads on their way in or out change nothing.
LEMMA WaitsUnseen ==
  ASSUME PoolInv, PoolInv', ShowInv, NEW t \in Txs,
         BeginReadWrite(t) \/ LockWrite(t) \/ UnlockWrite(t), UNCHANGED poolvars
  PROVE  ShowInv' /\ UNCHANGED Store!storevars
<1>1. /\ pc[t] # "running" /\ pc'[t] # "running" /\ UNCHANGED fields
      /\ m_last_write_committed_id' = m_last_write_committed_id
      /\ \A u \in Txs \ {t} : pc'[u] = pc[u]
  BY DEF BeginReadWrite, LockWrite, UnlockWrite, PoolInv, TxInv, TypeOK
<1>2. \A u \in Txs \ {t} : pc'[u] = pc[u] /\ m_txversion'[u] = m_txversion[u] /\ m_tx_type'[u] = m_tx_type[u]
  BY <1>1 DEF fields
<1>3. /\ held' = [held EXCEPT ![t] = NULL] /\ StoreOut = [StoreOut EXCEPT ![t] = NULL]
      /\ UNCHANGED <<p_main, blocks, hist>>
      /\ StoreMode[t] = "idle" /\ StoreView[t] = [r \in Refs |-> NULL]
  BY <1>1, OutsideHolds DEF poolvars
<1>4. /\ ShowInv'
      /\ StoreOut' = StoreOut
      /\ \A u \in Txs \ {t} : StoreMode'[u] = StoreMode[u] /\ StoreView'[u] = StoreView[u]
  BY <1>2, <1>3, ManagerShows
<1>5. StoreDb' = StoreDb
  BY <1>1, <1>3 DEF StoreDb, HistoryAt
<1>6. StoreMode'[t] = "idle" /\ StoreView'[t] = [r \in Refs |-> NULL]
  BY <1>1 DEF StoreMode, StoreView
<1>7. StoreMode' = StoreMode /\ StoreView' = StoreView
  BY <1>3, <1>4, <1>6 DEF StoreMode, StoreView
<1>8. QED
  BY <1>4, <1>5, <1>7 DEF Store!storevars

\* A restart empties the store.
LEMMA Clears ==
  ASSUME PoolInv, PoolInv', ShowInv, PoolRestart
  PROVE  ShowInv' /\ Store!Clear
<1>1. /\ Restart /\ \A t \in Txs : pc[t] = "idle" /\ held[t] = NULL
      /\ hist' = [r \in Refs |-> <<>>] /\ p_main' = [r \in Refs |-> NULL] /\ held' = held
      /\ pc' = pc /\ m_txversion' = m_txversion /\ m_tx_type' = m_tx_type
  BY NothingHeld DEF PoolRestart, Restart, fields
<1>2. ShowInv'
  BY <1>1 DEF ShowInv, Rooted
<1>3. \A r \in Refs : HistoryAt(r, m_last_write_committed_id)' = NULL
  BY <1>1 DEF HistoryAt
<1>4. StoreDb' = Store!Empty
  BY <1>3 DEF StoreDb, Store!Empty
<1>5. StoreMode' = StoreMode /\ StoreView' = StoreView /\ StoreOut' = StoreOut
  BY <1>1 DEF StoreMode, StoreView, StoreOut, IsWriter
<1>6. \A t \in Txs : StoreMode[t] = "idle"
  BY <1>1 DEF StoreMode
<1>7. QED
  BY <1>2, <1>4, <1>5, <1>6 DEF Store!Clear

---------------------------------------------------------------------------
\* Ids.
Queued == {t \in Txs : pc[t] = "lock_write"}
Entering == {t \in Txs : pc[t] = "begin"}
OneIf(S) == IF S = {} THEN 0 ELSE 1

\* At most one transaction waits for the mutex of writers and one has it without running; the
\* bound on ids counts both.
LEMMA IdsCount ==
  ASSUME TxInv, IdsInv
  PROVE  /\ \A t, u \in Queued : t = u
         /\ \A t, u \in Entering : t = u
         /\ m_next_id \in Nat
         /\ m_next_id + OneIf(Queued) + OneIf(Entering) <= MaxId + 1
         /\ IdsLeft = MaxId + 1 - m_next_id - (OneIf(Queued) + OneIf(Entering))
<1>1. \A t, u \in Queued : t = u
  BY DEF Queued, IdsInv
<1>2. \A t, u \in Entering : t = u
  BY DEF Entering, TxInv, WriterExclusion
<1>3. m_next_id \in Nat
  BY DEF TxInv, TypeOK
<1>4. m_next_id + OneIf(Queued) + OneIf(Entering) <= MaxId + 1
  <2>1. OneIf(Queued) = IF \E t \in Txs : pc[t] = "lock_write" THEN 1 ELSE 0
    BY DEF OneIf, Queued
  <2>2. OneIf(Entering) = IF \E t \in Txs : pc[t] = "begin" THEN 1 ELSE 0
    BY DEF OneIf, Entering
  <2>3. QED
    BY <2>1, <2>2 DEF IdsInv
<1>5. {t \in Txs : pc[t] \in {"lock_write", "begin"}} = Queued \cup Entering /\ Queued \cap Entering = {}
  BY DEF Queued, Entering
<1>6. Cardinality(Queued \cup Entering) = OneIf(Queued) + OneIf(Entering)
  <2>1. IsFiniteSet(Queued) /\ Cardinality(Queued) = OneIf(Queued)
    <3>1. CASE Queued = {}
      BY <3>1, FS_EmptySet DEF OneIf
    <3>2. CASE Queued # {}
      <4>1. PICK t : Queued = {t}
        BY <1>1, <3>2
      <4>2. QED
        BY <4>1, FS_Singleton DEF OneIf
    <3>3. QED
      BY <3>1, <3>2
  <2>2. CASE Entering = {}
    <3>1. Queued \cup Entering = Queued /\ OneIf(Queued) \in Nat
      BY <2>2 DEF OneIf
    <3>2. QED
      BY <2>1, <2>2, <3>1 DEF OneIf
  <2>3. CASE Entering # {}
    <3>1. PICK u : Entering = {u}
      BY <1>2, <2>3
    <3>2. u \notin Queued /\ Queued \cup Entering = Queued \cup {u}
      BY <1>5, <3>1
    <3>3. Cardinality(Queued \cup {u}) = Cardinality(Queued) + 1
      BY <2>1, <3>2, FS_AddElement
    <3>4. QED
      BY <2>1, <2>3, <3>2, <3>3 DEF OneIf
  <2>4. QED
    BY <2>2, <2>3
<1>7. QED
  BY <1>1, <1>2, <1>3, <1>4, <1>5, <1>6 DEF IdsLeft

\* Ids stay within the bound.
LEMMA IdsKept ==
  ASSUME TxInv, IdsInv, [PoolNext]_vars
  PROVE  IdsInv'
<1> DEFINE Kept == /\ \A t, u \in Queued' : t = u
                   /\ m_next_id' + OneIf(Queued)' + OneIf(Entering)' <= MaxId + 1
<1>1. Kept => IdsInv'
  <2>1. OneIf(Queued)' = IF \E t \in Txs : pc'[t] = "lock_write" THEN 1 ELSE 0
    BY DEF OneIf, Queued
  <2>2. OneIf(Entering)' = IF \E t \in Txs : pc'[t] = "begin" THEN 1 ELSE 0
    BY DEF OneIf, Entering
  <2>3. (\A t, u \in Queued' : t = u) => \A t, u \in Txs : pc'[t] = "lock_write" /\ pc'[u] = "lock_write" => t = u
    BY DEF Queued
  <2>4. QED
    BY <2>1, <2>2, <2>3 DEF IdsInv
<1>2. /\ \A t, u \in Queued : t = u
      /\ \A t, u \in Entering : t = u
      /\ m_next_id \in Nat /\ MaxId \in Nat
      /\ m_next_id + OneIf(Queued) + OneIf(Entering) <= MaxId + 1
      /\ IdsLeft = MaxId + 1 - m_next_id - (OneIf(Queued) + OneIf(Entering))
  BY IdsCount, TxAssumption
<1>3. pc \in [Txs -> PC] /\ OneIf(Queued) \in {0, 1} /\ OneIf(Entering) \in {0, 1}
  BY DEF TxInv, TypeOK, OneIf
<1>4. ASSUME UNCHANGED txvars PROVE Kept
  BY <1>2, <1>4 DEF txvars, OneIf, Queued, Entering
<1>5. ASSUME NEW t \in Txs, IdsLeft > 0, BeginReadOnly(t) PROVE Kept
  <2>1. Queued' = Queued /\ Entering' = Entering /\ m_next_id' = m_next_id + 1
    BY <1>3, <1>5 DEF BeginReadOnly, Enter, Queued, Entering
  <2>2. QED
    BY <1>2, <1>3, <1>5, <2>1 DEF OneIf
<1>6. ASSUME NEW t \in Txs, IdsLeft > 0, \A u \in Txs : pc[u] # "lock_write", BeginReadWrite(t) PROVE Kept
  <2>1. Queued = {} /\ Queued' = {t} /\ Entering' = Entering /\ m_next_id' = m_next_id
    BY <1>3, <1>6 DEF BeginReadWrite, Queued, Entering
  <2>2. QED
    BY <1>2, <1>3, <1>6, <2>1 DEF OneIf
<1>7. ASSUME NEW t \in Txs, LockWrite(t) PROVE Kept
  <2>1. t \in Queued /\ Entering = {}
    BY <1>7, TxAssumption DEF LockWrite, Queued, Entering, TxInv, WriterExclusion
  <2>2. Queued' = Queued \ {t} /\ Entering' = {t} /\ m_next_id' = m_next_id
    BY <1>3, <1>7, <2>1 DEF LockWrite, Queued, Entering
  <2>3. Queued' = {}
    BY <1>2, <2>1, <2>2
  <2>4. QED
    BY <1>2, <2>1, <2>2, <2>3 DEF OneIf
<1>8. ASSUME NEW t \in Txs, EnterReadWrite(t) PROVE Kept
  <2>1. t \in Entering
    BY <1>8 DEF EnterReadWrite, Entering
  <2>2. Queued' = Queued /\ Entering' = Entering \ {t} /\ m_next_id' = m_next_id + 1
    BY <1>3, <1>8 DEF EnterReadWrite, Enter, Queued, Entering
  <2>3. Entering' = {}
    BY <1>2, <2>1, <2>2
  <2>4. QED
    BY <1>2, <1>3, <2>1, <2>2, <2>3 DEF OneIf
<1>9. ASSUME NEW t \in Txs, UnlockWrite(t) \/ Commit(t) PROVE Kept
  <2>1. Queued' = Queued /\ Entering' = Entering /\ m_next_id' = m_next_id
    BY <1>3, <1>9 DEF UnlockWrite, Commit, Queued, Entering
  <2>2. QED
    BY <1>2, <2>1 DEF OneIf
<1>10. ASSUME PoolRestart PROVE Kept
  <2>1. Queued' = {} /\ Entering' = {} /\ m_next_id' = 1
    BY <1>10 DEF PoolRestart, Restart, FreshManager, Queued, Entering
  <2>2. QED
    BY <1>2, <2>1 DEF OneIf
<1> HIDE DEF Kept
<1>11. ASSUME NEW t \in Txs, Manager(t) \/ PoolCommit(t) PROVE Kept
  BY <1>5, <1>6, <1>7, <1>8, <1>9, <1>11 DEF Manager, PoolCommit
<1>12. ASSUME NEW t \in Txs, NEW r \in Refs,
              Alloc(t, r) \/ Free(t, r) \/ ReaderStart(t, r) \/ WriterPtr(t, r, "read") \/ WriterPtr(t, r, "write")
       PROVE  UNCHANGED txvars
  BY <1>12 DEF Alloc, Free, ReaderStart, WriterPtr
<1>13. ASSUME NEW t \in Txs,
              \/ ReaderStep(t) \/ ReaderEnd(t)
              \/ Sever(t) \/ Drop(t) \/ Copy(t) \/ Unlink(t) \/ Reclaim(t)
              \/ WriterRead(t) \/ WriterWrite(t) \/ FreeEnd(t)
              \/ CtxGc(t) \/ CtxGcForce(t)
       PROVE  UNCHANGED txvars
  BY <1>13 DEF ReaderStep, ReaderEnd, Sever, Drop, Copy, Unlink, Reclaim, WriterRead, WriterWrite, FreeEnd, CtxGc,
               CtxGcForce
<1>14. UNCHANGED vars => UNCHANGED txvars
  BY DEF vars
<1>15. QED
  BY <1>1, <1>4, <1>10, <1>11, <1>12, <1>13, <1>14 DEF PoolNext


---------------------------------------------------------------------------
\* The pool begins empty.
LEMMA StoreBegins == PoolInit => Store!StoreInit /\ ShowInv /\ IdsInv
<1> SUFFICES ASSUME PoolInit PROVE Store!StoreInit /\ ShowInv /\ IdsInv
  OBVIOUS
<1>1. /\ \A t \in Txs : pc[t] = "idle" /\ held[t] = NULL
      /\ \A r \in Refs : hist[r] = <<>> /\ p_main[r] = NULL
      /\ m_next_id = 1
  BY DEF PoolInit, TxInit
<1>2. \A r \in Refs : \A v : HistoryAt(r, v) = NULL
  BY <1>1 DEF HistoryAt
<1>3. StoreDb = Store!Empty
  BY <1>2 DEF StoreDb, Store!Empty
<1>4. StoreMode = [t \in Txs |-> "idle"] /\ StoreView = [t \in Txs |-> Store!Empty]
  BY <1>1 DEF StoreMode, StoreView, Store!Empty
<1>5. StoreOut = [t \in Txs |-> NULL]
  BY <1>1 DEF StoreOut
<1>6. ShowInv
  BY <1>1 DEF ShowInv, Rooted
<1>7. IdsInv
  BY <1>1, TxAssumption DEF IdsInv
<1>8. QED
  BY <1>3, <1>4, <1>5, <1>6, <1>7 DEF Store!StoreInit

\* Every step of the pool is one of the store or shows nothing.
LEMMA StoreSteps ==
  ASSUME Liberties = {}, PoolInv, PoolInv', ShowInv, IdsInv, [PoolNext]_vars
  PROVE  ShowInv' /\ [Store!StoreNext]_(Store!storevars)
<1>1. ASSUME NEW t \in Txs, Manager(t) \/ PoolCommit(t)
      PROVE  ShowInv' /\ [Store!StoreNext]_(Store!storevars)
  <2>1. CASE PoolCommit(t)
    BY <2>1, Ends DEF Store!StoreNext
  <2>2. CASE Manager(t) /\ BeginReadOnly(t)
    <3>1. /\ Enter(t, "E_READ_ONLY") /\ "E_READ_ONLY" \in TxType /\ UNCHANGED poolvars
          /\ pc[t] = IF "E_READ_ONLY" = "E_READ_WRITE" THEN "begin" ELSE "idle"
      BY <2>2 DEF BeginReadOnly, Manager, TxType
    <3>2. ShowInv' /\ Store!Begin(t, IF "E_READ_ONLY" = "E_READ_WRITE" THEN "writer" ELSE "reader")
      BY <3>1, Begins
    <3>3. QED
      BY <3>2 DEF Store!StoreNext
  <2>3. CASE Manager(t) /\ EnterReadWrite(t)
    <3>1. /\ Enter(t, "E_READ_WRITE") /\ "E_READ_WRITE" \in TxType /\ UNCHANGED poolvars
          /\ pc[t] = IF "E_READ_WRITE" = "E_READ_WRITE" THEN "begin" ELSE "idle"
      BY <2>3 DEF EnterReadWrite, Manager, TxType
    <3>2. ShowInv' /\ Store!Begin(t, IF "E_READ_WRITE" = "E_READ_WRITE" THEN "writer" ELSE "reader")
      BY <3>1, Begins
    <3>3. QED
      BY <3>2 DEF Store!StoreNext
  <2>4. CASE Manager(t) /\ (BeginReadWrite(t) \/ LockWrite(t) \/ UnlockWrite(t))
    BY <2>4, WaitsUnseen DEF Manager
  <2>5. QED
    BY <1>1, <2>1, <2>2, <2>3, <2>4 DEF Manager
<1>2. ASSUME NEW t \in Txs, NEW r \in Refs, Alloc(t, r)
      PROVE  ShowInv' /\ [Store!StoreNext]_(Store!storevars)
  <2>1. ShowInv' /\ Store!Put(t, r, 0)
    BY <1>2, AllocPuts
  <2>2. 0 \in 0..MaxId
    BY TxAssumption
  <2>3. QED
    BY <2>1, <2>2 DEF Store!StoreNext
<1>3. ASSUME NEW t \in Txs, WriterWrite(t)
      PROVE  ShowInv' /\ [Store!StoreNext]_(Store!storevars)
  <2>1. PICK r \in Refs : ShowInv' /\ Store!Put(t, r, m_id[t])
    BY <1>3, WriterPuts
  <2>2. m_id[t] \in 0..MaxId
    <3>1. TxInv /\ pc[t] = "running"
      BY <1>3, WriterStores DEF PoolInv, IsWriting
    <3>2. m_id[t] \in Nat /\ m_id[t] < m_next_id /\ m_next_id \in Nat /\ MaxId \in Nat
      BY <3>1, TxAssumption DEF TxInv, TypeOK, IdOrder, Running
    <3>3. m_next_id <= MaxId + 1
      BY <3>2 DEF IdsInv
    <3>4. QED
      BY <3>2, <3>3
  <2>3. QED
    BY <2>1, <2>2 DEF Store!StoreNext
<1>4. ASSUME NEW t \in Txs, FreeEnd(t)
      PROVE  ShowInv' /\ [Store!StoreNext]_(Store!storevars)
  BY <1>4, FreePuts DEF Store!StoreNext
<1>5. ASSUME NEW t \in Txs, ReaderEnd(t) \/ WriterRead(t)
      PROVE  ShowInv' /\ [Store!StoreNext]_(Store!storevars)
  BY <1>5, ReaderGets, WriterGets DEF Store!StoreNext
<1>6. ASSUME NEW t \in Txs,
             \/ \E r \in Refs : \/ ReaderStart(t, r) \/ Free(t, r)
                                \/ WriterPtr(t, r, "read") \/ WriterPtr(t, r, "write")
             \/ ReaderStep(t) \/ CtxGc(t)
             \/ Drop(t) \/ Reclaim(t)
      PROVE  ShowInv' /\ [Store!StoreNext]_(Store!storevars)
  BY <1>6, QuietCalls
<1>7. ASSUME NEW t \in Txs, Sever(t) \/ Copy(t) \/ Unlink(t) \/ CtxGcForce(t)
      PROVE  ShowInv' /\ [Store!StoreNext]_(Store!storevars)
  BY <1>7, SeverUnseen, CopyUnseen, UnlinkUnseen, ForceUnseen
<1>8. CASE PoolRestart
  BY <1>8, Clears DEF Store!StoreNext
<1>9. CASE UNCHANGED vars
  <2>1. UNCHANGED <<p_main, blocks, held, hist, txvars>>
    BY <1>9 DEF vars, poolvars
  <2>2. QED
    BY <2>1, StoresNothing
<1>10. QED
  BY <1>1, <1>2, <1>3, <1>4, <1>5, <1>6, <1>7, <1>8, <1>9 DEF PoolNext

\* The refinement: whatever the steps of walks, collections, sweeps and stores do between them,
\* transactions that use fdb_txpool_alloc_alloc, _ptr and _free cannot tell the pool from a store
\* that gives each of them the state committed when it began, and puts the writer's in place at
\* its commit.
THEOREM PoolImplementsStore ==
  ASSUME Liberties = {}
  PROVE  PoolSpec => ImplementsStore
<1>1. PoolInit => Store!StoreInit /\ ShowInv /\ IdsInv
  BY StoreBegins
<1>2. PoolInv /\ PoolInv' /\ ShowInv /\ IdsInv /\ [PoolNext]_vars
        => ShowInv' /\ IdsInv' /\ [Store!StoreNext]_(Store!storevars)
  BY StoreSteps, IdsKept DEF PoolInv
<1>3. PoolSpec => []PoolInv
  BY PoolInvariant
<1>4. QED
  BY <1>1, <1>2, <1>3, PTL DEF PoolSpec, ImplementsStore, Store!StoreSpec

===========================================================================
