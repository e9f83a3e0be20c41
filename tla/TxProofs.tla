----------------------------- MODULE TxProofs -----------------------------
(***************************************************************************)
(* Proofs about the transaction manager, for every set of transaction      *)
(* objects and every number of transactions: the list of running           *)
(* transactions is in begin order, writers exclude each other, and the     *)
(* safepoint of a running writer is not above the version of any           *)
(* transaction that runs beside it.                                        *)
(*                                                                         *)
(* GcSafepoint is not inductive.  The safepoint is read off p_first, so    *)
(* that p_first is the oldest running transaction has to be carried along  *)
(* (ListOrder), and the oldest one has the smallest version only because   *)
(* no writer is in the list when a writer enters (WriterExclusion) and the *)
(* versions readers take grow with the last committed id (VersionOrder).   *)
(***************************************************************************)
EXTENDS Tx, TLAPS

\* Ids are handed out once and in order.
IdOrder ==
  /\ m_last_write_committed_id < m_next_id
  /\ \A t \in Running : m_id[t] < m_next_id
  /\ \A t, u \in Running : m_id[t] = m_id[u] => t = u

\* A writer reads at its own id; a reader reads no later version than those that began after.
VersionOrder ==
  /\ \A t \in Running : IsWriter(t) => m_txversion[t] = m_id[t]
  /\ \A t, u \in Running :
       m_id[t] <= m_id[u] /\ ~IsWriter(t) => m_txversion[t] <= m_txversion[u]

\* A reader that began beside the running writer reads the last version committed.
LateReaders ==
  \A w, t \in Running : IsWriter(w) /\ m_id[w] < m_id[t]
                          => m_txversion[t] = m_last_write_committed_id

TxInv ==
  /\ TypeOK
  /\ WriterExclusion
  /\ IdOrder
  /\ ListOrder
  /\ SnapshotIsCommitted
  /\ VersionOrder
  /\ LateReaders
  /\ GcSafepoint

---------------------------------------------------------------------------
\* Steps that touch neither the list nor a field of a running transaction: they only have
\* to keep the ownership of m_write_running.
LEMMA QuietStep ==
  ASSUME TxInv, TypeOK', WriterExclusion', Running' = Running,
         UNCHANGED <<list, m_next_id, m_last_write_committed_id, fields>>
  PROVE  TxInv'
<1>1. IdOrder'
  BY DEF TxInv, IdOrder, list, fields
<1>2. ListOrder'
  BY DEF TxInv, ListOrder, Adjacent, list, fields
<1>3. SnapshotIsCommitted' /\ VersionOrder' /\ LateReaders' /\ GcSafepoint'
  BY DEF TxInv, SnapshotIsCommitted, VersionOrder, LateReaders, GcSafepoint, IsWriter, list,
         fields
<1>4. QED
  BY <1>1, <1>2, <1>3 DEF TxInv

\* fdb_tx_begin's critical section, for both types.
LEMMA EnterStep ==
  ASSUME TxInv, NEW t \in Txs, NEW type \in TxType, Enter(t, type),
         pc[t] = IF type = "E_READ_WRITE" THEN "begin" ELSE "idle"
  PROVE  TxInv'
<1> USE TxAssumption DEF TxInv
<1>1. t \notin Running /\ Running' = Running \cup {t}
  BY DEF Running, Enter, TypeOK
<1>2. /\ m_id'[t] = m_next_id
      /\ m_txversion'[t] = SnapshotVersion(type)
      /\ m_ortxversion'[t] = BeginSafepoint
      /\ m_tx_type'[t] = type
      /\ p_next'[t] = NULL
      /\ p_prev'[t] = p_last
  BY DEF Enter, TypeOK
<1>3. \A u \in Running : /\ u # t
                         /\ m_id'[u] = m_id[u]
                         /\ m_txversion'[u] = m_txversion[u]
                         /\ m_ortxversion'[u] = m_ortxversion[u]
                         /\ m_tx_type'[u] = m_tx_type[u]
                         /\ p_prev'[u] = p_prev[u]
                         /\ p_next'[u] = IF u = p_last THEN t ELSE p_next[u]
                         /\ u \in Txs
  BY <1>1 DEF Enter, TypeOK, Running
<1>4. /\ m_next_id' = m_next_id + 1
      /\ m_last_write_committed_id' = m_last_write_committed_id
      /\ p_first' = IF p_first = NULL THEN t ELSE p_first
      /\ p_last' = t
      /\ m_write_running' = m_write_running
  BY DEF Enter
<1>5. BeginSafepoint \in Nat /\ SnapshotVersion(type) \in Nat
  BY DEF TypeOK, BeginSafepoint, SnapshotVersion
<1>6. TypeOK'
  BY <1>5 DEF TypeOK, Enter, PC, TxType
<1>7. WriterExclusion'
  BY <1>1, <1>2, <1>3, <1>4 DEF WriterExclusion, IsWriter, Enter, TypeOK, TxType, Running
<1>8. /\ m_next_id \in Nat
      /\ \A u \in Running : m_id[u] < m_next_id /\ m_id[u] \in Nat
  BY DEF IdOrder, TypeOK, Running
<1>9. IdOrder'
  BY <1>1, <1>2, <1>3, <1>4, <1>8 DEF IdOrder, TypeOK
<1>10. ListOrder'
  <2>1. /\ Running' # {} /\ p_first' # NULL /\ p_last' # NULL
    BY <1>1, <1>4 DEF TypeOK
  <2>2. /\ p_first' \in Running'
        /\ \A u \in Running' : m_id'[p_first'] <= m_id'[u]
    <3>1. CASE Running = {}
      BY <3>1, <1>1, <1>2, <1>4 DEF ListOrder, TypeOK
    <3>2. CASE Running # {}
      BY <3>2, <1>1, <1>2, <1>3, <1>4, <1>8 DEF ListOrder, TypeOK
    <3>3. QED
      BY <3>1, <3>2
  <2>3. /\ p_last' \in Running'
        /\ \A u \in Running' : m_id'[u] <= m_id'[p_last']
    BY <1>1, <1>2, <1>3, <1>4, <1>8 DEF TypeOK
  <2>4. ASSUME NEW u \in Running'
        PROVE  IF u = p_last' THEN p_next'[u] = NULL
               ELSE p_next'[u] \in Running' /\ Adjacent(u, p_next[u])'
    <3>1. CASE u = t
      BY <3>1, <1>2, <1>4
    <3>2. CASE u # t /\ u = p_last
      BY <3>2, <1>1, <1>2, <1>3, <1>4, <1>8 DEF ListOrder, Adjacent
    <3>3. CASE u # t /\ u # p_last
      <4>1. u \in Running /\ p_next[u] \in Running /\ Adjacent(u, p_next[u])
        BY <3>3, <1>1 DEF ListOrder
      <4>2. p_next'[u] = p_next[u]
        BY <3>3, <4>1, <1>3
      <4>3. Adjacent(u, p_next[u])'
        BY <4>1, <4>2, <1>1, <1>2, <1>3, <1>8 DEF Adjacent
      <4>4. QED
        BY <3>3, <4>1, <4>2, <4>3, <1>1, <1>4
    <3>4. QED
      BY <3>1, <3>2, <3>3
  <2>5. ASSUME NEW u \in Running'
        PROVE  IF u = p_first' THEN p_prev'[u] = NULL
               ELSE p_prev'[u] \in Running' /\ Adjacent(p_prev[u], u)'
    <3>1. CASE u = t
      <4>1. CASE Running = {}
        BY <3>1, <4>1, <1>2, <1>4 DEF ListOrder
      <4>2. CASE Running # {}
        <5>1. p_last \in Running /\ \A v \in Running : m_id[v] <= m_id[p_last]
          BY <4>2 DEF ListOrder
        <5>2. Adjacent(p_prev[u], u)'
          BY <3>1, <5>1, <1>1, <1>2, <1>3, <1>8 DEF Adjacent
        <5>3. p_first' # u
          BY <3>1, <4>2, <1>1, <1>4 DEF ListOrder
        <5>4. QED
          BY <3>1, <5>1, <5>2, <5>3, <1>1, <1>2
      <4>3. QED
        BY <4>1, <4>2
    <3>2. CASE u # t
      <4>1. u \in Running /\ p_first' = p_first
        BY <3>2, <1>1, <1>4 DEF ListOrder
      <4>2. p_prev'[u] = p_prev[u]
        BY <4>1, <1>3
      <4>3. CASE u # p_first
        <5>1. p_prev[u] \in Running /\ Adjacent(p_prev[u], u)
          BY <4>1, <4>3 DEF ListOrder
        <5>2. Adjacent(p_prev[u], u)'
          BY <4>1, <4>2, <5>1, <1>1, <1>2, <1>3, <1>8 DEF Adjacent
        <5>3. QED
          BY <4>1, <4>2, <4>3, <5>1, <5>2, <1>1
      <4>4. CASE u = p_first
        BY <4>1, <4>2, <4>4 DEF ListOrder
      <4>5. QED
        BY <4>3, <4>4
    <3>3. QED
      BY <3>1, <3>2
  <2>6. QED
    BY <2>1, <2>2, <2>3, <2>4, <2>5 DEF ListOrder
\* A writer enters beside readers only, and takes the version of the oldest of them.
<1>11. type = "E_READ_WRITE" =>
         \A u \in Running : ~IsWriter(u) /\ BeginSafepoint <= m_txversion[u]
  <2> SUFFICES ASSUME type = "E_READ_WRITE", NEW u \in Running
               PROVE  ~IsWriter(u) /\ BeginSafepoint <= m_txversion[u]
    OBVIOUS
  <2>1. \A v \in Running : ~IsWriter(v)
    BY <1>1 DEF WriterExclusion, Running
  <2>2. p_first \in Running /\ m_id[p_first] <= m_id[u] /\ p_first # NULL
    BY DEF ListOrder
  <2>3. QED
    BY <2>1, <2>2 DEF VersionOrder, BeginSafepoint
<1>12. BeginSafepoint <= m_last_write_committed_id
       \/ \E u \in Running : IsWriter(u) /\ type = "E_READ_ONLY"
  <2>1. CASE p_first = NULL
    BY <2>1 DEF BeginSafepoint, TypeOK
  <2>2. CASE p_first # NULL
    <3>1. p_first \in Running
      BY <2>2 DEF ListOrder
    <3>2. CASE IsWriter(p_first)
      BY <3>1, <3>2, <1>11 DEF TxType
    <3>3. CASE ~IsWriter(p_first)
      BY <2>2, <3>1, <3>3 DEF SnapshotIsCommitted, BeginSafepoint
    <3>4. QED
      BY <3>2, <3>3
  <2>3. QED
    BY <2>1, <2>2
<1>13. SnapshotIsCommitted'
  BY <1>1, <1>2, <1>3, <1>4, <1>12
     DEF SnapshotIsCommitted, SnapshotVersion, IsWriter, IdOrder, TxType, TypeOK
<1>14. VersionOrder'
  <2>1. \A u \in Running : ~IsWriter(u) => m_txversion[u] <= SnapshotVersion(type)
    BY DEF SnapshotIsCommitted, SnapshotVersion, IdOrder, TypeOK, Running
  <2>2. QED
    BY <2>1, <1>1, <1>2, <1>3, <1>5, <1>8
       DEF VersionOrder, SnapshotVersion, IsWriter, TypeOK, TxType
<1>15. GcSafepoint'
  <2>1. type = "E_READ_WRITE" => BeginSafepoint <= SnapshotVersion(type)
    BY <1>12, <1>5 DEF IdOrder, SnapshotVersion, TypeOK
  <2>2. type = "E_READ_ONLY" =>
          \A w \in Running : IsWriter(w) => m_ortxversion[w] <= SnapshotVersion(type)
    BY DEF SnapshotIsCommitted, SnapshotVersion
  <2>3. QED
    BY <2>1, <2>2, <1>1, <1>2, <1>3, <1>11 DEF GcSafepoint, IsWriter, TxType
<1>16. LateReaders'
  <2>1. \A u \in Running : IsWriter(u) => type = "E_READ_ONLY"
    BY <1>11 DEF TxType
  <2>2. type = "E_READ_ONLY" => SnapshotVersion(type) = m_last_write_committed_id
    BY DEF SnapshotVersion
  <2>3. QED
    BY <2>1, <2>2, <1>1, <1>2, <1>3, <1>4, <1>8 DEF LateReaders, IsWriter
<1>17. QED
  BY <1>6, <1>7, <1>9, <1>10, <1>13, <1>14, <1>15, <1>16

\* fdb_tx_commit's critical section: the list is relinked around t, whether t is at an end
\* of it, in the middle or alone.
LEMMA CommitStep ==
  ASSUME TxInv, NEW t \in Txs, Commit(t)
  PROVE  TxInv'
<1> USE TxAssumption DEF TxInv
<1>1. t \in Running /\ Running' = Running \ {t}
  BY DEF Running, Commit, TypeOK
<1>2. \A u \in Running' : /\ u # t
                          /\ u \in Txs
                          /\ m_id'[u] = m_id[u]
                          /\ m_txversion'[u] = m_txversion[u]
                          /\ m_ortxversion'[u] = m_ortxversion[u]
                          /\ m_tx_type'[u] = m_tx_type[u]
                          /\ p_next'[u] = IF u = p_prev[t] THEN p_next[t] ELSE p_next[u]
                          /\ p_prev'[u] = IF u = p_next[t] THEN p_prev[t] ELSE p_prev[u]
  BY <1>1 DEF Commit, TypeOK, Running, UnlinkNext, UnlinkPrev
<1>3. /\ m_next_id' = m_next_id
      /\ m_write_running' = m_write_running
      /\ p_first' = IF p_first = t THEN p_next[t] ELSE p_first
      /\ p_last' = IF p_last = t THEN p_prev[t] ELSE p_last
      /\ m_last_write_committed_id' = IF IsWriter(t) /\ m_id[t] > m_last_write_committed_id
                                      THEN m_id[t] ELSE m_last_write_committed_id
  BY DEF Commit
<1>4. TypeOK'
  BY DEF TypeOK, Commit, UnlinkNext, UnlinkPrev, PC, TxType
<1>5. WriterExclusion'
  BY <1>1, <1>2, <1>3 DEF WriterExclusion, IsWriter, Commit, TypeOK, Running
<1>6. /\ m_last_write_committed_id \in Nat
      /\ \A u \in Running : m_id[u] \in Nat /\ m_id[u] < m_next_id
      /\ \A u, v \in Running : m_id[u] = m_id[v] => u = v
  BY DEF IdOrder, TypeOK, Running
<1>7. IdOrder'
  BY <1>1, <1>2, <1>3, <1>6 DEF IdOrder
<1>8. ListOrder'
  \* The neighbours of t: no running transaction lies between t and them.
  <2>1. /\ t # p_last => p_next[t] \in Running' /\ Adjacent(t, p_next[t])
        /\ t = p_last => p_next[t] = NULL /\ \A u \in Running : m_id[u] <= m_id[t]
    BY <1>1, <1>6 DEF ListOrder, Adjacent
  <2>2. /\ t # p_first => p_prev[t] \in Running' /\ Adjacent(p_prev[t], t)
        /\ t = p_first => p_prev[t] = NULL /\ \A u \in Running : m_id[t] <= m_id[u]
    BY <1>1, <1>6 DEF ListOrder, Adjacent
  <2>3. /\ p_first \in Running /\ \A u \in Running : m_id[p_first] <= m_id[u]
        /\ p_last \in Running /\ \A u \in Running : m_id[u] <= m_id[p_last]
    BY <1>1 DEF ListOrder
  <2>4. ASSUME NEW a \in Running', NEW b \in Running', Adjacent(a, b)
        PROVE  Adjacent(a, b)'
    BY <2>4, <1>1, <1>2 DEF Adjacent
  <2>5. ASSUME NEW a \in Running', NEW b \in Running', a = p_prev[t], b = p_next[t],
               t # p_first, t # p_last
        PROVE  Adjacent(a, b)'
    BY <2>1, <2>2, <2>5, <1>1, <1>2, <1>6 DEF Adjacent
  \* Only the predecessor of t points forward to t, only its successor back to it.
  <2>6. ASSUME NEW u \in Running', u # p_last, u # p_prev[t]
        PROVE  p_next[u] \in Running' /\ Adjacent(u, p_next[u])
    <3>1. p_next[u] \in Running /\ Adjacent(u, p_next[u])
      BY <2>6, <1>1 DEF ListOrder
    <3>2. p_next[u] # t
      BY <2>2, <2>6, <3>1, <1>1, <1>6 DEF Adjacent
    <3>3. QED
      BY <3>1, <3>2, <1>1
  <2>7. ASSUME NEW u \in Running', u # p_first, u # p_next[t]
        PROVE  p_prev[u] \in Running' /\ Adjacent(p_prev[u], u)
    <3>1. p_prev[u] \in Running /\ Adjacent(p_prev[u], u)
      BY <2>7, <1>1 DEF ListOrder
    <3>2. p_prev[u] # t
      BY <2>1, <2>7, <3>1, <1>1, <1>6 DEF Adjacent
    <3>3. QED
      BY <3>1, <3>2, <1>1
  <2>8. Running' # {} =>
          /\ p_first' \in Running' /\ \A u \in Running' : m_id'[p_first'] <= m_id'[u]
          /\ p_last' \in Running' /\ \A u \in Running' : m_id'[u] <= m_id'[p_last']
    <3>1. ASSUME NEW u \in Running', p_first = t
          PROVE  p_next[t] \in Running' /\ m_id[p_next[t]] <= m_id[u]
      BY <3>1, <2>1, <2>2, <1>1, <1>6 DEF Adjacent
    <3>2. ASSUME NEW u \in Running', p_last = t
          PROVE  p_prev[t] \in Running' /\ m_id[u] <= m_id[p_prev[t]]
      BY <3>2, <2>1, <2>2, <1>1, <1>6 DEF Adjacent
    <3>3. QED
      BY <3>1, <3>2, <2>3, <1>1, <1>2, <1>3
  <2>9. Running' = {} => p_first' = NULL /\ p_last' = NULL
    BY <2>1, <2>2, <2>3, <1>1, <1>3
  <2>10. ASSUME NEW u \in Running'
         PROVE  IF u = p_last' THEN p_next'[u] = NULL
                ELSE p_next'[u] \in Running' /\ Adjacent(u, p_next[u])'
    <3>1. CASE u = p_prev[t]
      <4>1. t # p_first /\ p_next'[u] = p_next[t]
        BY <3>1, <2>2, <1>1, <1>2 DEF Running
      <4>2. CASE t = p_last
        BY <3>1, <4>1, <4>2, <2>1, <1>3
      <4>3. CASE t # p_last
        <5>1. PICK b \in Running' : b = p_next[t]
          BY <4>3, <2>1
        <5>2. Adjacent(u, b)'
          BY <3>1, <4>1, <4>3, <5>1, <2>5
        <5>3. u # p_last
          BY <3>1, <4>1, <4>3, <2>2, <2>3, <1>1, <1>6 DEF Adjacent
        <5>4. QED
          BY <4>1, <4>3, <5>1, <5>2, <5>3, <1>3
      <4>4. QED
        BY <4>2, <4>3
    <3>2. CASE u # p_prev[t]
      <4>1. p_next'[u] = p_next[u]
        BY <3>2, <1>2
      <4>2. CASE u = p_last
        BY <4>1, <4>2, <1>1, <1>2, <1>3 DEF ListOrder
      <4>3. CASE u # p_last
        <5>1. p_next[u] \in Running' /\ Adjacent(u, p_next[u])
          BY <3>2, <4>3, <2>6
        <5>2. PICK b \in Running' : b = p_next[u]
          BY <5>1
        <5>3. Adjacent(u, b)'
          BY <5>1, <5>2, <2>4
        <5>4. u # p_last'
          BY <3>2, <4>3, <1>3
        <5>5. QED
          BY <4>1, <5>2, <5>3, <5>4
      <4>4. QED
        BY <4>2, <4>3
    <3>3. QED
      BY <3>1, <3>2
  <2>11. ASSUME NEW u \in Running'
         PROVE  IF u = p_first' THEN p_prev'[u] = NULL
                ELSE p_prev'[u] \in Running' /\ Adjacent(p_prev[u], u)'
    <3>1. CASE u = p_next[t]
      <4>1. t # p_last /\ p_prev'[u] = p_prev[t]
        BY <3>1, <2>1, <1>1, <1>2 DEF Running
      <4>2. CASE t = p_first
        BY <3>1, <4>1, <4>2, <2>2, <1>3
      <4>3. CASE t # p_first
        <5>1. PICK a \in Running' : a = p_prev[t]
          BY <4>3, <2>2
        <5>2. Adjacent(a, u)'
          BY <3>1, <4>1, <4>3, <5>1, <2>5
        <5>3. u # p_first
          BY <3>1, <4>1, <4>3, <2>1, <2>3, <1>1, <1>6 DEF Adjacent
        <5>4. QED
          BY <4>1, <4>3, <5>1, <5>2, <5>3, <1>3
      <4>4. QED
        BY <4>2, <4>3
    <3>2. CASE u # p_next[t]
      <4>1. p_prev'[u] = p_prev[u]
        BY <3>2, <1>2
      <4>2. CASE u = p_first
        BY <4>1, <4>2, <1>1, <1>2, <1>3 DEF ListOrder
      <4>3. CASE u # p_first
        <5>1. p_prev[u] \in Running' /\ Adjacent(p_prev[u], u)
          BY <3>2, <4>3, <2>7
        <5>2. PICK a \in Running' : a = p_prev[u]
          BY <5>1
        <5>3. Adjacent(a, u)'
          BY <5>1, <5>2, <2>4
        <5>4. u # p_first'
          BY <3>2, <4>3, <1>3
        <5>5. QED
          BY <4>1, <5>2, <5>3, <5>4
      <4>4. QED
        BY <4>2, <4>3
    <3>3. QED
      BY <3>1, <3>2
  <2>12. Running' # {} => p_first' # NULL /\ p_last' # NULL
    BY <2>8, <1>2
  <2>13. QED
    BY <2>8, <2>9, <2>10, <2>11, <2>12 DEF ListOrder
<1>9. \A u \in Running' : IsWriter(u) => ~IsWriter(t)
  BY <1>1, <1>2 DEF WriterExclusion, Running
<1>10. m_last_write_committed_id <= m_last_write_committed_id'
       /\ m_last_write_committed_id' \in Nat
  BY <1>1, <1>3, <1>6
<1>11. SnapshotIsCommitted'
  <2>1. \A u \in Running' : ~IsWriter(u) => m_txversion[u] <= m_last_write_committed_id'
    BY <1>1, <1>2, <1>4, <1>10 DEF SnapshotIsCommitted, TypeOK
  <2>2. \A u \in Running' : IsWriter(u) => m_last_write_committed_id' = m_last_write_committed_id
    BY <1>3, <1>9
  <2>3. QED
    BY <2>1, <2>2, <1>1, <1>2 DEF SnapshotIsCommitted, IsWriter
<1>12. VersionOrder' /\ GcSafepoint'
  BY <1>1, <1>2 DEF VersionOrder, GcSafepoint, IsWriter
<1>13. LateReaders'
  <2>1. \A w \in Running' :
          IsWriter(w)' => m_last_write_committed_id' = m_last_write_committed_id
    BY <1>2, <1>3, <1>9 DEF IsWriter
  <2>2. QED
    BY <2>1, <1>1, <1>2 DEF LateReaders, IsWriter
<1>14. QED
  BY <1>4, <1>5, <1>7, <1>8, <1>11, <1>12, <1>13

\* The invariant holds after fdb_tx_init.
LEMMA TxInvInit == TxInit => TxInv
<1> SUFFICES ASSUME TxInit PROVE TxInv
  OBVIOUS
<1> USE TxAssumption DEF TxInit
<1>1. Running = {}
  BY DEF Running
<1>2. TypeOK
  BY DEF TypeOK, PC, TxType
<1>3. WriterExclusion
  BY DEF WriterExclusion
<1>4. QED
  BY <1>1, <1>2, <1>3
     DEF TxInv, IdOrder, ListOrder, SnapshotIsCommitted, VersionOrder, LateReaders,
         GcSafepoint

\* Every step of the transaction manager keeps the invariant.
LEMMA TxInvNext == TxInv /\ [TxNext]_txvars => TxInv'
<1> SUFFICES ASSUME TxInv, [TxNext]_txvars PROVE TxInv'
  OBVIOUS
<1> USE TxAssumption
<1>0. TypeOK /\ WriterExclusion
  BY DEF TxInv
<1>1. ASSUME NEW t \in Txs, BeginReadOnly(t) PROVE TxInv'
  BY <1>1, EnterStep DEF BeginReadOnly, TxType
<1>2. ASSUME NEW t \in Txs, BeginReadWrite(t) PROVE TxInv'
  <2>1. Running' = Running
    BY <1>0, <1>2 DEF BeginReadWrite, Running, TypeOK
  <2>2. TypeOK'
    BY <1>0, <1>2 DEF BeginReadWrite, TypeOK, PC, list, fields
  <2>3. WriterExclusion'
    BY <1>0, <1>2 DEF BeginReadWrite, WriterExclusion, IsWriter, TypeOK, fields
  <2>4. QED
    BY <2>1, <2>2, <2>3, <1>2, QuietStep DEF BeginReadWrite
<1>3. ASSUME NEW t \in Txs, LockWrite(t) PROVE TxInv'
  <2>1. Running' = Running
    BY <1>0, <1>3 DEF LockWrite, Running, TypeOK
  <2>2. TypeOK'
    BY <1>0, <1>3 DEF LockWrite, TypeOK, PC, list, fields
  <2>3. WriterExclusion'
    BY <1>0, <1>3 DEF LockWrite, WriterExclusion, IsWriter, TypeOK, fields
  <2>4. QED
    BY <2>1, <2>2, <2>3, <1>3, QuietStep DEF LockWrite
<1>4. ASSUME NEW t \in Txs, EnterReadWrite(t) PROVE TxInv'
  BY <1>4, EnterStep DEF EnterReadWrite, TxType
<1>5. ASSUME NEW t \in Txs, Commit(t) PROVE TxInv'
  BY <1>5, CommitStep
<1>6. ASSUME NEW t \in Txs, UnlockWrite(t) PROVE TxInv'
  <2>1. Running' = Running
    BY <1>0, <1>6 DEF UnlockWrite, Running, TypeOK
  <2>2. TypeOK'
    BY <1>0, <1>6 DEF UnlockWrite, TypeOK, PC, list, fields
  <2>3. WriterExclusion'
    BY <1>0, <1>6 DEF UnlockWrite, WriterExclusion, IsWriter, TypeOK, fields
  <2>4. QED
    BY <2>1, <2>2, <2>3, <1>6, QuietStep DEF UnlockWrite
<1>7. ASSUME NEW t \in Txs, TxLock(t) \/ TxUnlock(t) PROVE TxInv'
  <2>1. Running' = Running /\ TypeOK' /\ WriterExclusion'
    BY <1>0, <1>7 DEF TxLock, TxUnlock, Running, TypeOK, WriterExclusion, IsWriter, list, fields
  <2>2. QED
    BY <2>1, <1>7, QuietStep DEF TxLock, TxUnlock
<1>8. ASSUME Restart PROVE TxInv'
  <2>1. Running' = {}
    BY <1>8 DEF Restart, Running
  <2>2. TypeOK'
    BY <1>0, <1>8 DEF Restart, FreshManager, TypeOK, fields
  <2>3. WriterExclusion'
    BY <1>8 DEF Restart, FreshManager, WriterExclusion, IsWriter
  <2>4. QED
    BY <2>1, <2>2, <2>3, <1>8
       DEF Restart, FreshManager, TxInv, IdOrder, ListOrder, SnapshotIsCommitted,
           VersionOrder, LateReaders, GcSafepoint
<1>9. CASE UNCHANGED txvars
  <2>1. Running' = Running /\ TypeOK' /\ WriterExclusion'
    BY <1>0, <1>9 DEF txvars, Running, TypeOK, WriterExclusion, IsWriter
  <2>2. QED
    BY <2>1, <1>9, QuietStep DEF txvars, list, fields
<1>10. QED
  BY <1>1, <1>2, <1>3, <1>4, <1>5, <1>6, <1>7, <1>8, <1>9 DEF TxNext

---------------------------------------------------------------------------
\* The inductive invariant holds in every reachable state of the transaction manager.
THEOREM TxInvariant == TxSpec => []TxInv
  BY TxInvInit, TxInvNext, PTL DEF TxSpec

\* The variables keep the types the code declares (tx.c:8-13, tx.h:24-32).
THEOREM TxTypeCorrect == TxSpec => []TypeOK
<1>1. TxInv => TypeOK
  BY DEF TxInv
<1>2. QED
  BY <1>1, TxInvariant, PTL

\* Writers exclude each other: m_write_running is owned by the transaction that runs as a
\* writer, from its begin until after its commit (tx.c:44-47, tx.c:112-115).
THEOREM WritersExclude == TxSpec => []WriterExclusion
<1>1. TxInv => WriterExclusion
  BY DEF TxInv
<1>2. QED
  BY <1>1, TxInvariant, PTL

\* The doubly linked list is the running transactions in begin order, in both directions,
\* however begins and commits interleave (tx.c:61-74, tx.c:82-108).
THEOREM ListIsInOrder == TxSpec => []ListOrder
<1>1. TxInv => ListOrder
  BY DEF TxInv
<1>2. QED
  BY <1>1, TxInvariant, PTL

\* Readers see committed versions only, and the running writer is younger (tx.c:49-75).
THEOREM SnapshotsCommitted == TxSpec => []SnapshotIsCommitted
<1>1. TxInv => SnapshotIsCommitted
  BY DEF TxInv
<1>2. QED
  BY <1>1, TxInvariant, PTL

\* What a running writer collects lies below every version a running transaction reads,
\* those that begin after it included (tx.c:61-70).
THEOREM SafepointHolds == TxSpec => []GcSafepoint
<1>1. TxInv => GcSafepoint
  BY DEF TxInv
<1>2. QED
  BY <1>1, TxInvariant, PTL
===========================================================================
