-------------------------------- MODULE Tx --------------------------------
(***************************************************************************)
(* The transaction manager of the runtime, src/runtime/data/tx/tx.c.       *)
(*                                                                         *)
(* Transactions are read-only or read-write.  m_write_running is held by a *)
(* read-write transaction from its begin until after its commit, so that   *)
(* one of them runs at a time; m_mutex protects the doubly linked list of  *)
(* running transactions, the id counter and the last committed id.  A      *)
(* transaction carries the version it reads (m_txversion) and the version  *)
(* below which a read-write transaction may destroy data (m_ortxversion).  *)
(*                                                                         *)
(* Every access to the list and to the two counters lies between a lock    *)
(* and an unlock of m_mutex, so a critical section is one step; m_mutex is *)
(* kept as a variable because fdb_tx_lock gives it to the caller.          *)
(***************************************************************************)
EXTENDS Integers

CONSTANTS Txs,      \* the fdb_tx_t objects of the program, used again and again
          NULL,     \* the null pointer, and the owner of a free mutex
          MaxId     \* bound: no transaction is begun once m_next_id exceeds it

ASSUME TxAssumption ==
  /\ NULL \notin Txs
  /\ MaxId \in Nat

VARIABLES p_first, p_last,             \* ends of the list of running transactions
          p_next, p_prev,              \* its links, one pair per fdb_tx_t
          m_next_id,
          m_last_write_committed_id,
          m_mutex, m_write_running,    \* the owner of each mutex, or NULL
          m_id, m_txversion, m_ortxversion, m_tx_type,   \* the other fields of fdb_tx_t
          pc                           \* where the thread using each fdb_tx_t is

list == <<p_first, p_last, p_next, p_prev>>
fields == <<m_id, m_txversion, m_ortxversion, m_tx_type>>
txvars == <<p_first, p_last, p_next, p_prev, m_next_id, m_last_write_committed_id,
            m_mutex, m_write_running, m_id, m_txversion, m_ortxversion, m_tx_type, pc>>

TxType == {"E_READ_ONLY", "E_READ_WRITE"}

(***************************************************************************)
(* "lock_write": inside fdb_tx_begin, waiting for m_write_running.         *)
(* "begin":      owns m_write_running, waiting for m_mutex.                *)
(* "unlock":     the commit has left m_mutex, m_write_running still owned. *)
(***************************************************************************)
PC == {"idle", "lock_write", "begin", "running", "unlock"}

TypeOK ==
  /\ p_first \in Txs \cup {NULL}
  /\ p_last \in Txs \cup {NULL}
  /\ p_next \in [Txs -> Txs \cup {NULL}]
  /\ p_prev \in [Txs -> Txs \cup {NULL}]
  /\ m_next_id \in Nat
  /\ m_last_write_committed_id \in Nat
  /\ m_mutex \in Txs \cup {NULL}
  /\ m_write_running \in Txs \cup {NULL}
  /\ m_id \in [Txs -> Nat]
  /\ m_txversion \in [Txs -> Nat]
  /\ m_ortxversion \in [Txs -> Nat]
  /\ m_tx_type \in [Txs -> TxType]
  /\ pc \in [Txs -> PC]

Running == {t \in Txs : pc[t] = "running"}
IsWriter(t) == m_tx_type[t] = "E_READ_WRITE"

---------------------------------------------------------------------------
\* fdb_tx_init: what the manager holds before the first transaction, and after a restart.
FreshManager ==
  /\ p_first' = NULL /\ p_last' = NULL
  /\ m_next_id' = 1 /\ m_last_write_committed_id' = 0
  /\ m_mutex' = NULL /\ m_write_running' = NULL

TxInit ==
  /\ p_first = NULL /\ p_last = NULL
  /\ p_next = [t \in Txs |-> NULL] /\ p_prev = [t \in Txs |-> NULL]
  /\ m_next_id = 1 /\ m_last_write_committed_id = 0
  /\ m_mutex = NULL /\ m_write_running = NULL
  /\ m_id = [t \in Txs |-> 0] /\ m_txversion = [t \in Txs |-> 0]
  /\ m_ortxversion = [t \in Txs |-> 0]
  /\ m_tx_type = [t \in Txs |-> "E_READ_ONLY"]
  /\ pc = [t \in Txs |-> "idle"]

\* Mutant: a reader takes the newest id instead of the newest committed one.
SnapshotVersion_Uncommitted(type) ==
  IF type = "E_READ_WRITE" THEN m_next_id ELSE m_next_id - 1

\* The version a transaction that begins now reads: a writer also sees its own writes.
SnapshotVersion(type) ==
  IF type = "E_READ_WRITE" THEN m_next_id ELSE m_last_write_committed_id

\* Mutant: the safepoint ignores the transactions already running.
BeginSafepoint_IgnoresRunning == m_last_write_committed_id

\* Mutant: the version before the last committed one, which there may not be.
BeginSafepoint_OneBelow ==
  IF p_first = NULL THEN m_last_write_committed_id - 1 ELSE m_txversion[p_first]

\* The safepoint given to a transaction that begins now.
BeginSafepoint ==
  IF p_first = NULL THEN m_last_write_committed_id ELSE m_txversion[p_first]

\* The critical section of fdb_tx_begin: fill the fdb_tx_t, append it to the list.
Enter(t, type) ==
  /\ m_mutex = NULL
  /\ m_next_id' = m_next_id + 1
  /\ m_id' = [m_id EXCEPT ![t] = m_next_id]
  /\ m_tx_type' = [m_tx_type EXCEPT ![t] = type]
  /\ m_txversion' = [m_txversion EXCEPT ![t] = SnapshotVersion(type)]
  /\ m_ortxversion' = [m_ortxversion EXCEPT ![t] = BeginSafepoint]
  /\ p_first' = IF p_first = NULL THEN t ELSE p_first
  /\ p_last' = t
  /\ p_next' = [u \in Txs |-> CASE u = t -> NULL
                                [] u # t /\ u = p_last -> t
                                [] OTHER -> p_next[u]]
  /\ p_prev' = [p_prev EXCEPT ![t] = p_last]
  /\ pc' = [pc EXCEPT ![t] = "running"]
  /\ UNCHANGED <<m_last_write_committed_id, m_mutex, m_write_running>>

BeginReadOnly(t) ==
  /\ pc[t] = "idle"
  /\ m_mutex # t
  /\ m_next_id <= MaxId
  /\ Enter(t, "E_READ_ONLY")

BeginReadWrite(t) ==
  /\ pc[t] = "idle"
  /\ m_mutex # t
  /\ m_next_id <= MaxId
  /\ pc' = [pc EXCEPT ![t] = "lock_write"]
  /\ UNCHANGED <<list, m_next_id, m_last_write_committed_id, m_mutex, m_write_running,
                 fields>>

\* Mutant: the writer goes ahead without waiting for the running writer.
LockWrite_NoWait(t) ==
  /\ pc[t] = "lock_write"
  /\ m_write_running' = t
  /\ pc' = [pc EXCEPT ![t] = "begin"]
  /\ UNCHANGED <<list, m_next_id, m_last_write_committed_id, m_mutex, fields>>

LockWrite(t) ==
  /\ pc[t] = "lock_write"
  /\ m_write_running = NULL
  /\ m_write_running' = t
  /\ pc' = [pc EXCEPT ![t] = "begin"]
  /\ UNCHANGED <<list, m_next_id, m_last_write_committed_id, m_mutex, fields>>

EnterReadWrite(t) ==
  /\ pc[t] = "begin"
  /\ Enter(t, "E_READ_WRITE")

\* Mutant: the predecessor keeps pointing at the transaction that leaves.
UnlinkNext_Stale(t) == [p_next EXCEPT ![t] = NULL]

\* The links after t has left the list (t's own pointers are reset).
UnlinkNext(t) ==
  [u \in Txs |-> CASE u = t -> NULL
                   [] u # t /\ u = p_prev[t] -> p_next[t]
                   [] OTHER -> p_next[u]]
UnlinkPrev(t) ==
  [u \in Txs |-> CASE u = t -> NULL
                   [] u # t /\ u = p_next[t] -> p_prev[t]
                   [] OTHER -> p_prev[u]]

\* The critical section of fdb_tx_commit.  A committed fdb_tx_t is not read again before the
\* next begin fills it: the model forgets what it held.
Commit(t) ==
  /\ pc[t] = "running"
  /\ m_mutex = NULL
  /\ p_next' = UnlinkNext(t)
  /\ p_prev' = UnlinkPrev(t)
  /\ m_last_write_committed_id' =
       IF IsWriter(t) /\ m_id[t] > m_last_write_committed_id
       THEN m_id[t] ELSE m_last_write_committed_id
  /\ p_first' = IF p_first = t THEN p_next[t] ELSE p_first
  /\ p_last' = IF p_last = t THEN p_prev[t] ELSE p_last
  /\ pc' = [pc EXCEPT ![t] = IF IsWriter(t) THEN "unlock" ELSE "idle"]
  /\ m_id' = [m_id EXCEPT ![t] = 0]
  /\ m_txversion' = [m_txversion EXCEPT ![t] = 0]
  /\ m_ortxversion' = [m_ortxversion EXCEPT ![t] = 0]
  /\ m_tx_type' = [m_tx_type EXCEPT ![t] = "E_READ_ONLY"]
  /\ UNCHANGED <<m_next_id, m_mutex, m_write_running>>

\* Mutant: the commit returns without releasing m_write_running.
UnlockWrite_Forgotten(t) ==
  /\ pc[t] = "unlock"
  /\ pc' = [pc EXCEPT ![t] = "idle"]
  /\ UNCHANGED <<list, m_next_id, m_last_write_committed_id, m_mutex, m_write_running,
                 fields>>

UnlockWrite(t) ==
  /\ pc[t] = "unlock"
  /\ m_write_running' = NULL
  /\ pc' = [pc EXCEPT ![t] = "idle"]
  /\ UNCHANGED <<list, m_next_id, m_last_write_committed_id, m_mutex, fields>>

\* fdb_tx_lock, by the thread that uses t; it calls nothing but fdb_tx_unlock next.
TxLock(t) ==
  /\ pc[t] \in {"idle", "running"}
  /\ m_mutex = NULL
  /\ m_mutex' = t
  /\ UNCHANGED <<list, m_next_id, m_last_write_committed_id, m_write_running, fields, pc>>

TxUnlock(t) ==
  /\ m_mutex = t
  /\ m_mutex' = NULL
  /\ UNCHANGED <<list, m_next_id, m_last_write_committed_id, m_write_running, fields, pc>>

\* fdb_tx_release followed by fdb_tx_init: the list must be empty and no thread inside.
Restart ==
  /\ \A t \in Txs : pc[t] = "idle"
  /\ m_mutex = NULL
  /\ FreshManager
  /\ UNCHANGED <<p_next, p_prev, fields, pc>>

\* What fdb_txthread_ctx_gc takes, under m_mutex, for the oldest running version.
OldestRunningVersion ==
  IF p_first = NULL THEN m_last_write_committed_id ELSE m_txversion[p_first]

TxNext ==
  \/ \E t \in Txs :
       \/ BeginReadOnly(t)
       \/ BeginReadWrite(t)
       \/ LockWrite(t)
       \/ EnterReadWrite(t)
       \/ Commit(t)
       \/ UnlockWrite(t)
       \/ TxLock(t)
       \/ TxUnlock(t)
  \/ Restart

TxSpec == TxInit /\ [][TxNext]_txvars

(***************************************************************************)
(* Fairness.  A thread inside a call goes on (WF); a thread waiting for    *)
(* m_mutex is not passed over for ever by fdb_tx_lock/fdb_tx_unlock pairs  *)
(* of others (SF), and fdb_tx_lock is given back.  A transaction that runs *)
(* commits.  pthread mutexes promise no order among the writers that wait  *)
(* for m_write_running: only that one of them gets it when it is free.     *)
(***************************************************************************)
TxFairness ==
  /\ \A t \in Txs : /\ SF_txvars(EnterReadWrite(t))
                    /\ SF_txvars(Commit(t))
                    /\ WF_txvars(UnlockWrite(t))
                    /\ WF_txvars(TxUnlock(t))
  /\ WF_txvars(\E t \in Txs : LockWrite(t))

FairTxSpec == TxSpec /\ TxFairness

---------------------------------------------------------------------------
(***************************************************************************)
(* Properties.                                                             *)
(***************************************************************************)

\* m_write_running serialises the writers: the transaction that runs as a writer, or is on
\* its way in or out, is its owner, and a free mutex means that no writer is in the list
\* (tx.c:44-47 takes it before the list is entered, tx.c:112-115 returns it after).
WriterExclusion ==
  \A t \in Txs :
    m_write_running = t <=> \/ pc[t] \in {"begin", "unlock"}
                            \/ pc[t] = "running" /\ IsWriter(t)

\* No running transaction lies strictly between t and u in begin order.
Adjacent(t, u) ==
  /\ m_id[t] < m_id[u]
  /\ \A v \in Running : m_id[v] <= m_id[t] \/ m_id[u] <= m_id[v]

\* The doubly linked list holds exactly the running transactions in the order they began,
\* however begins and commits of any of them interleave (tx.c:61-74, tx.c:82-108).
ListOrder ==
  /\ p_first = NULL <=> Running = {}
  /\ p_last = NULL <=> Running = {}
  /\ Running # {} =>
       /\ p_first \in Running /\ \A t \in Running : m_id[p_first] <= m_id[t]
       /\ p_last \in Running /\ \A t \in Running : m_id[t] <= m_id[p_last]
  /\ \A t \in Running :
       /\ IF t = p_last THEN p_next[t] = NULL
                        ELSE p_next[t] \in Running /\ Adjacent(t, p_next[t])
       /\ IF t = p_first THEN p_prev[t] = NULL
                         ELSE p_prev[t] \in Running /\ Adjacent(p_prev[t], t)

\* What a running writer may destroy, the versions before m_ortxversion, no transaction
\* that runs beside it can read, the ones that begin after it included: fdb_tx_begin takes
\* m_ortxversion once (tx.c:61-70) and the writer uses it until it commits.
GcSafepoint ==
  \A w, t \in Running : IsWriter(w) => m_ortxversion[w] <= m_txversion[t]

\* A reader's version is one whose writer has committed, and the writer that runs beside it
\* is younger than that: no reader can see a write of a transaction still running.
SnapshotIsCommitted ==
  \A t \in Running :
    /\ ~IsWriter(t) => m_txversion[t] <= m_last_write_committed_id
    /\ IsWriter(t) => /\ m_last_write_committed_id < m_txversion[t]
                      /\ m_ortxversion[t] <= m_last_write_committed_id

\* Writers waiting in fdb_tx_begin are never all stuck: one of them comes to run, because
\* every writer that commits gives m_write_running back (tx.c:112-115).
SomeWriterProceeds ==
  (\E t \in Txs : pc[t] = "lock_write") ~> (\E t \in Txs : pc[t] = "running" /\ IsWriter(t))
===========================================================================
