------------------------------ MODULE TxPool ------------------------------
(***************************************************************************)
(* The transactional pool, src/runtime/data/tx/txpool_allocator.c, driven  *)
(* by the transactions of Tx.                                              *)
(*                                                                         *)
(* A reference points to a root block; the root starts a chain of version  *)
(* blocks, the youngest first.  Writers (one at a time) push versions,     *)
(* collapse the oldest one into the root and free what no transaction can  *)
(* read.  Readers walk the chain with no lock while this happens, so the   *)
(* stores of a writer that a reader can observe are steps of their own.    *)
(*                                                                         *)
(* Stores become visible in program order (what x86 gives, and what the    *)
(* barriers of the code are there for).  Debug assertions are compiled out *)
(* (FDB_ENABLE_ASSERTS is off by default); a client keeps to the ones that *)
(* state a precondition.  Liberties names what else it may do:             *)
(*   "gc_after_free"  collect garbage inside a writer that has freed a     *)
(*                    reference itself and is not the oldest transaction,  *)
(*   "gc_as_oldest"   the same inside the oldest: nothing in tx.h forbids  *)
(*                    it, and SnapshotReadable fails with it,              *)
(*   "free_pinned"    free a version that an assertion forbids to free.    *)
(***************************************************************************)
EXTENDS Tx, Sequences, FiniteSets

CONSTANTS Refs,       \* the references of the client
          Blocks,     \* the version blocks the pool can hand out (bound), a set of numbers
          Liberties   \* what a client may do on top of the plain calls, see above

ASSUME PoolAssumption ==
  /\ NULL \notin Refs /\ NULL \notin Blocks /\ NULL \notin Nat
  /\ NULL \notin [ref : Refs, block : Blocks, null : BOOLEAN]
  /\ Blocks \subseteq Nat /\ IsFiniteSet(Blocks)
  /\ Liberties \subseteq {"gc_after_free", "gc_as_oldest", "free_pinned"}

VARIABLES p_main,           \* the root block of each reference
          m_ts, p_data, p_next_version,   \* the fields of each block
          used,             \* the blocks handed out by the pool
          garbage,          \* the garbage list of the thread context used with each fdb_tx_t
          call,             \* what each thread is inside of
          held,             \* what the last fdb_txpool_alloc_ptr of each transaction returned
          hist              \* history: the writes to each reference, in order

blocks == <<m_ts, p_data, p_next_version, used>>
poolvars == <<p_main, blocks, garbage, call, held, hist>>
vars == <<txvars, poolvars>>

NoCall == [op |-> "none", then |-> "none", ref |-> NULL, root |-> NULL, at |-> NULL, orv |-> 0]

Calls == [op : {"none", "walk", "sever", "drop", "copy", "unlink", "reclaim", "ptr", "free"},
          then : {"none", "read", "write", "free", "sweep"},
          ref : Refs \cup {NULL}, root : Blocks \cup {NULL}, at : Blocks \cup {NULL}, orv : Nat]

\* The contents of a block's data: who wrote it last (0: nobody yet), or no data.
PoolTypeOK ==
  /\ p_main \in [Refs -> Blocks \cup {NULL}]
  /\ m_ts \in [Blocks -> Nat]
  /\ p_data \in [Blocks -> Nat \cup {NULL}]
  /\ p_next_version \in [Blocks -> Blocks \cup {NULL}]
  /\ used \subseteq Blocks
  /\ garbage \in [Txs -> Seq(Blocks)]
  /\ call \in [Txs -> Calls]
  /\ held \in [Txs -> {NULL} \cup [ref : Refs, block : Blocks, null : BOOLEAN]]
  /\ hist \in [Refs -> Seq([ver : Nat, val : Nat \cup {NULL}])]

---------------------------------------------------------------------------
\* Chains of versions.

Smallest(S) == CHOOSE n \in S : \A m \in S : n <= m
Largest(S) == CHOOSE n \in S : \A m \in S : m <= n

\* The blocks from b on.
ChainOf(next, b) ==
  LET from[x \in Blocks \cup {NULL}] == IF x = NULL THEN {} ELSE {x} \cup from[next[x]]
  IN from[b]
Chain(b) == ChainOf(p_next_version, b)

\* The walk that every operation begins with: the first version not younger than v.
WalkFrom(next, ts, b, v) ==
  LET walk[x \in Blocks \cup {NULL}] ==
        IF x = NULL THEN NULL ELSE IF ts[x] <= v THEN x ELSE walk[next[x]]
  IN walk[b]
YoungestAt(root, v) == WalkFrom(p_next_version, m_ts, p_next_version[root], v)

\* The version a transaction at v uses: the root when no other is old enough.
Visible(root, v) == IF YoungestAt(root, v) = NULL THEN root ELSE YoungestAt(root, v)

\* Which free block fdb_pool_alloc_alloc returns makes no difference here.
FreeBlocks == Blocks \ used
NewBlock == Smallest(FreeBlocks)
HasRoom == Cardinality(FreeBlocks) >= 2

\* The block fields after the blocks of S went back to the pool.
Release(S) ==
  /\ used' = used \ S
  /\ m_ts' = [b \in Blocks |-> IF b \in S THEN 0 ELSE m_ts[b]]
  /\ p_data' = [b \in Blocks |-> IF b \in S THEN NULL ELSE p_data[b]]
  /\ p_next_version' = [b \in Blocks |-> IF b \in S THEN NULL ELSE p_next_version[b]]

---------------------------------------------------------------------------
\* History: what the client stored, and so what a snapshot must show.

HistoryAt(r, v) ==
  LET old == {i \in DOMAIN hist[r] : hist[r][i].ver <= v}
  IN IF old = {} THEN NULL ELSE hist[r][Largest(old)].val

Record(r, v, val) ==
  hist' = [hist EXCEPT ![r] = IF Len(@) > 0 /\ @[Len(@)].ver = v
                              THEN [@ EXCEPT ![Len(@)].val = val]
                              ELSE Append(@, [ver |-> v, val |-> val])]

\* The client frees a reference at most once and does not follow one whose freeing its
\* snapshot already shows; a writer may still look at what it has freed itself.
FreedAt(r, v) ==
  /\ HistoryAt(r, v) = NULL
  /\ \E i \in DOMAIN hist[r] : hist[r][i].ver <= v

FreedEarlier(t, r) ==
  /\ FreedAt(r, m_txversion[t])
  /\ ~(IsWriter(t) /\ hist[r][Len(hist[r])].ver = m_txversion[t])

Idle(t) == call[t] = NoCall

---------------------------------------------------------------------------
\* fdb_txpool_alloc_alloc: a root with no data and a first version above it.
Alloc(t, r) ==
  LET root == NewBlock
      new == Smallest(FreeBlocks \ {root})
      v == m_txversion[t]
  IN /\ pc[t] = "running" /\ IsWriter(t) /\ Idle(t)
     /\ p_main[r] = NULL
     /\ HasRoom
     /\ used' = used \cup {root, new}
     /\ m_ts' = [m_ts EXCEPT ![root] = 0, ![new] = v]
     /\ p_data' = [p_data EXCEPT ![root] = NULL, ![new] = 0]
     /\ p_next_version' = [p_next_version EXCEPT ![root] = new, ![new] = NULL]
     /\ p_main' = [p_main EXCEPT ![r] = root]
     /\ Record(r, v, 0)
     /\ UNCHANGED <<garbage, call, held, txvars>>

\* fdb_txpool_alloc_ptr by a reader: root->p_next_version is read, then the walk.
ReaderStart(t, r) ==
  /\ pc[t] = "running" /\ ~IsWriter(t) /\ Idle(t)
  /\ p_main[r] # NULL /\ ~FreedEarlier(t, r)
  /\ call' = [call EXCEPT ![t] = [NoCall EXCEPT !.op = "walk", !.ref = r, !.root = p_main[r],
                                                !.at = p_next_version[p_main[r]]]]
  /\ UNCHANGED <<p_main, blocks, garbage, held, hist, txvars>>

\* Mutant: the reader gives up at the first version that is too young for it.
TooYoung_Never(t, b) == FALSE

\* The loop condition of the walk.
TooYoung(t, b) == b # NULL /\ m_ts[b] > m_txversion[t]

ReaderStep(t) ==
  /\ call[t].op = "walk"
  /\ TooYoung(t, call[t].at)
  /\ call' = [call EXCEPT ![t].at = p_next_version[@]]
  /\ UNCHANGED <<p_main, blocks, garbage, held, hist, txvars>>

Hold(t, r, b) ==
  held' = [held EXCEPT ![t] = [ref |-> r, block |-> b, null |-> p_data[b] = NULL]]

ReaderEnd(t) ==
  /\ call[t].op = "walk"
  /\ ~TooYoung(t, call[t].at)
  /\ Hold(t, call[t].ref, IF call[t].at = NULL THEN call[t].root ELSE call[t].at)
  /\ call' = [call EXCEPT ![t] = NoCall]
  /\ UNCHANGED <<p_main, blocks, garbage, hist, txvars>>

\* A call of a writer: first the reference is collected up to the writer's safepoint.
Collect(t, r, then) ==
  call' = [call EXCEPT ![t] = [op |-> "sever", then |-> then, ref |-> r, root |-> p_main[r],
                               at |-> NULL, orv |-> m_ortxversion[t]]]

\* fdb_txpool_alloc_ptr by a writer.
WriterPtr(t, r, then) ==
  /\ pc[t] = "running" /\ IsWriter(t) /\ Idle(t)
  /\ p_main[r] # NULL /\ ~FreedEarlier(t, r)
  /\ then = "write" => HasRoom /\ ~FreedAt(r, m_txversion[t])
  /\ Collect(t, r, then)
  /\ UNCHANGED <<p_main, blocks, garbage, held, hist, txvars>>

\* The versions fdb_txpool_alloc_free can take out: at or below the safepoint or the writer's
\* own (txpool_allocator.c:179 asserts it), and not one allocated by the same transaction (the
\* data pool would later be given the null pointer of its root).
Freeable(t, r) ==
  LET root == p_main[r]
      top == Visible(root, m_txversion[t])
  IN /\ "free_pinned" \in Liberties \/ m_ts[top] <= m_ortxversion[t] \/ m_ts[top] = m_txversion[t]
     /\ m_ts[top] < m_txversion[t] \/ p_data[root] # NULL

\* fdb_txpool_alloc_free.
Free(t, r) ==
  /\ pc[t] = "running" /\ IsWriter(t) /\ Idle(t)
  /\ p_main[r] # NULL /\ ~FreedAt(r, m_txversion[t])
  /\ HasRoom
  /\ Freeable(t, r)
  /\ Collect(t, r, "free")
  /\ UNCHANGED <<p_main, blocks, garbage, held, hist, txvars>>

---------------------------------------------------------------------------
\* fdb_txpool_alloc_gc, not forced, one step per store a reader can see.

Goto(t, op) == call' = [call EXCEPT ![t].op = op]

\* The youngest version not younger than the safepoint is cut from what follows it.
Sever(t) ==
  LET c == call[t]
      keep == YoungestAt(c.root, c.orv)
  IN /\ c.op = "sever"
     /\ IF keep # NULL /\ p_next_version[keep] # NULL
        THEN /\ p_next_version' = [p_next_version EXCEPT ![keep] = NULL]
             /\ call' = [call EXCEPT ![t].op = "drop", ![t].at = p_next_version[keep]]
        ELSE /\ Goto(t, "copy")
             /\ UNCHANGED p_next_version
     /\ UNCHANGED <<p_main, m_ts, p_data, used, garbage, held, hist, txvars>>

\* The older versions go back to the pool.
Drop(t) ==
  /\ call[t].op = "drop"
  /\ Release(Chain(call[t].at))
  /\ call' = [call EXCEPT ![t].op = "copy", ![t].at = NULL]
  /\ UNCHANGED <<p_main, garbage, held, hist, txvars>>

\* A single version is left and it is not younger than the safepoint.
Collapsible(root, orv) ==
  LET y == p_next_version[root]
  IN y # NULL /\ p_next_version[y] = NULL /\ m_ts[y] <= orv

\* Its data is copied into the root, or the root's data is freed if it is a tombstone.
Copy(t) ==
  LET c == call[t]
  IN /\ c.op = "copy"
     /\ IF Collapsible(c.root, c.orv)
        THEN /\ p_data' = [p_data EXCEPT ![c.root] = p_data[p_next_version[c.root]]]
             /\ Goto(t, "unlink")
        ELSE /\ Goto(t, "reclaim")
             /\ UNCHANGED p_data
     /\ UNCHANGED <<p_main, m_ts, p_next_version, used, garbage, held, hist, txvars>>

\* Mutant: the block taken out of the chain is freed at once.
Unlink_FreesNow(t) ==
  LET c == call[t]
      y == p_next_version[c.root]
  IN /\ c.op = "unlink"
     /\ m_ts' = [m_ts EXCEPT ![c.root] = m_ts[y], ![y] = 0]
     /\ p_next_version' = [p_next_version EXCEPT ![c.root] = NULL]
     /\ used' = used \ {y}
     /\ p_data' = [p_data EXCEPT ![y] = NULL]
     /\ Goto(t, "reclaim")
     /\ UNCHANGED <<p_main, garbage, held, hist, txvars>>

\* The root takes the version over; the block stays, as garbage, for readers still on it.
Unlink(t) ==
  LET c == call[t]
      y == p_next_version[c.root]
  IN /\ c.op = "unlink"
     /\ m_ts' = [m_ts EXCEPT ![c.root] = m_ts[y]]
     /\ p_next_version' = [p_next_version EXCEPT ![c.root] = NULL]
     /\ garbage' = [garbage EXCEPT ![t] = <<y>> \o @]
     /\ Goto(t, "reclaim")
     /\ UNCHANGED <<p_main, p_data, used, held, hist, txvars>>

\* A block with no data, no younger version and a ts below the safepoint is freed.
Reclaimable(root, orv) ==
  p_data[root] = NULL /\ p_next_version[root] = NULL /\ m_ts[root] < orv

Position(s, b) == Smallest({i \in DOMAIN s : s[i] = b})
Without(s, b) == [i \in 1..(Len(s) - 1) |-> s[IF i < Position(s, b) THEN i ELSE i + 1]]

\* The entry of fdb_txthread_ctx_gc's list after b, or the end of the sweep.
SweepOn(t, b) ==
  LET i == Position(garbage[t], b)
  IN IF i < Len(garbage[t])
     THEN [call[t] EXCEPT !.op = "sever", !.root = garbage[t][i + 1]]
     ELSE NoCall

\* Mutant: the entry of a freed block stays in the list.
ForgetEntry_Kept(t, b) == garbage

\* fdb_txthread_ctx_gc unlinks and frees the entry of a block that has been freed.
ForgetEntry(t, b) == [garbage EXCEPT ![t] = Without(@, b)]

\* End of the collection: back to the operation it was called from.  In a sweep the client
\* drops its reference once the collection has reported the root as freed.
Reclaim(t) ==
  LET c == call[t]
      next == IF c.then = "sweep" THEN SweepOn(t, c.root)
              ELSE [c EXCEPT !.op = IF c.then = "free" THEN "free" ELSE "ptr"]
  IN /\ c.op = "reclaim"
     /\ call' = [call EXCEPT ![t] = next]
     /\ IF Reclaimable(c.root, c.orv)
        THEN /\ Release({c.root})
             /\ garbage' = IF c.then = "sweep" THEN ForgetEntry(t, c.root) ELSE garbage
             /\ p_main' = [r \in Refs |-> IF p_main[r] = c.root THEN NULL ELSE p_main[r]]
        ELSE UNCHANGED <<blocks, garbage, p_main>>
     /\ UNCHANGED <<held, hist, txvars>>

---------------------------------------------------------------------------
\* The rest of fdb_txpool_alloc_ptr for a writer that reads.
WriterRead(t) ==
  LET c == call[t]
  IN /\ c.op = "ptr" /\ c.then = "read"
     /\ Hold(t, c.ref, Visible(c.root, m_txversion[t]))
     /\ call' = [call EXCEPT ![t] = NoCall]
     /\ UNCHANGED <<p_main, blocks, garbage, hist, txvars>>

\* Mutant: the writer stores into the committed version.
NeedsCopy_Never(t, b) == FALSE

\* Mutant: every write makes a copy, the second one of a transaction as well.
NeedsCopy_Always(t, b) == TRUE

\* A version older than the writer's own is copied before it is written.
NeedsCopy(t, b) == m_ts[b] < m_txversion[t]

\* For a writer that writes: the new block is complete before it is linked, so one step.
\* The client then stores its id through the pointer.
WriterWrite(t) ==
  LET c == call[t]
      v == m_txversion[t]
      old == Visible(c.root, v)
      b == IF NeedsCopy(t, old) THEN NewBlock ELSE old
  IN /\ c.op = "ptr" /\ c.then = "write"
     /\ p_data' = [p_data EXCEPT ![b] = m_id[t]]
     /\ Record(c.ref, v, m_id[t])
     /\ IF NeedsCopy(t, old)
        THEN /\ used' = used \cup {b}
             /\ m_ts' = [m_ts EXCEPT ![b] = v]
             /\ p_next_version' = [p_next_version EXCEPT
                                     ![b] = IF old = c.root THEN NULL ELSE old,
                                     ![c.root] = b]
        ELSE UNCHANGED <<used, m_ts, p_next_version>>
     /\ held' = [held EXCEPT ![t] = [ref |-> c.ref, block |-> b, null |-> FALSE]]
     /\ call' = [call EXCEPT ![t] = NoCall]
     /\ UNCHANGED <<p_main, garbage, txvars>>

\* The version fdb_txpool_alloc_free takes out.
FreeCandidate(root) == IF p_next_version[root] = NULL THEN root ELSE p_next_version[root]

\* Mutant: the tombstone goes on top of the root whatever the chain holds.
Tombstone_DropsChain(t, cand, root, new) ==
  /\ used' = used \cup {new}
  /\ m_ts' = [m_ts EXCEPT ![new] = m_txversion[t]]
  /\ p_data' = [p_data EXCEPT ![new] = NULL, ![root] = NULL]
  /\ p_next_version' = [p_next_version EXCEPT ![new] = NULL, ![root] = new]

\* A committed version at or below the safepoint gets a version without data above it.
Tombstone(t, cand, root, new) ==
  /\ used' = used \cup {new}
  /\ m_ts' = [m_ts EXCEPT ![new] = m_txversion[t]]
  /\ p_data' = [p_data EXCEPT ![new] = NULL]
  /\ p_next_version' = [p_next_version EXCEPT
                          ![new] = IF cand = root THEN NULL ELSE p_next_version[cand],
                          ![root] = new]

\* The rest of fdb_txpool_alloc_free: a tombstone, or the version's data is freed in place.
FreeEnd(t) ==
  LET c == call[t]
      cand == FreeCandidate(c.root)
  IN /\ c.op = "free"
     /\ IF m_ts[cand] <= m_ortxversion[t]
        THEN Tombstone(t, cand, c.root, NewBlock)
        ELSE /\ p_data' = [p_data EXCEPT ![cand] = NULL]
             /\ UNCHANGED <<used, m_ts, p_next_version>>
     /\ garbage' = [garbage EXCEPT ![t] = <<c.root>> \o @]
     /\ Record(c.ref, m_txversion[t], NULL)
     /\ held' = [held EXCEPT ![t] = NULL]
     /\ call' = [call EXCEPT ![t] = NoCall]
     /\ UNCHANGED <<p_main, txvars>>

---------------------------------------------------------------------------
\* Mutant: the newest id stands for the oldest running version.
SweepVersion_Newest == m_next_id

\* The safepoint of fdb_txthread_ctx_gc, read under m_mutex and used after its release.
SweepVersion == OldestRunningVersion

\* The running writer t has freed a reference itself.  When t is the oldest transaction, the
\* safepoint of a sweep is its own id and so is the version of that free, not committed yet.
HasFreed(t) == \E r \in Refs : FreedAt(r, m_txversion[t]) /\ ~FreedEarlier(t, r)

\* fdb_txthread_ctx_gc(ctx, false), inside a transaction or between two.
CtxGc(t) ==
  /\ Idle(t) /\ garbage[t] # <<>> /\ m_mutex = NULL
  /\ pc[t] \in {"idle", "running"}
  /\ pc[t] = "running" /\ IsWriter(t) /\ HasFreed(t) =>
       (IF p_first = t THEN "gc_as_oldest" ELSE "gc_after_free") \in Liberties
  /\ call' = [call EXCEPT ![t] = [NoCall EXCEPT !.op = "sever", !.then = "sweep",
                                                !.root = Head(garbage[t]), !.orv = SweepVersion]]
  /\ UNCHANGED <<p_main, blocks, garbage, held, hist, txvars>>

\* Mutant: a forced collection frees the blocks of the list, not the chains behind them.
ForceSet_Roots(t) == {garbage[t][i] : i \in DOMAIN garbage[t]}

\* What a forced collection frees: the whole chain of every entry.
ForceSet(t) == UNION {Chain(garbage[t][i]) : i \in DOMAIN garbage[t]}

\* fdb_txthread_ctx_gc(ctx, true): m_mutex is held throughout, and no transaction may run
\* (txpool_allocator.h:148).
CtxGcForce(t) ==
  /\ \A u \in Txs : Idle(u)
  /\ pc[t] = "idle" /\ Running = {} /\ m_mutex = NULL
  /\ garbage[t] # <<>>
  /\ Release(ForceSet(t))
  /\ p_main' = [r \in Refs |-> IF p_main[r] \in ForceSet(t) THEN NULL ELSE p_main[r]]
  /\ garbage' = [garbage EXCEPT ![t] = <<>>]
  /\ UNCHANGED <<call, held, hist, txvars>>

\* Everything is released and initialised again: contexts (their garbage must be empty),
\* the pool (which frees its memory wholesale) and the transaction manager.
PoolRestart ==
  /\ Restart
  /\ \A t \in Txs : Idle(t) /\ garbage[t] = <<>>
  /\ p_main' = [r \in Refs |-> NULL]
  /\ Release(Blocks)
  /\ hist' = [r \in Refs |-> <<>>]
  /\ UNCHANGED <<garbage, call, held>>

---------------------------------------------------------------------------
\* The ids not yet given out nor claimed by a writer on its way in (bound).
IdsLeft == MaxId + 1 - m_next_id - Cardinality({t \in Txs : pc[t] \in {"lock_write", "begin"}})

\* The transaction manager's steps, by a thread that is inside no call of the pool.  One
\* writer waits at a time: how more of them queue is the business of Tx.
Manager(t) ==
  /\ Idle(t)
  /\ \/ IdsLeft > 0 /\ BeginReadOnly(t)
     \/ IdsLeft > 0 /\ (\A u \in Txs : pc[u] # "lock_write") /\ BeginReadWrite(t)
     \/ LockWrite(t) \/ EnterReadWrite(t) \/ UnlockWrite(t)
  /\ UNCHANGED poolvars

\* The pointers of a transaction are not used after its commit.
PoolCommit(t) ==
  /\ Idle(t)
  /\ Commit(t)
  /\ held' = [held EXCEPT ![t] = NULL]
  /\ UNCHANGED <<p_main, blocks, garbage, call, hist>>

PoolInit ==
  /\ TxInit
  /\ p_main = [r \in Refs |-> NULL]
  /\ m_ts = [b \in Blocks |-> 0]
  /\ p_data = [b \in Blocks |-> NULL]
  /\ p_next_version = [b \in Blocks |-> NULL]
  /\ used = {}
  /\ garbage = [t \in Txs |-> <<>>]
  /\ call = [t \in Txs |-> NoCall]
  /\ held = [t \in Txs |-> NULL]
  /\ hist = [r \in Refs |-> <<>>]

PoolNext ==
  \/ \E t \in Txs :
       \/ Manager(t) \/ PoolCommit(t)
       \/ \E r \in Refs : \/ Alloc(t, r) \/ Free(t, r) \/ ReaderStart(t, r)
                          \/ WriterPtr(t, r, "read") \/ WriterPtr(t, r, "write")
       \/ ReaderStep(t) \/ ReaderEnd(t)
       \/ Sever(t) \/ Drop(t) \/ Copy(t) \/ Unlink(t) \/ Reclaim(t)
       \/ WriterRead(t) \/ WriterWrite(t) \/ FreeEnd(t)
       \/ CtxGc(t) \/ CtxGcForce(t)
  \/ PoolRestart

PoolSpec == PoolInit /\ [][PoolNext]_vars

---------------------------------------------------------------------------
(***************************************************************************)
(* Properties.                                                             *)
(***************************************************************************)

\* Whatever a writer is in the middle of, every running transaction that follows a
\* reference now finds the value its snapshot holds: the last one stored by a transaction
\* not younger than its version, or nothing before the allocation (txpool_allocator.c:191-277
\* against the stores of 280-378, 97-116 and 142-183).
SnapshotReadable ==
  \A t \in Running, r \in Refs :
    FreedAt(r, m_txversion[t]) \/
    HistoryAt(r, m_txversion[t]) =
      IF p_main[r] = NULL THEN NULL ELSE p_data[Visible(p_main[r], m_txversion[t])]

\* A reader in the middle of its walk has not lost the version it looks for: from where it
\* stands it still reaches its value, although writers move and unlink blocks under it.
WalkKeepsSnapshot ==
  \A t \in Txs :
    LET c == call[t]
        v == m_txversion[t]
        rest == IF c.at = NULL THEN c.root
                ELSE IF m_ts[c.at] <= v THEN c.at
                ELSE IF YoungestAt(c.at, v) = NULL THEN c.root ELSE YoungestAt(c.at, v)
    IN c.op = "walk" => p_data[rest] = HistoryAt(c.ref, v)

\* Nothing that can still be followed has gone back to the pool: chains, cursors of readers,
\* pointers handed to clients, blocks being collected, entries of the garbage lists.
NoDangling ==
  /\ \A r \in Refs : p_main[r] # NULL => Chain(p_main[r]) \subseteq used
  /\ \A t \in Txs :
       /\ {call[t].root, call[t].at} \ {NULL} \subseteq used
       /\ held[t] # NULL => held[t].block \in used
       /\ \A i \in DOMAIN garbage[t] : Chain(garbage[t][i]) \subseteq used

\* Timestamps strictly decrease along a chain, and the root's is below all of them, at every
\* step of a writer: every walk stops at the first version that is old enough, and is right
\* only for that reason (the invariant asserted at txpool_allocator.c:218 and 314).
ChainOrder ==
  \A r \in Refs : p_main[r] # NULL =>
    \A b \in Chain(p_main[r]) \ {p_main[r]} :
      /\ m_ts[b] > m_ts[p_main[r]]
      /\ p_next_version[b] # NULL => m_ts[b] > m_ts[p_next_version[b]]

\* Every block the pool has handed out can be reached from a reference or from a garbage
\* list, or is being freed: none is leaked for good.
NoLeak ==
  used \subseteq (UNION {Chain(p_main[r]) : r \in {x \in Refs : p_main[x] # NULL}})
                 \cup (UNION {ForceSet(t) : t \in Txs})
                 \cup (UNION {Chain(call[t].at) : t \in {x \in Txs : call[x].op = "drop"}})

\* A forced collection frees every block once: no two entries share one.
GarbageDisjoint ==
  \A t, u \in Txs : \A i \in DOMAIN garbage[t], j \in DOMAIN garbage[u] :
    <<t, i>> # <<u, j>> => Chain(garbage[t][i]) \cap Chain(garbage[u][j]) = {}

\* The data pool is never given a null pointer to free: fdb_pool_alloc_free writes through
\* it (txpool_allocator.c:358 when the tombstone collapses).
NeverFreesNull ==
  \A t \in Txs :
    LET c == call[t]
    IN c.op = "copy" /\ Collapsible(c.root, c.orv) /\ p_data[p_next_version[c.root]] = NULL
         => p_data[c.root] # NULL
\* Memory is never followed after it was freed, and nothing but memory is freed.
MemorySafe == NoDangling /\ NeverFreesNull

\* The shape of chains and garbage lists that every walk and every collection relies on:
\* ordered, complete, and without a block in two places.
ChainsSound == ChainOrder /\ NoLeak /\ GarbageDisjoint

---------------------------------------------------------------------------
(***************************************************************************)
(* The pool implements the snapshot store.  The committed state and the    *)
(* snapshots are read off the history, what a pointer shows off the memory *)
(* it points to.                                                           *)
(***************************************************************************)
StoreDb == [r \in Refs |-> HistoryAt(r, m_last_write_committed_id)]

StoreMode ==
  [t \in Txs |-> IF pc[t] # "running" THEN "idle" ELSE IF IsWriter(t) THEN "writer" ELSE "reader"]

StoreView ==
  [t \in Txs |-> [r \in Refs |-> IF pc[t] # "running" THEN NULL ELSE HistoryAt(r, m_txversion[t])]]

\* What the pointer handed to t shows; a null pointer shows nothing.
Shown(t) == IF held[t].null THEN NULL ELSE p_data[held[t].block]

StoreOut ==
  [t \in Txs |-> IF held[t] = NULL THEN NULL ELSE [ref |-> held[t].ref, val |-> Shown(t)]]

Store == INSTANCE SnapshotStore WITH
  Absent <- NULL, Vals <- 0..MaxId,
  db <- StoreDb, mode <- StoreMode, view <- StoreView, out <- StoreOut

\* With the client that keeps the preconditions, transactions that use the pool (txpool_allocator.c
\* and tx.c) cannot tell it from a store that gives each a copy of the committed state and puts the
\* writer's copy in place at its commit.
ImplementsStore == Store!StoreSpec
===========================================================================
