# A specification of furious

furious is a data-oriented entity-component library. An application links the runtime (C:
`src/runtime`, `src/common`) and describes its systems in a C++ script that `fcc`
(`src/compiler`) compiles into loops over component tables. These modules describe the
runtime and the compiler's decisions in TLA+; TLC checks them on small instances and TLAPS
proves some of the results for all sizes. Paths below are relative to the repository.

    tlc -workers 2 -config MCTx.cfg MCTx            # one run; the .cfg names the module's instance
    tlapm TxProofs.tla                              # the proofs of one module

## 1. Inventory

| component | files | state | operations | interacts with |
|---|---|---|---|---|
| tables | `src/runtime/data/table.c` | blocks of 256 entities with `m_exists`/`m_enabled` bitmaps, counters, a mutex | create, destroy, enable, disable, clear, iterate | database, generated loops |
| tag and reference tables | `bittable.c`, `reftable.c` | bitmaps per block and their count; a table of heads | add, remove, union, difference | database, recursive queries |
| database | `database.c` | trees of tables, tags, references, globals; `m_mutex` | create/find/remove, clear an entity, tag, globals, clear, release | all of the data |
| webserver | `webserver/webserver.c` | `m_running`, the buffer of table infos, a thread | start, stop, report | reads the database beside the application |
| transaction manager | `tx/tx.c` | list of running transactions, id counter, last committed id, two mutexes | begin, commit, lock/unlock, collect a context's garbage | the versioned pool |
| versioned pool | `tx/txpool_allocator.c` | version chains per reference, garbage lists | alloc, free, ptr, gc | transactions; lock-free readers |
| task graph | `src/runtime/task/task.c` | parent and child arrays per task | insert, link, run a frame | generated code |
| execution plan | `src/compiler/frontend/exec_plan.cpp` | statements, parents, children | insert, cycle check, print a sequence | task graph through `codegen.cpp` |
| script reader | `drivers/clang/*.cpp`, `fcc_context.cpp` | the statement being collected | one handler per call of the chain, validation | queries, execution plan |
| queries | `operator.cpp`, `producer.cpp`, `consumer.cpp`, `block_cluster.c`, `data_utils.c`, `ht_registry.c` | operator trees; block clusters; hash tables, frontiers and blacklists of each thread | scan, join, filter, gather, cascade, foreach | tables, tag and reference tables, barrier |
| B-tree, hash table, bitmap | `src/common` | nodes; buckets; words | insert, remove, iterate; set operations | under everything above |
| allocators | `src/common/memory` | pages, free lists, stack frames | alloc, free, flush, pop | under everything above |
| printers, generated declarations, reflection, log, wrappers | rest of `src/compiler`, `src/common`, `src/runtime` | - | no behaviour of their own, or libclang's | - |

What is hard, and what makes each part right:

* **Concurrency.** Readers of the pool walk version chains without a lock while one writer
  pushes, collapses, unlinks and frees; the safepoint a collection uses is read once and used
  later. Right when every snapshot stays readable and no block is lost, freed twice or freed
  under a reader. The webserver's thread reports the tables while the application changes
  them. Right when a report stays in its buffer and the server can be stopped.
* **Ordering.** Systems that share components must run in the same order whatever the order
  of the script; the order is decided pairwise at compile time, checked by a depth-first
  search, copied by generated code into fixed arrays and recomputed in every frame.
* **Long sequences of calls.** Components are created, disabled, enabled, destroyed and
  cleared in tables that only know bits: what is constructed must be destructed, and what is not
  there must be left alone, as far as the code does so. B-tree and allocators have the same
  character.
* **Liveness.** A waiting writer gets in, a frame ends with every system called, stopping
  the server returns.

* **Threads that share a query.** The generated loops take a chunk size, an offset, a stride
  and a barrier. Each thread works on its blocks; where references are followed it reads the
  other threads' hash tables and frontiers, ordered by barriers only. Right when a system
  runs once on each match, whichever thread finds it, and every query ends.

`PROJECT.json` lists each hazard at its line with the properties that cover it; a hazard
that no module reaches yet carries a note.

## 2. Modules

    Tx                    transaction manager           TxProofs
    TxPool   EXTENDS Tx   versioned pool on top of it   SnapshotStore (what it promises);
                          TxPoolInv, TxPoolProofs, StoreProofs
    TaskGraph             arrays and run of a frame
    ExecPlan EXTENDS TaskGraph   from a script to the calls of a frame
                                 ExecPlanProofs (of both)
    Table                 tables and tag tables as values (no variables)
    Database EXTENDS Table       the database, the application, the webserver's thread
                                 DatabaseProofs
    Plan                         from the chain of calls of a script to an operator tree
    Blocks                       which thread has which block
    Barrier  EXTENDS Blocks      how generated code waits
    Query    EXTENDS Plan, Barrier   the generated loops, thread by thread
                                     QueryProofs (of Blocks, Barrier and Query)
    BTree                        the B-tree, node by node
    Memory                       page, pool and stack allocator   MemoryProofs
    MC*                          instances for TLC

**Tx** (`tx.c`). Variables carry the names of the globals and of the fields of `fdb_tx_t`.
Every access to the list and the counters lies between a lock and an unlock of `m_mutex`,
so a critical section is one action: `Enter` (from `BeginReadOnly` and `EnterReadWrite`),
`Commit`. `m_write_running` is taken before (`LockWrite`) and returned after it
(`UnlockWrite`) in steps of their own, since others run between. `TxLock`/`TxUnlock` are the
public pair around `m_mutex`.

**TxPool** (`txpool_allocator.c` and `fdb_txthread_ctx_gc`). A store a concurrent reader
can observe is a step: a writer's collection is `Sever` -> `Drop` -> `Copy` -> `Unlink` ->
`Reclaim`, a reader's walk is one step per version. What was begun is recorded in `call`.
`hist` (history) is the sequence of writes; `held` is the pointer each transaction was last
given. `CtxGc` sweeps one entry of a garbage list per round; `CtxGcForce` is the forced
collection. `Liberties` says which of three things the client does: sweep inside a writer that
has freed a reference itself, when it is not the oldest transaction (`gc_after_free`) and when it
is (`gc_as_oldest`), and free a version that an assertion forbids to free (`free_pinned`).

**SnapshotStore** is the promise: a transaction works on the state committed when it began,
one writes at a time, its writes appear at once, and a pointer keeps showing its value.
`TxPool!ImplementsStore` maps the pool to it: committed state and views from the history,
and what a pointer shows from the memory it points to, so that a block freed or overwritten
under a reader is a step the store does not have.

**TaskGraph** (`task.c`). The words of a `fdb_task_t` are modelled as an array in the
order of the struct, because the code writes `m_children` without a bound: a write past the
array reaches `m_num_parents`. A frame is `BeginRun`, then a pass over the tasks
(`PickTask`, `EndPass`) and the frontier loop (`RunTask`, `QueueChild`, `NextTask`,
`NextFrontier`). `executed` is the history of calls.

**ExecPlan** (`exec_plan.cpp`, part of `codegen.cpp` and `fcc_context.cpp`). `Insert` draws
the edges of a new statement both ways, `CheckPlan` is the depth-first search with departure
times, `ValidExecSequence` the order fcc prints, `Generate` the calls of the generated
`furious_init`, `Frame` a step of `fdb_task_graph_run` on the arrays these calls filled.

**Table** and **Database** (`table.c`, `bittable.c`, `reftable.c`, `database.c`,
`webserver.c`). A table is a record of its blocks, two sets for its bitmaps and its counter.
Each call of the application is one action: the server touches the contents only under
`m_mutex`, so nothing can be seen between the stores of a call. The server's thread is
`ServerAccept` -> `ServerRead` -> `CountTables` -> `Grow` -> `BeginMetadata` -> `NextInfo`
per table -> `EndMetadata` -> `Reply`, with `m_mutex` held from `BeginMetadata` to
`EndMetadata`. Stopping is `StopServer` -> `Join` -> `FreeInfos`; `BeginRelease` -> `Join` ->
`Release` is `fdb_database_release`. The calls have no condition but that there is a table:
components that do not exist are enabled and destroyed, and tables are cleared whatever they
show. `live` (history) is the set of slots that hold a constructed object with a destructor,
`destructed` (history) what the destructors ran on in the last step; `GivesUp` keeps the two
apart, since the code clears slots it does not destruct and destructs slots that are empty.

**Plan** (`clang_parsing.cpp`, `ast_visitor.cpp`, `fcc_context.cpp`, `operator.cpp`, and
what the generator refuses). A script is its chain of calls; the visitor meets the last one
first (`VisitCall`, one disjunct per handler) and fills a `fcc_stmt_t`. `ValidateStmt` is
`fcc_validate`, `PlanMatch` one round of the loop of `subplan_init` (the last entity match
first), `PlanForeach` its end, `GenerateCode` the checks of `producer.cpp` and
`consumer.cpp`. Operators are records that hold their children.

**Blocks** and **Barrier** are the small pieces the threads rely on: `is_selected` and
`block_get_offset` of `table.c`, and `last_barrier += stride; p_wait(...)` of the generated
code on a barrier that counts calls (`task.h`; the repository has no implementation of
`p_wait`, and `Passed` is what the generated code takes it to do).

**Query** (`producer.cpp`, `consumer.cpp`, `block_cluster.c`, `data_utils.c`,
`ht_registry.c`). A block cluster is its start, its enabled entities and its columns, each of
which knows whose components it leads to. `Produce` is what an operator hands to its parent,
as a sequence of clusters. Between two barriers a thread touches nothing another thread
reads, so the code between them is one step: `RegisterHashTable` -> `ProduceChild` |
`LookUpHashTables` -> `GatherRefs` -> `ConsumeTemp` | `Release` for a gather (| is a
barrier), `CascadeRefs` | `CollectFrontiers` | `BroadcastRoots` | then `Wave` |
`MergeFrontiers` | in rounds for a cascade. A query without a gather is one step,
`RunLocal`. `world` is the state of the tables, fixed while the query runs; `calls`
(history) is what the system was called with. The recursions over the tree are functions of
the path from its root (`OperatorAt`).

**BTree** (`btree.c`). The heap of nodes is part of the state, because what goes wrong in
this code are nodes that are freed and still pointed to. An operation is one action;
recursive functions of the code are recursive operators. Between operations nodes are
renumbered and unread fields blanked (`Renumbered`), which makes the states finite.

**Memory** (`page_allocator.c`, `pool_allocator.c`, `stack_allocator.c`). One page
allocator over a region, a pool and a stack that draw pages from it, and large pages from the
region's end. A call is one action: each allocator holds its mutex throughout. `taken`
(history) is what the stack has taken and not given back.

Abstractions, beyond leaving out payloads and wording:

* Memory: stores of one thread become visible in program order (x86, and what the barriers
  in `txpool_allocator.c` are for). In the modules that use them the allocators return
  fresh memory and the B-tree is a map that iterates in the order of its keys, which Memory
  and BTree check (and show where BTree does not keep it); a name stands for its hash.
* A predicate of a script is the set of entities it holds of. The task of a query is called
  by `fdb_task_graph_run` with one thread (1, 0, 1, no barrier); the generated code is written
  for several, and is checked with two.
* Assertions are compiled out unless `FDB_ENABLE_ASSERTS` is set. One that states a
  precondition of the client is a guard. `Liberties` of TxPool lifts chosen guards: that is how
  `txpool_pinned` reaches the code behind one. Two guards of TxPool are no assertions of the
  code: the one on `gc_as_oldest` (CtxGc) and that nothing is freed by the transaction that
  allocated it (`Freeable`). Both are among the disagreements below.
* The application calls the database from one thread: no client in the repository uses two,
  and `fdb_table_create_component` takes no lock.
* `fcc` builds one plan for the frame and one for the post-frame the same way; one is
  modelled. `m_roots` of the task graph is written and never read by a run, and left out.

## 3. Runs

| run | instance | states | time (2 workers) | shows |
|---|---|---|---|---|
| `tx` | 3 transactions, ids up to 3 | 5,652 | 6 s | list order, exclusion of writers, safepoints and snapshots, writers get in |
| `txpool` | 3 transactions (symmetric), 1 reference, 6 blocks, ids up to 4, `gc_after_free` | 345,814 | 1 min | snapshots stay readable store by store, nothing dangles, leaks or is freed twice; `SnapshotStore` is implemented |
| `txpool_pinned` | ids up to 5, `free_pinned` | violation | | a free above the safepoint destroys a committed version a reader sees |
| `exec_plan` | every script of 4 statements out of 16 over 2 types, arrays of 3 links | 426,399 | 1 min | conflicting systems ordered, cycle check right, the frame is the printed plan and completes |
| `database` | 2 tables (one with a destructor), 2 entities in a block with 3 rows, a tag, a reference, a global | 155,618 | 35 s | tables show what was constructed and not destructed since; only disabled components are lost; empty slots are touched only when named; reports fit; stop returns |
| `database_clear_entity` | the second entity has no row | violation | | clearing an entity runs a destructor where it has no component |
| `btree` | 6 keys, 4 children, 2 entries per leaf | 15,568 | 5 s | one balanced tree, no node leaked or freed twice; lookups and iteration are a map's up to the two faults below |
| `btree_lookup` | 6 keys | violation | | a merge drops a separator: a key is not found |
| `btree_iter` | 5 keys, links kept | violation | | the iterator follows the link to a destroyed leaf |
| `memory` | 8 pages of 3 units, 3 blocks in use in pool and stack | 503,006 | 20 s | pages have one owner, blocks in use do not overlap, none is lost by pool or large pages |
| `query` | 17 scripts, 4 entities in 2 blocks, 2 threads | 305,229 | 35 s | plans fit systems; a system runs once on each match; targets first; threads in step; queries end |
| `query_cascade` | a cascade over every state of the tables | violation | | a system is called with a component that does not exist |

**Bounds.** `tx`: three transactions are the least with an old reader, a writer and a
transaction that begins beside them, and leave the list from front, middle and back. Ids are
bounded by `MaxId`; the proofs lift both bounds. `txpool`: the interesting states need an
old reader that keeps the safepoint down, a chain of two versions over the root and a younger
reader; four ids give them, and a second reference would share only the garbage list. Without sweeps in writers
five, six and seven blocks (269,324, 308,726 and 314,002 states) give the same verdict: the last
ones are used only when references are freed and allocated again before any collection. Two constraints cut the ids:
`IdsLeft` reserves one for a writer in `fdb_tx_begin`, and one writer waits at a time (how
more of them queue is checked in `tx`). `exec_plan`: four statements give chains, diamonds
and cycles of length two to four, reachable and not reachable from a root; `MaxLinks` is 3
so that no array overflows (one child more overwrites the parent counter, see the
disagreements; the code's arrays have `FCC_MAX_OPERATOR_NUM_COLUMNS`, 16, entries). The deadlock check is off in the ExecPlan and Query runs because fcc stops at a
refused plan and the model of a program ends. `database`: two tables are the least for a
report to be overtaken by a creation. `Rows` are the components that are created, destroyed,
enabled and disabled one by one: two in the table with a destructor, so that a call on one slot
meets the other in every state, and one in the other table. Clearing an entity and clearing,
removing and releasing tables know no such bound. Tags and references are put on one entity, and
one of tag table, reference table and global exists at a time (`MaxOthers`): no call works on
two of them but `fdb_database_clear`, which treats them in turn. The proofs lift these bounds.
`btree`: the least arities at which nodes split and merge; six keys in the right order give
three levels, so that internal nodes merge. The arities of the source (10 and 9) differ in
nothing the code tests. A history is followed until a merge has lost a separator (`dropped`),
links are forgotten once one is wrong (`KeepLinks`); the violation runs show both. `memory`:
three blocks reach a second page and a second frame; large pages and small ones meet in the
middle of the region. `query`: two threads with a block each are the least that exchange
references; more threads are the subject of the proofs. The references of a query are all
the 625 partial functions on four entities: chains, trees, stars and cycles. In `query`, the
targets of a cascade have the component it asks of them (`CascadeWorlds`); `query_cascade`
lifts that.

**Fairness.** `tx`: a thread inside a call goes on; a thread waiting for `m_mutex` gets it
although others lock and unlock it in between (strong fairness on the steps that wait for
it), transactions commit and `fdb_tx_unlock` is called. Among writers waiting for
`m_write_running` pthread promises no order, so only "one of them gets it" is assumed.
`exec_plan`: the loop of a frame runs on one thread and the functions of the systems return.
`database`: the server's thread goes on and a client that connects sends its request or
hangs up. The accepted socket blocks without a time limit, so without this assumption
stopping the server need not return. The call that
stops the server goes on; the application is not assumed to make any. `query`: the compiler
goes on, and each thread that is not waiting at a barrier takes its next step. Every step of a
thread changes its label, so fairness is stated of the label (`WF_pc(GoesOn(t))`): a thread
that can go on keeps this ability until it does, as no other thread takes it away.

**Disagreements found** (`findings` in `PROJECT.json`): the five violation runs above, and
these, which take a change of a cfg to see:

* a collection inside the oldest running writer uses that writer's uncommitted id as safepoint:
  `MCTxPool.cfg` with `Liberties = {"gc_as_oldest"}` violates
  `SnapshotReadable`;
* the default priority is 1 and not 0: `MCExecPlan.cfg` with `Stmts <- WriterStmts` and the
  invariant `PriorityDecides`;
* one child more than the array holds overwrites the parent counter: `MCExecPlan.cfg` with
  `Stmts <- OneTypeStmts`, `NumTasks = 4`, `MaxLinks = 2` violates `FrameIsThePlan`;
* a report of two tables has both names in its first entry: `MCDatabase.cfg` with the invariant
  `ReportNames`;
* flushing a stack allocator does not give back all its pages, and the generated code flushes
  one in every frame: `MCMemory.cfg` with the invariant `FlushReturnsAll`;
* `fdb_table_enable_component` enables a component that does not exist although its comment
  says it does not: `MCDatabase.cfg` with the invariant `MaskShowsComponents`. Systems and
  `fdb_table_clear` go by the mask; `EmptySlotsLeftAlone` says how far the damage goes;
* `fdb_table_clear` runs the destructor on enabled components only, so a disabled one is dropped
  with its block: `MCDatabase.cfg` with the property `NoComponentLost`. `OnlyDisabledLost` says
  that nothing else is lost;
* `has_component` and `has_not_component` are documented and refused by the generator.

Met while modelling and
worth knowing:

* `README.md:549-553` says priorities resolve systems that read what the other writes;
  `exec_plan.cpp:58-61` makes a reader depend on the writer whatever the priorities, and
  such a pair is refused as a cycle.
* Allocating and freeing a reference in one transaction lets a collection free a null
  pointer (`txpool_allocator.c:358`); the model's client does not do it.
* `fdb_reftable_remove` ignores the head it is given.
* The generated code of a gather creates its temporary tables in every frame and never
  removes them (`producer.cpp:774`, `database.c:163`): the second frame gets NULL for a name
  that exists and clears it. Query stops after one frame.
* The restriction that components of an expand are read only (`README.md:518`) is checked by
  the generator for gathers only; `process_match` computes its indices in unsigned arithmetic
  (`clang_parsing.cpp:152`), so that a system with too few parameters gets an empty match,
  which the validation then refuses by its count.
* A query whose system takes globals only is not run at all when the match also filters, as no
  entity of a cluster of globals is enabled; two globals before a component likewise.
* A cascade leaves out entities whose references lead into a cycle (`RunsOnMatches` says so).

## 4. Proofs

`TxProofs`, `TxPoolInv`, `TxPoolProofs`, `StoreProofs`, `DatabaseProofs`, `ExecPlanProofs`,
`QueryProofs` and `MemoryProofs` are checked by TLAPS; there are no assumptions besides the
named ones on the constants (`TxAssumption`, `PoolAssumption`, `TableAssumption`,
`DatabaseAssumption`, `TaskAssumption`, `PlanAssumption`, `BlocksAssumption`,
`QueryAssumption`, `MemoryAssumption`). They say what the statements of a script are made of, which
sets are finite, that references lead from entities to entities, which sizes divide each other, as the code asserts, and which values differ: NULL
is no block, pointer, table or buffer, a global is no slot of a table.
The theorems about the pool have one hypothesis more, `Liberties = {}`. It means two things: no
version is freed that the assertion of `fdb_txpool_alloc_free` forbids to free (`txpool_pinned`
shows that this is needed), and a writer that has freed a reference itself does not sweep. The
second is a restriction that the library neither asserts nor documents. It is needed for the
oldest transaction (see the disagreements above); for the others `txpool` checks such sweeps, and
they are not proved about. A writer that has freed nothing yet sweeps in the theorems too.

**Transaction manager**, for any set of transactions and any number of begins:
`TxTypeCorrect`, `WritersExclude`, `ListIsInOrder`, `SnapshotsCommitted`, `SafepointHolds`,
all from `TxInvariant`. `GcSafepoint` is not inductive: the safepoint is read off `p_first`,
so that this is the oldest transaction must be carried along (`ListOrder`); the oldest has
the smallest version only because no writer is in the list when a writer enters
(`WriterExclusion`) and because the versions readers take grow with the last committed id
(`VersionOrder`, `IdOrder`). `LateReaders` relates a writer to the readers that begin beside
it, which the pool needs. One lemma per critical section (`EnterStep`, `CommitStep`), one for
the steps that only move a mutex.

**Versioned pool**, for any transactions, references and blocks: `PoolTypeCorrect`,
`SnapshotsReadable`, `WalksKeepSnapshots`, `MemoryIsSafe` and `ChainsAreSound`, all from
`PoolInvariant`. None of these properties is inductive; what they take (`PoolInv`, in
`TxPoolInv`) is, part by part:

* `LinksInv`, `HeadsInv`: every block in use has one place. Chains begin at heads only (a
  root, an entry of a garbage list, what `Drop` is about to release), nothing links to a
  head, no two blocks link to the same one, and timestamps decrease along links. That no block
  leaks and that garbage lists share none follows from this.
* `HistInv`, `RefInv`: the writes of a reference are ordered by version, committed or the
  running writer's, and each *version in use* (`LiveVersions`: what a running transaction
  reads, or one that begins now would) sees in the chain what the history says (`Seen`). This
  is stated of versions and not of transactions, as a transaction that begins must find its
  snapshot there already. The running writer's version is in use, so that a commit, after
  which others read it, brings nothing new.
* `GarbageInv`: an entry of a garbage list that is still the root of a reference is there
  because the last write of that reference is a free, committed or by the list's own writer.
* `CallInv`: how far each call has come. A reader (`WalkInv`) has passed only versions younger
  than its own, or stands on a leftover that still shows its value; a collection
  (`CollectInv`) by a writer (`WriterCall`) or a sweep (`SweepCall`) keeps its safepoint valid
  from when it was read to when it is used.
* `HeldInv`: what a pointer handed out leads to.

The argument turns on two lemmas: the safepoint of a collection is not above what a
transaction reads that has a use for the reference (`CollectsSafely`), and whoever collects a
reference is alone with it (`CollectsAlone`), though nothing locks a reference: writers
exclude each other, and a sweep meets only references that are freed for all who are left.
`PoolFrame` says what a step of one thread owes for the references it touches and that the
others follow, so that each action has a lemma about its own reference only. Chains and walks
are recursive functions, of which nothing follows before a function is known to satisfy their
equations: `TxPoolInv` gives one for each and says what cutting, adding and removing a block
does to it.

**The pool implements its promise**, for any transactions, references and blocks:
`PoolImplementsStore` (`PoolSpec => ImplementsStore`). A writer's accesses, stored or read, and
the reader's last step of a walk are `Put` or `Get` of the store, the two critical sections
`Begin` and `End`, the restart of an empty pool `Clear`; the mutexes, the steps of walks, all of a
collection and the sweeps are stutters, which is the point: the store cannot tell when a
version is copied, cut off or freed. `PoolInv` says that memory handed out stays in use; two
facts come on top. `ShowInv`: what a pointer shows is what its transaction sees, although the
root block takes over the data of another block while readers hold either, and the writer
stores in place; it holds because a copy puts into the root what a pointer to the root showed
already, and a block that a reader holds below the root is no younger than its snapshot, so that
nobody stores to it. `IdsInv`: writers that queue and readers about to begin leave the ids they
will take, so that values stay within those of the store.

**Database and webserver**, for any names, entities, tags, references and globals, and with no
hypothesis on the calls: `DbTypeCorrect`, `TablesStayInStep` and `ReportsAreSound` from
`DbInvariant`, and the action properties `EmptySlotsAreLeftAlone` and `DisabledOnlyAreLost` from
it and one look at each call (`StepLeaves`). `ContentsInv` carries the counters and, slot by
slot, that what was constructed is what `m_exists` shows (`Accounted`). It says nothing of
`m_enabled`, which the application may set where nothing exists; that a component can be lost
only while it is disabled takes `Accounted`, as `fdb_table_clear` destructs what `m_enabled`
shows and forgets what `m_exists` shows. `ReportFits` needs the handshake of the two threads
(`ThreadsInv`): the server lives exactly as long as `m_running` and the call that stops it say,
and the buffer is freed after it has exited. The number of tables passed equals the count of the
report only because `m_mutex` is held for the whole walk; that a report has every table, or its
name in the right entry, is not so and not claimed. One lemma per call, one per step of the
server.

**Task graph**, for any graph within the arrays: `RunRespectsParents` (no task twice, none
before a parent) and `RunLeavesNoTaskOut` (if the graph has no cycle, an ended frame has
called every task), from `RunInvariant`. "All parents visited" says nothing about the order
of calls, since a task is marked when it is queued; the invariant says that visited is
exactly called, pending or queued (`Marked`), that wherever a task stands its parents stand
before it (`Ordered`), and that a pass that found nothing passed over no ready task
(`PassInv`).

**Execution plan**, for any statements and any number of them. `CycleCheckIsRight` says that
`is_acyclic` is: it compares departure times of a search that starts at the roots, and a cycle
that no root leads to is found because its nodes were never visited and all have departure 0.
One direction needs only that departures are numbers. For the other, of a plan without cycles,
`Reached` says what a search has done while the nodes of K are entered and not left: those that
are left departed after their children. A child is never in K, since no node is below its own
child (`NotBelowItsChild`), and the search from the roots visits every node, since a set of
nodes left out would have one without parents in it. That `dfs` ends and computes what its
recursion says is shown first: `Ends` is the least relation closed under its steps, of which
`DfsInduction` (fewer nodes to visit, or a shorter list) makes a function.

`PlanTypeCorrect`, `ConflictsStayOrdered` and `EverySystemRuns` follow from `PlanInvariant`:
the lists of parents and children are the dependencies, each once, and the reverse of each
other (`LinksRight`); the calls of the generated `furious_init` leave that graph in the words of
the tasks (`GraphIsThePlan`); and the run of the graph has its own invariant. Loops are
recursive functions here too, and `LinkedUpTo` is their invariant: after k calls for node n the
counters and the words before them are the plan's. These three theorems have the hypothesis
`[]LinksFit`, that no node has more parents or children than the arrays of a task hold. It is
needed: with one child more `fdb_task_graph_set_parent` writes over `m_num_parents` (see
the disagreements above), and the frame does not call every system.

**Blocks**, for any chunk size and number of threads: `SelectedByOwner` (a thread iterates over
a block exactly when gathers look for it in that thread's hash table) and `OneOwner` (every
block belongs to exactly one thread). The code tests `(chunk + (stride - offset)) % stride = 0`
in one place and computes `chunk % stride` in the other; the lemma `ModuloShift` relates them.

**Barrier**, for any number of threads: `BarrierKeepsStep`, from `BarrierInv`: there is a base
such that every thread waits for it or for one stride more, and the number of arrivals is the
base plus the number of threads ahead, which are never all. Counting those sets needs the
cardinality of the threads (`ThreadsCount`).

**Threads of a query**, for any number of them, any plan and any state of the tables:
`QueryUsesBarrier` (a query implements `BarrierSpec`: no thread arrives at a barrier before it
has passed the one before, so that `QueryKeepsStep` follows), `BarriersKeepApart`
(`BarriersSeparate`), `SomeThreadGoesOn` and `QueryTypeCorrect`, from `QueryInvariant`. What it adds to
`BarrierInv`:

* `InPhase`: the barriers cut the task into stretches (`Stretch`), and threads that wait for
  the same one are in the same stretch, one that is a barrier ahead is in the next. With
  `BarrierInv`, a thread that has passed knows where all others are (`OthersStretch`).
  Whether two threads can be in two places at once is then a matter of the two stretches:
  nobody looks up while another fills or releases (`LookUpFinds`, `SearchFindsFilled`).
* `ControlInv`: which labels a plan can reach, and that only threads at a barrier wait.
* `KeptInv`: from where to where a thread's keys and hash table are there for others.
* `FrontierInv`: threads in the same round have the same frontier, and a thread one barrier
  ahead has the one that those behind it have yet to compute. So what it is computed from must
  not change while one thread is at the merge and another in the round behind
  (`FrontierKept`); only threads in another stretch write it.

`SomeThreadGoesOn` is the safety part of `Finishes`: each thread evaluates the condition of the
loop for itself, and one that went on alone would wait for ever. `EndInv` says why none
does: those a round ahead had the frontier of those that left, and it was not empty. The
theorem has no run of its own (`Finishes` of the run `query` fails where it does).
`QueryTypeCorrect` rests on `SelectedByOwner`: what a thread gathers or blacklists are sources
in its own blocks. It needs that nothing is left in the threads when the tables change.

**Allocators**, for any sizes and any sequence of calls: `MemoryTypeCorrect`, `PagesStaySound`,
`PoolBlocksStaySound` and `StackBlocksStaySound`, all from `MemoryInvariant`, whose parts are:

* `PageInv`: the small pages below `p_stop` are free once or in use, and those in use are the
  pool's or the stack's (`SmallSound`); the large ones lie above `p_ltop`, apart from each other
  (`LargeSound`). The two bounds do not cross, which is why a page that is taken anew is nobody's.
* `PoolInv`: nothing at or behind `m_next_free` of the last page was ever handed out.
  `PoolBlocksSound` compares numbers of blocks; that a block taken there is a new one does not
  follow from them.
* `StackInv`: the frames list the places of the blocks in use one after the other (`Lists`), are
  pages without blocks, and only the last may be empty (`FramesSound`). Blocks lie in a page one
  behind the other, and a page that was left is not returned to (`BlocksSound`). So a pop that
  leaves the page of the last block may give that page back, as no block is left in it; a frame
  may go once it is empty; and the flush, which compares each page with the last one it freed
  only, frees none twice (`Grouped`, `ObservesOnce`). The flush looks at the last block of each
  frame only: it frees no page that is not the stack's, but need not free them all: of
  `FlushReturnsAll` there is a counterexample and no proof.

There is a lemma for each call, and one for each move an allocation or a pop is made of
(a frame more, a page more, a block more or less: `StackSound`). What a flush frees is computed
by recursive functions (`FreeAll`, `Observed`), whose equations are established by counting up
from nothing (`CountingUp`, `StepByStep`).

**Only model-checked**: liveness (fairness is out of the prover's reach); `FrameIsThePlan` of
ExecPlan, that the order fcc prints is the order of the calls, for which the passes of
`fcc_exec_plan_get_valid_exec_sequence` would have to be followed beside those of the run;
what a plan is and what the operators produce (`PlanFitsSystem`, `RunsOnMatches`, `TargetsFirst`),
which is induction over call chains, trees and streams;
BTree, whose searches are recursive operators.

## 5. Not modelled

`txbtree.c` and `hashtable.c` (nothing calls them), reading types and source text through
libclang, printers, the declarations and names `codegen_tools.cpp` prints, reflection,
`memory.c` and `numa_alloc.c` (wrappers of the system's allocation), other wrappers and the
deprecated directories. Of modelled parts: the second frame of a query (see the temporary
tables above), several queries at a time (a frame runs one after the other, which TaskGraph
has), the words of bitmaps, the counters of the allocators.

What could follow: `FrameIsThePlan` of ExecPlan.
