------------------------------ MODULE Database ------------------------------
(***************************************************************************)
(* The database of an application, src/runtime/data/database.c, and the    *)
(* thread of its webserver, src/runtime/data/webserver/webserver.c, which  *)
(* reports the tables while the application goes on.                       *)
(*                                                                         *)
(* The application calls the library from one thread.  The server reads    *)
(* the tables under m_mutex only, so a call of the application that holds  *)
(* m_mutex, or works on the contents of one table, is one step; the        *)
(* server's report is one step for each table.  A name stands for its hash *)
(* and the trees iterate in the order of the hashes.                       *)
(*                                                                         *)
(* A call is made in any state: components that are not there are enabled  *)
(* and destroyed, and tables are cleared whatever they show.               *)
(***************************************************************************)
EXTENDS Table, Sequences

CONSTANTS Names,          \* names of component tables, numbered in the order of their hashes
          WithDestructor, \* the ones created with a destructor
          Tags, RefNames, Globals,
          Rows,           \* the rows that are created, destroyed, enabled and disabled (bound)
          Linked,         \* the entities that get tags and references (bound)
          MaxOthers,      \* tag tables, reference tables and globals at a time (bound)
          NULL

ASSUME DatabaseAssumption ==
  /\ Names \subseteq Nat /\ IsFiniteSet(Names) /\ WithDestructor \subseteq Names
  /\ Rows \subseteq Names \X Ids /\ Linked \subseteq Ids /\ MaxOthers \in Nat
  /\ Globals \cap (Names \X Ids) = {}
  /\ NULL \notin Names \cup Tables \cup BitTables \cup Seq(Names \cup {NULL})

VARIABLES m_tables, m_tags, m_references,  \* the trees: what each name leads to
          m_globals,      \* the globals that exist
          live,           \* history: the slots of tables, and globals, that hold a constructed
                          \* object which has a destructor
          destructed,     \* history: what the destructors ran on in the last step
          m_mutex,        \* does the server hold the lock of the database
          m_running, m_table_infos, m_table_infos_capacity,   \* fields of the webserver
          num_tables, count, it,    \* the server's locals: it is the name its iterator is at
          server, app     \* where the two threads are

contents == <<m_tables, m_tags, m_references, m_globals, live>>
webvars == <<m_running, m_table_infos, m_table_infos_capacity>>
locals == <<m_mutex, num_tables, count, it>>
vars == <<contents, destructed, webvars, locals, server, app>>

TableNames == {n \in Names : m_tables[n] # NULL}
Slots == Names \X Ids

DbTypeOK ==
  /\ m_tables \in [Names -> {NULL} \cup Tables]
  /\ m_tags \in [Tags -> {NULL} \cup BitTables]
  /\ m_references \in [RefNames -> {NULL} \cup Tables]
  /\ m_globals \subseteq Globals
  /\ live \subseteq Slots \cup Globals /\ destructed \subseteq Slots \cup Globals
  /\ m_mutex \in BOOLEAN /\ m_running \in BOOLEAN
  /\ m_table_infos \in {NULL} \cup Seq(Names \cup {NULL})
  /\ {m_table_infos_capacity, num_tables, count, it} \subseteq Nat
  /\ server \in {"off", "loop", "read", "count", "grow", "metadata", "scan", "reply", "exited"}
  /\ app \in {"idle", "join", "free", "release_join", "release"}

---------------------------------------------------------------------------
\* Calls on the contents.

\* The application calls while it is in no other call; one that locks the database waits.
Calls == app = "idle" /\ UNCHANGED <<webvars, locals, server, app>>
Locks == Calls /\ ~m_mutex

\* What the slots hold is gone, as their memory is cleared or given back, and the destructors
\* of S have run: the two need not be the same.
GivesUp(slots, S) == live' = live \ slots /\ destructed' = S

SlotsOf(n, ids) == IF n \in WithDestructor THEN {n} \X ids ELSE {}
Keeps == UNCHANGED live /\ destructed' = {}

\* A step that leaves the contents alone.
Untouched == UNCHANGED contents /\ destructed' = {}

\* FDB_CREATE_TABLE: a second table of the name is refused.
CreateTable(n) ==
  /\ Locks
  /\ m_tables' = [m_tables EXCEPT ![n] = IF @ = NULL THEN EmptyTable ELSE @]
  /\ UNCHANGED <<m_tags, m_references, m_globals>> /\ Keeps

\* Mutant: the table is made without a look in the tree.
FindOrCreateTable_Creates(n) ==
  /\ Locks
  /\ m_tables' = [m_tables EXCEPT ![n] = EmptyTable]
  /\ UNCHANGED <<m_tags, m_references, m_globals>> /\ Keeps

FindOrCreateTable(n) ==
  /\ Locks
  /\ m_tables' = [m_tables EXCEPT ![n] = IF @ = NULL THEN EmptyTable ELSE @]
  /\ UNCHANGED <<m_tags, m_references, m_globals>> /\ Keeps

\* fdb_table_clear releases the blocks; before that the destructor runs on what the iterator
\* returns.
ClearTable(n) ==
  /\ Calls /\ n \in TableNames
  /\ m_tables' = [m_tables EXCEPT ![n] = Cleared(@)]
  /\ GivesUp({n} \X Ids, SlotsOf(n, ClearCalls(m_tables[n])))
  /\ UNCHANGED <<m_tags, m_references, m_globals>>

RemoveTable(n) ==
  /\ Locks /\ n \in TableNames
  /\ m_tables' = [m_tables EXCEPT ![n] = NULL]
  /\ GivesUp({n} \X Ids, SlotsOf(n, ClearCalls(m_tables[n])))
  /\ UNCHANGED <<m_tags, m_references, m_globals>>

\* FDB_ADD_COMPONENT, and the application constructs the component in the slot it is given; it
\* assigns to one that is there already.
AddComponent(n, id) ==
  /\ Calls /\ n \in TableNames
  /\ m_tables' = [m_tables EXCEPT ![n] = CreateComponent(@, id)]
  /\ live' = live \cup SlotsOf(n, {id}) /\ destructed' = {}
  /\ UNCHANGED <<m_tags, m_references, m_globals>>

\* FDB_REMOVE_COMPONENT; the slot is cleared to zero.
RemoveComponent(n, id) ==
  /\ Calls /\ n \in TableNames
  /\ m_tables' = [m_tables EXCEPT ![n] = DestroyComponent(@, id)]
  /\ GivesUp({<<n, id>>}, SlotsOf(n, DestroyCalls(m_tables[n], id)))
  /\ UNCHANGED <<m_tags, m_references, m_globals>>

Enable(n, id) ==
  /\ Calls /\ n \in TableNames
  /\ m_tables' = [m_tables EXCEPT ![n] = EnableComponent(@, id)]
  /\ UNCHANGED <<m_tags, m_references, m_globals>> /\ Keeps

Disable(n, id) ==
  /\ Calls /\ n \in TableNames
  /\ m_tables' = [m_tables EXCEPT ![n] = DisableComponent(@, id)]
  /\ UNCHANGED <<m_tags, m_references, m_globals>> /\ Keeps

\* fdb_database_clear_entity: every table, whether the entity has a component there or not.
\* Tags and references of the entity stay.
ClearEntity(id) ==
  /\ Locks
  /\ m_tables' = [n \in Names |-> IF n \in TableNames THEN DestroyComponent(m_tables[n], id)
                                  ELSE NULL]
  /\ GivesUp(Names \X {id}, UNION {SlotsOf(n, DestroyCalls(m_tables[n], id)) : n \in TableNames})
  /\ UNCHANGED <<m_tags, m_references, m_globals>>

---------------------------------------------------------------------------
\* Tags, references and globals.

\* There may be one more of them (bound).
MayCreate ==
  Cardinality({g \in Tags : m_tags[g] # NULL}) + Cardinality({r \in RefNames : m_references[r] # NULL})
    + Cardinality(m_globals) < MaxOthers

OrEmpty(bt) == IF bt = NULL THEN EmptyBitTable ELSE bt

TagEntity(g, id) ==
  /\ Locks /\ (m_tags[g] # NULL \/ MayCreate)
  /\ m_tags' = [m_tags EXCEPT ![g] = BitTableAdd(OrEmpty(@), id)]
  /\ UNCHANGED <<m_tables, m_references, m_globals>> /\ Keeps

UntagEntity(g, id) ==
  /\ Locks /\ m_tags[g] # NULL
  /\ m_tags' = [m_tags EXCEPT ![g] = BitTableRemove(@, id)]
  /\ UNCHANGED <<m_tables, m_references, m_globals>> /\ Keeps

GetTaggedEntities(g) ==
  /\ Locks /\ (m_tags[g] # NULL \/ MayCreate)
  /\ m_tags' = [m_tags EXCEPT ![g] = OrEmpty(@)]
  /\ UNCHANGED <<m_tables, m_references, m_globals>> /\ Keeps

\* fdb_database_create_reftable does the same.
FindOrCreateReftable(r) ==
  /\ Locks /\ (m_references[r] # NULL \/ MayCreate)
  /\ m_references' = [m_references EXCEPT ![r] = IF @ = NULL THEN EmptyTable ELSE @]
  /\ UNCHANGED <<m_tables, m_tags, m_globals>> /\ Keeps

\* fdb_reftable_add: a tail has one head, which replaces an earlier one (data left out).
AddReference(r, tail) ==
  /\ Calls /\ m_references[r] # NULL
  /\ m_references' = [m_references EXCEPT ![r] = CreateComponent(@, tail)]
  /\ UNCHANGED <<m_tables, m_tags, m_globals>> /\ Keeps

\* fdb_reftable_remove: the head it is given is not looked at.
RemoveReference(r, tail) ==
  /\ Calls /\ m_references[r] # NULL
  /\ m_references' = [m_references EXCEPT ![r] = DestroyComponent(@, tail)]
  /\ UNCHANGED <<m_tables, m_tags, m_globals>> /\ Keeps

\* FDB_CREATE_GLOBAL, fdb_database_find_or_create_global; a new one is constructed.
CreateGlobal(g) ==
  /\ Locks /\ (g \in m_globals \/ MayCreate)
  /\ m_globals' = m_globals \cup {g} /\ live' = live \cup {g} /\ destructed' = {}
  /\ UNCHANGED <<m_tables, m_tags, m_references>>

\* Its memory stays with the stack allocator.
RemoveGlobal(g) ==
  /\ Locks /\ g \in m_globals
  /\ m_globals' = m_globals \ {g} /\ GivesUp({g}, {g})
  /\ UNCHANGED <<m_tables, m_tags, m_references>>

\* fdb_database_clear
ClearContents ==
  /\ m_tables' = [n \in Names |-> NULL]
  /\ m_tags' = [g \in Tags |-> NULL]
  /\ m_references' = [r \in RefNames |-> NULL]
  /\ m_globals' = {}
  /\ GivesUp(live, (UNION {SlotsOf(n, ClearCalls(m_tables[n])) : n \in TableNames}) \cup m_globals)

Clear == Locks /\ ClearContents

---------------------------------------------------------------------------
\* The webserver: fdb_webserver_start and stop, called by the application.

\* A server that runs is not started again: nobody would join the first thread.
StartServer ==
  /\ app = "idle" /\ ~m_running
  /\ m_running' = TRUE /\ server' = "loop"
  /\ Untouched /\ UNCHANGED <<m_table_infos, m_table_infos_capacity, locals, app>>

\* A running server is told to stop and joined, then its buffer is freed.
StopServer ==
  /\ app = "idle"
  /\ m_running' = FALSE
  /\ app' = IF m_running THEN "join" ELSE "free"
  /\ Untouched /\ UNCHANGED <<m_table_infos, m_table_infos_capacity, locals, server>>

\* fdb_database_release begins with the same.
BeginRelease ==
  /\ app = "idle"
  /\ m_running' = FALSE
  /\ app' = IF m_running THEN "release_join" ELSE "release"
  /\ Untouched /\ UNCHANGED <<m_table_infos, m_table_infos_capacity, locals, server>>

Join ==
  /\ app \in {"join", "release_join"} /\ server = "exited"
  /\ app' = IF app = "join" THEN "free" ELSE "release"
  /\ server' = "off"
  /\ Untouched /\ UNCHANGED <<webvars, locals>>

FreeInfos ==
  /\ app = "free" /\ app' = "idle"
  /\ m_table_infos' = NULL /\ m_table_infos_capacity' = 0
  /\ Untouched /\ UNCHANGED <<m_running, locals, server>>

\* fdb_database_clear and the end of fdb_database_release; the database may be initialised again.
Release ==
  /\ app = "release" /\ ~m_mutex /\ app' = "idle"
  /\ ClearContents
  /\ m_table_infos' = NULL /\ m_table_infos_capacity' = 0
  /\ UNCHANGED <<m_running, locals, server>>

---------------------------------------------------------------------------
\* The thread of the server, server_thread_handler and generate_json.

\* A client may have connected.
ServerAccept ==
  /\ server = "loop" /\ m_running /\ server' = "read"
  /\ Untouched /\ UNCHANGED <<webvars, locals, app>>

\* read blocks the thread until the client sends something or hangs up; that it does one
\* of the two is assumed (ServerStep is fair).
ServerRead ==
  /\ server = "read" /\ server' = "count"
  /\ Untouched /\ UNCHANGED <<webvars, locals, app>>

ServerExit ==
  /\ server = "loop" /\ ~m_running /\ server' = "exited"
  /\ Untouched /\ UNCHANGED <<webvars, locals, app>>

\* A buffer of k entries; what an earlier report left in one counts as uninitialised.
Uninitialised(k) == [i \in 1..k |-> NULL]

\* fdb_database_num_tables
CountTables ==
  /\ server = "count" /\ ~m_mutex
  /\ num_tables' = Cardinality(TableNames) /\ server' = "grow"
  /\ Untouched /\ UNCHANGED <<webvars, m_mutex, count, it, app>>

\* The buffer grows by the number of tables.
Grow ==
  /\ server = "grow" /\ server' = "metadata"
  /\ LET capacity == m_table_infos_capacity + (IF num_tables > m_table_infos_capacity
                                               THEN num_tables ELSE 0)
     IN /\ m_table_infos_capacity' = capacity
        /\ m_table_infos' = IF capacity = 0 THEN m_table_infos ELSE Uninitialised(capacity)
  /\ num_tables' = 0
  /\ Untouched /\ UNCHANGED <<m_running, m_mutex, count, it, app>>

\* fdb_database_metadata locks the database for all of its walk.
BeginMetadata ==
  /\ server = "metadata" /\ ~m_mutex
  /\ m_mutex' = TRUE /\ count' = 0 /\ it' = 0 /\ server' = "scan"
  /\ Untouched /\ UNCHANGED <<webvars, num_tables, app>>

Remaining == {n \in TableNames : n >= it}

\* Mutant: the capacity is not looked at.
MoreInfos_NoBound == Remaining # {}

MoreInfos == Remaining # {} /\ count < m_table_infos_capacity

\* One table: every name goes into the first entry (line 427); its size, which the table's
\* own lock guards, goes where it should and is left out.
NextInfo ==
  /\ server = "scan" /\ MoreInfos
  /\ LET n == CHOOSE n \in Remaining : \A m \in Remaining : n <= m
     IN /\ m_table_infos' = IF m_table_infos = NULL THEN NULL ELSE [m_table_infos EXCEPT ![1] = n]
        /\ it' = n + 1
  /\ count' = count + 1
  /\ Untouched /\ UNCHANGED <<m_running, m_table_infos_capacity, m_mutex, num_tables, server, app>>

\* Mutant: the lock stays taken.
EndMetadata_KeepsLock ==
  /\ server = "scan" /\ ~MoreInfos
  /\ server' = "reply"
  /\ Untouched /\ UNCHANGED <<webvars, m_mutex, num_tables, count, it, app>>

EndMetadata ==
  /\ server = "scan" /\ ~MoreInfos
  /\ m_mutex' = FALSE /\ server' = "reply"
  /\ Untouched /\ UNCHANGED <<webvars, num_tables, count, it, app>>

\* The entries are printed and sent.
Reply ==
  /\ server = "reply" /\ server' = "loop"
  /\ count' = 0 /\ it' = 0
  /\ m_table_infos' = IF m_table_infos = NULL THEN NULL ELSE Uninitialised(m_table_infos_capacity)
  /\ Untouched /\ UNCHANGED <<m_running, m_table_infos_capacity, m_mutex, num_tables, app>>

---------------------------------------------------------------------------
DbInit ==
  /\ m_tables = [n \in Names |-> NULL]
  /\ m_tags = [g \in Tags |-> NULL]
  /\ m_references = [r \in RefNames |-> NULL]
  /\ m_globals = {} /\ live = {} /\ destructed = {}
  /\ m_mutex = FALSE /\ m_running = FALSE
  /\ m_table_infos = NULL /\ m_table_infos_capacity = 0
  /\ num_tables = 0 /\ count = 0 /\ it = 0
  /\ server = "off" /\ app = "idle"

TableCalls ==
  \E n \in Names :
    \/ CreateTable(n) \/ FindOrCreateTable(n) \/ ClearTable(n) \/ RemoveTable(n)
    \/ \E id \in Ids :
          /\ <<n, id>> \in Rows
          /\ AddComponent(n, id) \/ RemoveComponent(n, id) \/ Enable(n, id) \/ Disable(n, id)

OtherCalls ==
  \/ \E id \in Ids : ClearEntity(id)
  \/ \E g \in Tags : GetTaggedEntities(g) \/ \E id \in Linked : TagEntity(g, id) \/ UntagEntity(g, id)
  \/ \E r \in RefNames :
       \/ FindOrCreateReftable(r)
       \/ \E tail \in Linked : AddReference(r, tail) \/ RemoveReference(r, tail)
  \/ \E g \in Globals : CreateGlobal(g) \/ RemoveGlobal(g)
  \/ Clear

ServerStep ==
  \/ ServerExit \/ ServerRead \/ CountTables \/ Grow \/ BeginMetadata \/ NextInfo \/ EndMetadata \/ Reply

StopSteps == Join \/ FreeInfos \/ Release

DbNext ==
  \/ TableCalls \/ OtherCalls
  \/ StartServer \/ StopServer \/ BeginRelease \/ StopSteps
  \/ ServerAccept \/ ServerStep

\* The thread of the server goes on (its clients send their requests), and so does a call
\* of the application.
DbSpec == DbInit /\ [][DbNext]_vars /\ WF_vars(ServerStep) /\ WF_vars(StopSteps)

---------------------------------------------------------------------------
\* Properties.

\* A slot the mask shows although nothing exists in it; systems and fdb_table_clear go by the
\* mask alone (fdb_table_block_get_component).
EmptyShown(tables, n, id) ==
  tables[n] # NULL /\ id \in tables[n].m_enabled \ tables[n].m_exists

LeavesEmptySlots ==
  /\ \A n \in Names, id \in Ids :
       EmptyShown(m_tables', n, id) => EmptyShown(m_tables, n, id) \/ Enable(n, id)
  /\ \A s \in destructed' \ live :
       /\ s \in Slots
       /\ EmptyShown(m_tables, s[1], s[2]) \/ RemoveComponent(s[1], s[2]) \/ ClearEntity(s[2])

\* Empty slots are left alone unless the application names them: only fdb_table_enable_component
\* makes the mask show one, and a destructor runs on one only because the mask showed it, or in
\* the call that was asked to destroy what is not there (table.c:447, 469).
EmptySlotsLeftAlone == [][LeavesEmptySlots]_vars

\* The component of s is disabled, and the step releases the block it is in.
DisabledAndReleased(s) ==
  LET n == s[1]
      id == s[2]
  IN /\ s \in Slots
     /\ id \in m_tables[n].m_exists \ m_tables[n].m_enabled
     /\ m_tables'[n] = NULL \/ ~HasBlock(m_tables'[n], id)

LosesDisabledOnly == \A s \in live \ live' : s \in destructed' \/ DisabledAndReleased(s)

\* A component or a global goes through its destructor.  The only ones that are lost are those
\* disabled while their table is cleared, removed or released (table.c:336-347 visits what is
\* enabled).
OnlyDisabledLost == [][LosesDisabledOnly]_vars

\* A table shows as existing what was constructed in it and not destructed since, in a block that
\* it has; nothing in a reference table is disabled.
TablesShowComponents ==
  /\ live = {s \in WithDestructor \X Ids : /\ s[1] \in TableNames
                                          /\ s[2] \in m_tables[s[1]].m_exists} \cup m_globals
  /\ \A n \in TableNames : \A id \in m_tables[n].m_exists : HasBlock(m_tables[n], id)
  /\ \A r \in RefNames : m_references[r] # NULL =>
       m_references[r].m_enabled = m_references[r].m_exists

\* The counters that fdb_table_size, fdb_bittable_size and the report show agree with the
\* bitmaps after any sequence of calls.
SizesAgree ==
  /\ \A n \in TableNames : m_tables[n].m_num_components = Cardinality(m_tables[n].m_exists)
  /\ \A r \in RefNames : m_references[r] # NULL =>
       m_references[r].m_num_components = Cardinality(m_references[r].m_exists)
  /\ \A g \in Tags : m_tags[g] # NULL => m_tags[g].m_size = Cardinality(m_tags[g].bits)

\* A report stays inside its buffer although tables are created between the count and the
\* walk, and the buffer outlives the thread that uses it.
ReportFits ==
  server \in {"scan", "reply"} =>
    /\ count <= m_table_infos_capacity
    /\ count > 0 => m_table_infos # NULL /\ Len(m_table_infos) = m_table_infos_capacity

\* While the tables are walked the count is the number of those behind the iterator: the lock
\* keeps tables from coming and going there.
ReportCounts ==
  server = "scan" => count = Cardinality({n \in TableNames : n < it})

\* What the tables show as existing and what they count is what the application constructed,
\* after any sequence of calls, the wrong ones included.
TablesAgree == TablesShowComponents /\ SizesAgree

\* A report stays inside its buffer and counts each table it has passed once, whatever is created
\* and removed before and after its walk.  That it has all the tables is not said: the buffer may
\* be too small by then.  Nor is what an entry shows (see ReportNames).
ReportSound == ReportFits /\ ReportCounts

\* Stopping the server, or releasing the database, returns: the server sees the flag,
\* gets the lock if it is in a report, and exits.
StopReturns == app \in {"join", "release_join"} ~> app = "idle"

---------------------------------------------------------------------------
\* What the documentation says and the code does not do.

\* database.h:152, of fdb_database_clear_entity: "Clears all the rows of a given element".  An
\* entity without a row in a table has nothing there to clear.
ClearEntityClearsRows == [][\A id \in Ids : ClearEntity(id) => destructed' \subseteq live]_vars

\* table.h:215, of fdb_table_enable_component: "Enables an component of the table, only it it
\* exists".
MaskShowsComponents == \A n \in TableNames : m_tables[n].m_enabled \subseteq m_tables[n].m_exists

\* table.h:173, of the destructor of a table: "The destructor to release the components".
NoComponentLost == [][live \ live' \subseteq destructed']_vars

\* database.h:256: "Gets the table metadata of the different tables in the db".
ReportNames ==
  server = "scan" =>
    \A k \in 1..count : \E n \in TableNames :
      m_table_infos[k] = n /\ Cardinality({m \in TableNames : m < n}) = k - 1
===========================================================================
