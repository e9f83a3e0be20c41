--------------------------- MODULE DatabaseProofs ---------------------------
(***************************************************************************)
(* The database and the thread of its webserver, for any names, entities,  *)
(* tags, references and globals, and any calls of the application, the     *)
(* wrong ones included.                                                    *)
(*                                                                         *)
(* ContentsInv is about the tables.  Accounted says slot by slot what      *)
(* TablesShowComponents says of the set: something was constructed in a    *)
(* slot of a table with a destructor exactly when the table shows it in    *)
(* m_exists.  Nothing is said of m_enabled, which the application may set  *)
(* where nothing exists: the two action theorems at the end say what comes *)
(* of that, for empty slots and for disabled components.                   *)
(*                                                                         *)
(* ThreadsInv is the handshake of the two threads: who holds m_mutex, that *)
(* m_running and the life of the server go together, and that the buffer   *)
(* is freed only after the server has exited.  Its clauses hold without a  *)
(* look at the tables, and the report's count is the one fact that relates *)
(* the two (DbInv).                                                        *)
(*                                                                         *)
(* First tables as values, then the calls on them (CallFrame is the lemma  *)
(* a call of the application goes through), then the steps of the threads  *)
(* (ThreadStep).                                                           *)
(***************************************************************************)
EXTENDS Database, FiniteSetTheorems, WellFoundedInduction, TLAPS

---------------------------------------------------------------------------
\* Tables as values.

\* What blocks and a counter owe to the bits of a table.
TableSound(t) ==
  /\ \A id \in t.m_exists : HasBlock(t, id)
  /\ t.m_num_components = Cardinality(t.m_exists)

\* In a reference table nothing is disabled.
ReftableSound(t) == t.m_enabled = t.m_exists /\ t.m_num_components = Cardinality(t.m_exists)

BitTableSound(bt) == bt.m_size = Cardinality(bt.bits)

\* The fields of a table are sets of blocks and of entities, and a number.
LEMMA TableFields ==
  ASSUME NEW t \in Tables
  PROVE  /\ t.m_blocks \subseteq BlockIds /\ t.m_exists \subseteq Ids /\ t.m_enabled \subseteq Ids
         /\ t.m_num_components \in Nat
         /\ IsFiniteSet(t.m_exists) /\ Cardinality(t.m_exists) \in Nat
<1>1. t.m_blocks \subseteq BlockIds /\ t.m_exists \subseteq Ids /\ t.m_enabled \subseteq Ids
      /\ t.m_num_components \in Nat
  BY DEF Tables
<1>2. IsFiniteSet(t.m_exists)
  BY <1>1, FS_Subset, TableAssumption
<1>3. QED
  BY <1>1, <1>2, FS_CardinalityType

\* A table nobody has used shows and counts nothing.
LEMMA EmptySound == EmptyTable \in Tables /\ TableSound(EmptyTable) /\ ReftableSound(EmptyTable)
  BY FS_EmptySet DEF EmptyTable, Tables, TableSound, ReftableSound

\* fdb_table_create_component and fdb_reftable_add keep a table sound.
LEMMA CreateSound ==
  ASSUME NEW t \in Tables, NEW id \in Ids
  PROVE  LET u == CreateComponent(t, id)
         IN /\ u \in Tables /\ u.m_exists = t.m_exists \cup {id}
            /\ TableSound(t) => TableSound(u)
            /\ ReftableSound(t) => ReftableSound(u)
<1> DEFINE u == CreateComponent(t, id)
<1>1. /\ u.m_blocks = t.m_blocks \cup {BlockOf(id)}
      /\ u.m_exists = t.m_exists \cup {id} /\ u.m_enabled = t.m_enabled \cup {id}
      /\ u.m_num_components = t.m_num_components + (IF id \in t.m_exists THEN 0 ELSE 1)
  BY DEF CreateComponent
<1>2. Cardinality(u.m_exists) = IF id \in t.m_exists THEN Cardinality(t.m_exists)
                                ELSE Cardinality(t.m_exists) + 1
  <2>1. IsFiniteSet(t.m_exists)
    BY TableFields
  <2>2. Cardinality(t.m_exists \cup {id}) = IF id \in t.m_exists THEN Cardinality(t.m_exists)
                                            ELSE Cardinality(t.m_exists) + 1
    BY <2>1, FS_AddElement
  <2>3. QED
    BY <1>1, <2>2
<1>3. u \in Tables
  <2>1. BlockOf(id) \in BlockIds
    BY DEF BlockIds
  <2>2. QED
    BY <2>1, TableFields DEF CreateComponent, Tables
<1> HIDE DEF u
<1>4. t.m_num_components = Cardinality(t.m_exists) => u.m_num_components = Cardinality(u.m_exists)
  BY <1>1, <1>2, TableFields
<1>5. TableSound(t) => TableSound(u)
  BY <1>1, <1>4 DEF TableSound, HasBlock
<1>6. ReftableSound(t) => ReftableSound(u)
  BY <1>1, <1>4 DEF ReftableSound
<1>7. QED
  BY <1>1, <1>3, <1>5, <1>6 DEF u

\* fdb_table_destroy_component and fdb_reftable_remove keep a table sound.
LEMMA DestroySound ==
  ASSUME NEW t \in Tables, NEW id \in Ids, t.m_num_components = Cardinality(t.m_exists)
  PROVE  LET u == DestroyComponent(t, id)
         IN /\ u \in Tables /\ u.m_exists = t.m_exists \ {id}
            /\ TableSound(t) => TableSound(u)
            /\ ReftableSound(t) => ReftableSound(u)
<1> DEFINE u == DestroyComponent(t, id)
<1>1. u = [m_blocks |-> t.m_blocks, m_exists |-> t.m_exists \ {id},
           m_enabled |-> t.m_enabled \ {id},
           m_num_components |-> t.m_num_components - (IF id \in t.m_exists THEN 1 ELSE 0)]
  BY DEF DestroyComponent
<1>2. Cardinality(t.m_exists \ {id}) = IF id \in t.m_exists THEN Cardinality(t.m_exists) - 1
                                       ELSE Cardinality(t.m_exists)
  BY TableFields, FS_RemoveElement
<1>3. /\ u.m_blocks = t.m_blocks /\ u.m_exists = t.m_exists \ {id}
      /\ u.m_enabled = t.m_enabled \ {id} /\ u.m_num_components = Cardinality(u.m_exists)
  BY <1>1, <1>2, TableFields
<1>4. u \in Tables
  <2>1. IsFiniteSet(t.m_exists \ {id})
    BY TableFields, FS_Subset
  <2>2. Cardinality(u.m_exists) \in Nat
    BY <1>3, <2>1, FS_CardinalityType
  <2>3. QED
    BY <1>1, <1>3, <2>2, TableFields DEF Tables
<1> HIDE DEF u
<1>5. TableSound(t) => TableSound(u)
  BY <1>3 DEF TableSound, HasBlock
<1>6. ReftableSound(t) => ReftableSound(u)
  BY <1>3 DEF ReftableSound
<1>7. QED
  BY <1>3, <1>4, <1>5, <1>6 DEF u

\* The mask of a table can be set and cleared anywhere.
LEMMA MaskSound ==
  ASSUME NEW t \in Tables, NEW id \in Ids, TableSound(t),
         NEW u, u = EnableComponent(t, id) \/ u = DisableComponent(t, id)
  PROVE  u \in Tables /\ TableSound(u) /\ u.m_exists = t.m_exists
<1> DEFINE With(E) == [m_blocks |-> t.m_blocks, m_exists |-> t.m_exists, m_enabled |-> E,
                       m_num_components |-> t.m_num_components]
<1>1. u = With(t.m_enabled \ {id}) \/ u = With(t.m_enabled \cup {id}) \/ u = t
  BY DEF EnableComponent, DisableComponent, Tables
<1>2. ASSUME NEW E \in SUBSET Ids
      PROVE  With(E) \in Tables /\ TableSound(With(E)) /\ With(E).m_exists = t.m_exists
  <2>1. With(E) \in Tables
    BY TableFields DEF Tables
  <2>2. QED
    BY <2>1 DEF TableSound, HasBlock
<1> HIDE DEF With
<1>3. t.m_enabled \ {id} \in SUBSET Ids /\ t.m_enabled \cup {id} \in SUBSET Ids
  BY TableFields
<1>4. QED
  BY <1>1, <1>2, <1>3

\* fdb_bittable_add and fdb_bittable_remove count what they change.
LEMMA BitTablesSound ==
  /\ EmptyBitTable \in BitTables /\ BitTableSound(EmptyBitTable)
  /\ \A bt \in BitTables, id \in Ids : BitTableSound(bt) =>
       /\ BitTableAdd(bt, id) \in BitTables /\ BitTableSound(BitTableAdd(bt, id))
       /\ BitTableRemove(bt, id) \in BitTables /\ BitTableSound(BitTableRemove(bt, id))
<1>1. EmptyBitTable \in BitTables /\ BitTableSound(EmptyBitTable)
  BY FS_EmptySet DEF EmptyBitTable, BitTables, BitTableSound
<1>2. ASSUME NEW bt \in BitTables, NEW id \in Ids, BitTableSound(bt)
      PROVE  /\ BitTableAdd(bt, id) \in BitTables /\ BitTableSound(BitTableAdd(bt, id))
             /\ BitTableRemove(bt, id) \in BitTables /\ BitTableSound(BitTableRemove(bt, id))
  <2>1. bt.bits \subseteq Ids /\ bt.m_size \in Nat /\ bt.m_size = Cardinality(bt.bits)
    BY <1>2 DEF BitTables, BitTableSound
  <2>2. IsFiniteSet(bt.bits)
    BY <2>1, FS_Subset, TableAssumption
  <2>3. CASE id \in bt.bits
    <3>1. Cardinality(bt.bits \ {id}) = bt.m_size - 1 /\ IsFiniteSet(bt.bits \ {id})
      BY <2>1, <2>2, <2>3, FS_RemoveElement
    <3>2. Cardinality(bt.bits \ {id}) \in Nat
      BY <3>1, FS_CardinalityType
    <3>3. BitTableRemove(bt, id) \in BitTables /\ BitTableSound(BitTableRemove(bt, id))
      BY <2>1, <2>3, <3>1, <3>2 DEF BitTableRemove, BitTables, BitTableSound
    <3>4. QED
      BY <1>2, <2>3, <3>3 DEF BitTableAdd
  <2>4. CASE id \notin bt.bits
    <3>1. Cardinality(bt.bits \cup {id}) = bt.m_size + 1
      BY <2>1, <2>2, <2>4, FS_AddElement
    <3>2. BitTableAdd(bt, id) \in BitTables /\ BitTableSound(BitTableAdd(bt, id))
      BY <2>1, <2>4, <3>1 DEF BitTableAdd, BitTables, BitTableSound
    <3>3. QED
      BY <1>2, <2>4, <3>2 DEF BitTableRemove
  <2>5. QED
    BY <2>3, <2>4
<1>3. QED
  BY <1>1, <1>2

---------------------------------------------------------------------------
\* The invariant.

\* Whose components exist: the ones with a destructor that a table shows, and the globals.
Accounted ==
  /\ live \subseteq Slots \cup Globals
  /\ \A n \in Names, id \in Ids :
       <<n, id>> \in live <=> n \in WithDestructor \cap TableNames /\ id \in m_tables[n].m_exists
  /\ \A g \in Globals : g \in live <=> g \in m_globals

ContentsInv ==
  /\ m_tables \in [Names -> {NULL} \cup Tables]
  /\ m_tags \in [Tags -> {NULL} \cup BitTables]
  /\ m_references \in [RefNames -> {NULL} \cup Tables]
  /\ m_globals \subseteq Globals
  /\ \A n \in Names : m_tables[n] # NULL => TableSound(m_tables[n])
  /\ \A r \in RefNames : m_references[r] # NULL => ReftableSound(m_references[r])
  /\ \A g \in Tags : m_tags[g] # NULL => BitTableSound(m_tags[g])
  /\ Accounted
  /\ destructed \subseteq Slots \cup Globals

\* What the server has, and the application while it waits for it.
ThreadsInv ==
  /\ m_mutex \in BOOLEAN /\ m_running \in BOOLEAN
  /\ m_table_infos_capacity \in Nat /\ num_tables \in Nat /\ count \in Nat /\ it \in Nat
  /\ server \in {"off", "loop", "read", "count", "grow", "metadata", "scan", "reply", "exited"}
  /\ app \in {"idle", "join", "free", "release_join", "release"}
  /\ m_mutex <=> server = "scan"
  /\ app # "idle" => ~m_running
  /\ app = "idle" => (m_running <=> server # "off")
  /\ app \in {"free", "release"} => server = "off"
  /\ server = "exited" => ~m_running
  /\ IF m_table_infos_capacity = 0 THEN m_table_infos = NULL
     ELSE m_table_infos \in [1..m_table_infos_capacity -> Names \cup {NULL}]
  /\ server \in {"scan", "reply"} => count <= m_table_infos_capacity

Below(i) == {n \in TableNames : n < i}

DbInv ==
  /\ ContentsInv
  /\ ThreadsInv
  /\ server = "scan" => count = Cardinality(Below(it))

\* A buffer is a sequence, and not the null pointer.
LEMMA Buffers ==
  ASSUME NEW k \in Nat, NEW s \in [1..k -> Names \cup {NULL}]
  PROVE  s \in Seq(Names \cup {NULL}) /\ Len(s) = k /\ s # NULL
<1>1. s \in Seq(Names \cup {NULL}) /\ Len(s) = k
  BY SMT
<1>2. QED
  BY <1>1, DatabaseAssumption

\* The invariant says all that the runs check.
LEMMA InvProperties ==
  ASSUME DbInv
  PROVE  DbTypeOK /\ TablesAgree /\ ReportSound
<1> USE DEF DbInv
<1>1. m_table_infos \in {NULL} \cup Seq(Names \cup {NULL})
  BY Buffers DEF ThreadsInv
<1>2. DbTypeOK
  BY <1>1 DEF DbTypeOK, ContentsInv, ThreadsInv, Accounted
<1>3. live = {s \in WithDestructor \X Ids : s[1] \in TableNames /\ s[2] \in m_tables[s[1]].m_exists} \cup m_globals
  <2> DEFINE shown == {s \in WithDestructor \X Ids : s[1] \in TableNames /\ s[2] \in m_tables[s[1]].m_exists}
  <2>1. ASSUME NEW x \in live PROVE x \in shown \cup m_globals
    <3>1. CASE x \in Globals
      BY <2>1, <3>1 DEF ContentsInv, Accounted
    <3>2. CASE x \in Slots
      <4>1. PICK n \in Names, id \in Ids : x = <<n, id>>
        BY <3>2 DEF Slots
      <4>2. n \in WithDestructor \cap TableNames /\ id \in m_tables[n].m_exists
        BY <2>1, <4>1 DEF ContentsInv, Accounted
      <4>3. QED
        BY <4>1, <4>2
    <3>3. QED
      BY <2>1, <3>1, <3>2 DEF ContentsInv, Accounted
  <2>2. ASSUME NEW x \in shown PROVE x \in live
    <3>1. PICK n \in WithDestructor, id \in Ids : x = <<n, id>>
      OBVIOUS
    <3>2. n \in Names /\ n \in TableNames /\ id \in m_tables[n].m_exists
      BY <3>1, DatabaseAssumption
    <3>3. QED
      BY <3>1, <3>2 DEF ContentsInv, Accounted
  <2>3. m_globals \subseteq live
    BY DEF ContentsInv, Accounted
  <2>4. QED
    BY <2>1, <2>2, <2>3
<1>4. TablesShowComponents
  BY <1>3 DEF TablesShowComponents, ContentsInv, TableSound, ReftableSound, TableNames
<1>5. SizesAgree
  BY DEF SizesAgree, ContentsInv, TableSound, ReftableSound, BitTableSound, TableNames
<1>6. ReportFits
  BY Buffers DEF ReportFits, ThreadsInv
<1>7. ReportCounts
  BY DEF ReportCounts, Below
<1>8. QED
  BY <1>2, <1>4, <1>5, <1>6, <1>7 DEF ReportSound, TablesAgree

---------------------------------------------------------------------------
\* Calls of the application.

\* Between reports, or with the same tables, a call leaves the threads where they are.
LEMMA CallFrame ==
  ASSUME DbInv, Calls, ContentsInv', ~m_mutex \/ TableNames' = TableNames
  PROVE  DbInv'
<1>1. ThreadsInv' /\ app' = "idle" /\ server' = server /\ count' = count /\ it' = it
  BY DEF DbInv, ThreadsInv, Calls, webvars, locals
<1>2. server = "scan" => Below(it)' = Below(it)
  BY <1>1 DEF DbInv, ThreadsInv, Below
<1>3. QED
  BY <1>1, <1>2 DEF DbInv

\* A call that turns the table of n into u, or takes it away, and constructs and destructs
\* the components that it shows more and less.
Becomes(n, u) ==
  /\ m_tables' = [m_tables EXCEPT ![n] = u]
  /\ UNCHANGED <<m_tags, m_references, m_globals>>
  /\ destructed' \subseteq {n} \X Ids
  /\ live' \subseteq live \cup ({n} \X Ids)
  /\ \A x \in live : x \in live' \/ x \in {n} \X Ids
  /\ \A id \in Ids : <<n, id>> \in live' <=> n \in WithDestructor /\ u # NULL /\ id \in u.m_exists

\* A call that changes one table, or adds or removes it.
LEMMA TableBecomes ==
  ASSUME DbInv, NEW n \in Names, NEW u \in {NULL} \cup Tables, u # NULL => TableSound(u),
         Becomes(n, u), Calls, ~m_mutex \/ (u # NULL /\ n \in TableNames)
  PROVE  DbInv'
<1>1. /\ m_tables' \in [Names -> {NULL} \cup Tables] /\ m_tables'[n] = u
      /\ \A m \in Names \ {n} : m_tables'[m] = m_tables[m]
      /\ m_tags' = m_tags /\ m_references' = m_references /\ m_globals' = m_globals
  BY DEF DbInv, ContentsInv, Becomes
<1>2. \A m \in Names : m_tables'[m] # NULL => TableSound(m_tables[m])'
  BY <1>1 DEF DbInv, ContentsInv, TableSound
<1>3. Accounted'
  <2>1. live' \subseteq Slots \cup Globals
    BY DEF DbInv, ContentsInv, Accounted, Becomes, Slots
  <2>2. ASSUME NEW m \in Names, NEW id \in Ids
        PROVE  <<m, id>> \in live' <=> /\ m \in WithDestructor \cap TableNames'
                                       /\ id \in m_tables'[m].m_exists
    <3>1. CASE m = n
      BY <1>1, <3>1 DEF Becomes, TableNames
    <3>2. CASE m # n
      <4>1. <<m, id>> \in live' <=> <<m, id>> \in live
        BY <3>2 DEF Becomes
      <4>2. QED
        BY <1>1, <3>2, <4>1 DEF DbInv, ContentsInv, Accounted, TableNames
    <3>3. QED
      BY <3>1, <3>2
  <2>3. ASSUME NEW g \in Globals PROVE g \in live' <=> g \in m_globals'
    <3>1. g \notin {n} \X Ids
      BY DatabaseAssumption
    <3>2. QED
      BY <1>1, <3>1 DEF DbInv, ContentsInv, Accounted, Becomes
  <2>4. QED
    BY <2>1, <2>2, <2>3 DEF Accounted
<1>4. ContentsInv'
  <2>1. destructed' \subseteq Slots \cup Globals
    BY DEF Becomes, Slots
  <2>2. QED
    BY <1>1, <1>2, <1>3, <2>1 DEF DbInv, ContentsInv, ReftableSound, BitTableSound
<1>5. ~m_mutex \/ TableNames' = TableNames
  BY <1>1 DEF TableNames
<1>6. QED
  BY <1>4, <1>5, CallFrame

\* FDB_CREATE_TABLE and FDB_FIND_OR_CREATE_TABLE.
LEMMA TableCreates ==
  ASSUME DbInv, NEW n \in Names, CreateTable(n) \/ FindOrCreateTable(n)
  PROVE  DbInv'
<1> DEFINE u == IF m_tables[n] = NULL THEN EmptyTable ELSE m_tables[n]
<1>1. u \in Tables /\ TableSound(u)
  BY EmptySound DEF DbInv, ContentsInv
<1>2. u # NULL
  BY <1>1, DatabaseAssumption
<1>3. m_tables[n] = NULL => u.m_exists = {}
  BY DEF EmptyTable
<1>4. Calls /\ ~m_mutex /\ m_tables' = [m_tables EXCEPT ![n] = u] /\ live' = live
      /\ destructed' = {} /\ UNCHANGED <<m_tags, m_references, m_globals>>
  BY DEF CreateTable, FindOrCreateTable, Locks, Keeps
<1>5. \A id \in Ids : <<n, id>> \in live <=> n \in WithDestructor /\ m_tables[n] # NULL /\ id \in m_tables[n].m_exists
  BY DEF DbInv, ContentsInv, Accounted, TableNames
<1>6. \A id \in Ids : <<n, id>> \in live' <=> n \in WithDestructor /\ u # NULL /\ id \in u.m_exists
  BY <1>2, <1>3, <1>4, <1>5
<1>7. Becomes(n, u)
  BY <1>4, <1>6 DEF Becomes, DbInv, ContentsInv
<1>8. QED
  BY <1>1, <1>4, <1>7, TableBecomes

\* fdb_table_clear, and the removal of a table: nothing is left in its slots.
LEMMA TableClears ==
  ASSUME DbInv, NEW n \in Names, ClearTable(n) \/ RemoveTable(n)
  PROVE  DbInv'
<1>1. n \in TableNames /\ Calls /\ live' = live \ ({n} \X Ids)
      /\ destructed' = SlotsOf(n, ClearCalls(m_tables[n])) /\ UNCHANGED <<m_tags, m_references, m_globals>>
  BY DEF ClearTable, RemoveTable, Locks, GivesUp
<1>2. destructed' \subseteq {n} \X Ids
  <2>1. m_tables[n] \in Tables
    BY <1>1 DEF DbInv, ContentsInv, TableNames
  <2>2. m_tables[n].m_enabled \subseteq Ids
    BY <2>1, TableFields
  <2>3. QED
    BY <1>1, <2>2 DEF SlotsOf, ClearCalls
<1>3. PICK u \in {NULL, EmptyTable} :
        m_tables' = [m_tables EXCEPT ![n] = u] /\ (u = NULL => ~m_mutex)
  <2>1. EmptyTable # NULL
    BY EmptySound, DatabaseAssumption
  <2>2. QED
    BY <2>1 DEF ClearTable, RemoveTable, Locks, Cleared
<1>4. u \in {NULL} \cup Tables /\ (u # NULL => TableSound(u) /\ u.m_exists = {})
  BY <1>3, EmptySound DEF EmptyTable
<1>5. \A id \in Ids : <<n, id>> \in live' <=> n \in WithDestructor /\ u # NULL /\ id \in u.m_exists
  BY <1>1, <1>4
<1>6. Becomes(n, u)
  BY <1>1, <1>2, <1>3, <1>5 DEF Becomes
<1>7. QED
  BY <1>1, <1>3, <1>4, <1>6, TableBecomes

\* FDB_ADD_COMPONENT
LEMMA ComponentAdded ==
  ASSUME DbInv, NEW n \in Names, NEW id \in Ids, AddComponent(n, id)
  PROVE  DbInv'
<1> DEFINE t == m_tables[n]
           u == CreateComponent(t, id)
<1>1. t \in Tables /\ TableSound(t) /\ n \in TableNames /\ Calls
  BY DEF AddComponent, TableNames, DbInv, ContentsInv
<1>2. u \in Tables /\ TableSound(u) /\ u.m_exists = t.m_exists \cup {id}
  BY <1>1, CreateSound
<1>3. u # NULL
  BY <1>2, DatabaseAssumption
<1>4. \A i \in Ids : <<n, i>> \in live <=> n \in WithDestructor /\ i \in t.m_exists
  BY <1>1 DEF DbInv, ContentsInv, Accounted
<1>5. live' = live \cup SlotsOf(n, {id}) /\ destructed' = {}
      /\ m_tables' = [m_tables EXCEPT ![n] = u] /\ UNCHANGED <<m_tags, m_references, m_globals>>
  BY DEF AddComponent, DbInv, ContentsInv
<1> HIDE DEF u
<1>6. \A i \in Ids : <<n, i>> \in live' <=> n \in WithDestructor /\ u # NULL /\ i \in u.m_exists
  BY <1>2, <1>3, <1>4, <1>5 DEF SlotsOf
<1>7. Becomes(n, u)
  BY <1>5, <1>6 DEF Becomes, SlotsOf
<1>8. QED
  BY <1>1, <1>2, <1>3, <1>7, TableBecomes

\* FDB_REMOVE_COMPONENT: nothing exists in the slot afterwards.
LEMMA ComponentRemoved ==
  ASSUME DbInv, NEW n \in Names, NEW id \in Ids, RemoveComponent(n, id)
  PROVE  DbInv'
<1> DEFINE t == m_tables[n]
           u == DestroyComponent(t, id)
<1>1. t \in Tables /\ TableSound(t) /\ n \in TableNames /\ Calls
      /\ live' = live \ {<<n, id>>} /\ destructed' = SlotsOf(n, DestroyCalls(t, id))
      /\ m_tables' = [m_tables EXCEPT ![n] = u] /\ UNCHANGED <<m_tags, m_references, m_globals>>
  BY DEF RemoveComponent, GivesUp, TableNames, DbInv, ContentsInv
<1>2. u \in Tables /\ TableSound(u) /\ u.m_exists = t.m_exists \ {id}
  BY <1>1, DestroySound DEF TableSound
<1>3. u # NULL
  BY <1>2, DatabaseAssumption
<1>4. \A i \in Ids : <<n, i>> \in live <=> n \in WithDestructor /\ i \in t.m_exists
  BY <1>1 DEF DbInv, ContentsInv, Accounted
<1>5. destructed' \subseteq {n} \X Ids
  BY <1>1 DEF SlotsOf, DestroyCalls
<1> HIDE DEF u
<1>6. \A i \in Ids : <<n, i>> \in live' <=> n \in WithDestructor /\ u # NULL /\ i \in u.m_exists
  BY <1>1, <1>2, <1>3, <1>4
<1>7. Becomes(n, u)
  BY <1>1, <1>5, <1>6 DEF Becomes
<1>8. QED
  BY <1>1, <1>2, <1>3, <1>7, TableBecomes

\* fdb_table_enable_component, wherever there is a block, and fdb_table_disable_component.
LEMMA MaskSet ==
  ASSUME DbInv, NEW n \in Names, NEW id \in Ids, Enable(n, id) \/ Disable(n, id)
  PROVE  DbInv'
<1> DEFINE t == m_tables[n]
<1>1. t \in Tables /\ TableSound(t) /\ n \in TableNames /\ Calls
      /\ live' = live /\ destructed' = {} /\ UNCHANGED <<m_tags, m_references, m_globals>>
  BY DEF Enable, Disable, TableNames, DbInv, ContentsInv, Keeps
<1>2. PICK u \in Tables : m_tables' = [m_tables EXCEPT ![n] = u] /\ TableSound(u) /\ u.m_exists = t.m_exists
  <2>1. PICK u : /\ u = EnableComponent(t, id) \/ u = DisableComponent(t, id)
                 /\ m_tables' = [m_tables EXCEPT ![n] = u]
    BY DEF Enable, Disable
  <2>2. u \in Tables /\ TableSound(u) /\ u.m_exists = t.m_exists
    BY <1>1, <2>1, MaskSound
  <2>3. QED
    BY <2>1, <2>2
<1>3. u # NULL
  BY DatabaseAssumption
<1>4. \A i \in Ids : <<n, i>> \in live <=> n \in WithDestructor /\ i \in t.m_exists
  BY <1>1 DEF DbInv, ContentsInv, Accounted
<1>5. \A i \in Ids : <<n, i>> \in live' <=> n \in WithDestructor /\ u # NULL /\ i \in u.m_exists
  BY <1>1, <1>2, <1>3, <1>4
<1>6. Becomes(n, u)
  BY <1>1, <1>2, <1>5 DEF Becomes
<1>7. QED
  BY <1>1, <1>2, <1>3, <1>6, TableBecomes

\* fdb_database_clear_entity: one component less in every table that has one.
LEMMA EntityCleared ==
  ASSUME DbInv, NEW id \in Ids, ClearEntity(id)
  PROVE  DbInv'
<1>1. /\ Calls /\ ~m_mutex /\ UNCHANGED <<m_tags, m_references, m_globals>>
      /\ live' = live \ (Names \X {id})
      /\ destructed' = UNION {SlotsOf(n, DestroyCalls(m_tables[n], id)) : n \in TableNames}
      /\ m_tables' = [n \in Names |-> IF n \in TableNames THEN DestroyComponent(m_tables[n], id) ELSE NULL]
  BY DEF ClearEntity, Locks, GivesUp
<1>2. ASSUME NEW n \in TableNames
      PROVE  /\ n \in Names /\ m_tables'[n] \in Tables /\ m_tables'[n] # NULL
             /\ TableSound(m_tables'[n]) /\ m_tables'[n].m_exists = m_tables[n].m_exists \ {id}
  <2>1. n \in Names /\ m_tables[n] \in Tables /\ TableSound(m_tables[n])
    BY <1>1 DEF TableNames, DbInv, ContentsInv
  <2>2. m_tables'[n] \in Tables /\ TableSound(m_tables'[n]) /\ m_tables'[n].m_exists = m_tables[n].m_exists \ {id}
    BY <1>1, <2>1, DestroySound DEF TableSound
  <2>3. QED
    BY <2>1, <2>2, DatabaseAssumption
<1>3. destructed' \subseteq Slots \cup Globals
  BY <1>1, <1>2 DEF SlotsOf, DestroyCalls, Slots
<1>5. m_tables' \in [Names -> {NULL} \cup Tables]
  BY <1>1, <1>2
<1>6. TableNames' = TableNames
  BY <1>1, <1>2 DEF TableNames
<1>7. \A n \in Names : m_tables'[n] # NULL => TableSound(m_tables[n])'
  <2>1. \A n \in Names : m_tables'[n] # NULL => TableSound(m_tables'[n])
    BY <1>1, <1>2
  <2>2. QED
    BY <2>1 DEF TableSound
<1>8. Accounted'
  <2>1. live' \subseteq Slots \cup Globals
    BY <1>1 DEF DbInv, ContentsInv, Accounted, Slots
  <2>2. ASSUME NEW n \in Names, NEW i \in Ids
        PROVE  <<n, i>> \in live' <=> n \in WithDestructor \cap TableNames' /\ i \in m_tables'[n].m_exists
    <3>1. <<n, i>> \in live <=> n \in WithDestructor \cap TableNames /\ i \in m_tables[n].m_exists
      BY DEF DbInv, ContentsInv, Accounted
    <3>2. <<n, i>> \in live' <=> <<n, i>> \in live /\ i # id
      BY <1>1
    <3>3. n \in TableNames => m_tables'[n].m_exists = m_tables[n].m_exists \ {id}
      BY <1>2
    <3>4. QED
      BY <1>6, <3>1, <3>2, <3>3
  <2>3. ASSUME NEW g \in Globals PROVE g \in live' <=> g \in m_globals'
    <3>1. g \notin Names \X {id}
      BY DatabaseAssumption
    <3>2. QED
      BY <1>1, <3>1 DEF DbInv, ContentsInv, Accounted
  <2>4. QED
    BY <2>1, <2>2, <2>3 DEF Accounted
<1>9. ContentsInv'
  BY <1>1, <1>3, <1>5, <1>7, <1>8 DEF DbInv, ContentsInv, ReftableSound, BitTableSound
<1>10. QED
  BY <1>1, <1>9, CallFrame

\* A call that changes tag or reference tables only.
LEMMA OtherTables ==
  ASSUME DbInv, Calls, UNCHANGED <<m_tables, m_globals, live>>, destructed' = {},
         m_tags' \in [Tags -> {NULL} \cup BitTables],
         m_references' \in [RefNames -> {NULL} \cup Tables],
         \A r \in RefNames : m_references'[r] # NULL => ReftableSound(m_references[r])',
         \A g \in Tags : m_tags'[g] # NULL => BitTableSound(m_tags[g])'
  PROVE  DbInv'
<1>1. ContentsInv' /\ TableNames' = TableNames
  BY DEF DbInv, ContentsInv, Accounted, TableSound, TableNames
<1>2. QED
  BY <1>1, CallFrame

\* Tags: fdb_database_tag_entity, untag_entity and get_tagged_entities.
LEMMA TagCalls ==
  ASSUME DbInv, NEW g \in Tags,
         GetTaggedEntities(g) \/ \E id \in Ids : TagEntity(g, id) \/ UntagEntity(g, id)
  PROVE  DbInv'
<1> DEFINE t == OrEmpty(m_tags[g])
<1>1. t \in BitTables /\ BitTableSound(t)
  BY BitTablesSound DEF OrEmpty, DbInv, ContentsInv
<1>2. m_tags[g] # NULL => t = m_tags[g]
  BY DEF OrEmpty
<1> HIDE DEF t
<1>3. PICK u \in BitTables : BitTableSound(u) /\ m_tags' = [m_tags EXCEPT ![g] = u]
  <2>1. ASSUME NEW id \in Ids, TagEntity(g, id)
        PROVE  \E u \in BitTables : BitTableSound(u) /\ m_tags' = [m_tags EXCEPT ![g] = u]
    BY <1>1, <2>1, BitTablesSound DEF TagEntity, t
  <2>2. ASSUME NEW id \in Ids, UntagEntity(g, id)
        PROVE  \E u \in BitTables : BitTableSound(u) /\ m_tags' = [m_tags EXCEPT ![g] = u]
    BY <1>1, <1>2, <2>2, BitTablesSound DEF UntagEntity
  <2>3. CASE GetTaggedEntities(g)
    BY <1>1, <2>3 DEF GetTaggedEntities, t
  <2>4. QED
    BY <2>1, <2>2, <2>3
<1>4. Calls /\ UNCHANGED <<m_tables, m_globals, live, m_references>> /\ destructed' = {}
  BY DEF TagEntity, UntagEntity, GetTaggedEntities, Locks, Keeps
<1>5. /\ m_tags' \in [Tags -> {NULL} \cup BitTables]
      /\ \A h \in Tags : m_tags'[h] = IF h = g THEN u ELSE m_tags[h]
  BY <1>3 DEF DbInv, ContentsInv
<1>6. \A h \in Tags : m_tags'[h] # NULL => BitTableSound(m_tags[h])'
  BY <1>3, <1>5 DEF DbInv, ContentsInv, BitTableSound
<1>7. /\ m_references' \in [RefNames -> {NULL} \cup Tables]
      /\ \A r \in RefNames : m_references'[r] # NULL => ReftableSound(m_references[r])'
  BY <1>4 DEF DbInv, ContentsInv, ReftableSound
<1>8. QED
  BY <1>4, <1>5, <1>6, <1>7, OtherTables

\* References: fdb_database_find_or_create_reftable, fdb_reftable_add and fdb_reftable_remove.
LEMMA ReferenceCalls ==
  ASSUME DbInv, NEW r \in RefNames,
         FindOrCreateReftable(r) \/ \E tail \in Ids : AddReference(r, tail) \/ RemoveReference(r, tail)
  PROVE  DbInv'
<1> DEFINE t == m_references[r]
<1>1. t # NULL => t \in Tables /\ ReftableSound(t)
  BY DEF DbInv, ContentsInv
<1>2. PICK u \in Tables : ReftableSound(u) /\ m_references' = [m_references EXCEPT ![r] = u]
  <2>1. CASE FindOrCreateReftable(r)
    BY <1>1, <2>1, EmptySound DEF FindOrCreateReftable
  <2>2. ASSUME NEW tail \in Ids, AddReference(r, tail)
        PROVE  \E u \in Tables : ReftableSound(u) /\ m_references' = [m_references EXCEPT ![r] = u]
    <3>1. t # NULL /\ m_references' = [m_references EXCEPT ![r] = CreateComponent(t, tail)]
      BY <2>2 DEF AddReference
    <3>2. QED
      BY <1>1, <3>1, CreateSound
  <2>3. ASSUME NEW tail \in Ids, RemoveReference(r, tail)
        PROVE  \E u \in Tables : ReftableSound(u) /\ m_references' = [m_references EXCEPT ![r] = u]
    <3>1. t # NULL /\ m_references' = [m_references EXCEPT ![r] = DestroyComponent(t, tail)]
      BY <2>3 DEF RemoveReference
    <3>2. QED
      BY <1>1, <3>1, DestroySound DEF ReftableSound
  <2>4. QED
    BY <2>1, <2>2, <2>3
<1>3. Calls /\ UNCHANGED <<m_tables, m_globals, live, m_tags>> /\ destructed' = {}
  BY DEF FindOrCreateReftable, AddReference, RemoveReference, Locks, Keeps
<1>4. /\ m_references' \in [RefNames -> {NULL} \cup Tables]
      /\ \A s \in RefNames : m_references'[s] = IF s = r THEN u ELSE m_references[s]
  BY <1>2 DEF DbInv, ContentsInv
<1>5. \A s \in RefNames : m_references'[s] # NULL => ReftableSound(m_references[s])'
  BY <1>2, <1>4 DEF DbInv, ContentsInv, ReftableSound
<1>6. /\ m_tags' \in [Tags -> {NULL} \cup BitTables]
      /\ \A g \in Tags : m_tags'[g] # NULL => BitTableSound(m_tags[g])'
  BY <1>3 DEF DbInv, ContentsInv, BitTableSound
<1>7. QED
  BY <1>3, <1>4, <1>5, <1>6, OtherTables

\* FDB_CREATE_GLOBAL and FDB_REMOVE_GLOBAL.
LEMMA GlobalCalls ==
  ASSUME DbInv, NEW g \in Globals, CreateGlobal(g) \/ RemoveGlobal(g)
  PROVE  DbInv'
<1>1. Calls /\ UNCHANGED <<m_tables, m_tags, m_references>>
  BY DEF CreateGlobal, RemoveGlobal, Locks
<1>2. \A n \in Names, id \in Ids : <<n, id>> # g
  BY DatabaseAssumption
<1>3. /\ m_globals' \subseteq Globals /\ destructed' \subseteq Slots \cup Globals
      /\ Accounted'
  <2>1. \/ m_globals' = m_globals \cup {g} /\ live' = live \cup {g} /\ destructed' = {}
        \/ m_globals' = m_globals \ {g} /\ live' = live \ {g} /\ destructed' = {g}
    BY DEF CreateGlobal, RemoveGlobal, GivesUp
  <2>2. QED
    BY <1>1, <1>2, <2>1 DEF DbInv, ContentsInv, Accounted, TableNames, Slots
<1>4. ContentsInv' /\ TableNames' = TableNames
  BY <1>1, <1>3 DEF DbInv, ContentsInv, TableSound, ReftableSound, BitTableSound, TableNames
<1>5. QED
  BY <1>1, <1>4, CallFrame

\* fdb_database_clear, on its own and at the end of fdb_database_release.
LEMMA ContentsCleared ==
  ASSUME DbInv, ClearContents
  PROVE  ContentsInv'
<1>1. /\ m_globals' = {} /\ m_tables' = [n \in Names |-> NULL]
      /\ m_tags' = [g \in Tags |-> NULL] /\ m_references' = [r \in RefNames |-> NULL] /\ live' = {}
      /\ destructed' = (UNION {SlotsOf(n, ClearCalls(m_tables[n])) : n \in TableNames}) \cup m_globals
  BY DEF ClearContents, GivesUp
<1>2. \A n \in TableNames : n \in Names /\ m_tables[n].m_enabled \subseteq Ids
  BY TableFields DEF TableNames, DbInv, ContentsInv
<1>3. destructed' \subseteq Slots \cup Globals
  BY <1>1, <1>2 DEF SlotsOf, ClearCalls, Slots, DbInv, ContentsInv
<1>4. Accounted'
  BY <1>1 DEF Accounted, TableNames
<1>5. QED
  BY <1>1, <1>3, <1>4 DEF ContentsInv

---------------------------------------------------------------------------
\* The two threads.

\* A step that leaves the contents alone.
LEMMA ThreadStep ==
  ASSUME DbInv, UNCHANGED contents, destructed' = {} \/ destructed' = destructed, ThreadsInv',
         server' = "scan" => count' = Cardinality(Below(it)')
  PROVE  DbInv'
<1>1. ContentsInv' /\ TableNames' = TableNames
  BY DEF DbInv, ContentsInv, Accounted, TableSound, ReftableSound, BitTableSound, TableNames, contents
<1>2. QED
  BY <1>1 DEF DbInv

\* fdb_webserver_start, fdb_webserver_stop and the parts of fdb_database_release before the
\* last: what stops the server waits for its thread, and only then frees the buffer.
LEMMA AppSteps ==
  ASSUME DbInv, StartServer \/ StopServer \/ BeginRelease \/ Join \/ FreeInfos
  PROVE  DbInv'
<1>1. UNCHANGED contents /\ destructed' = {} /\ count' = count /\ it' = it /\ m_mutex' = m_mutex /\ num_tables' = num_tables
  BY DEF StartServer, StopServer, BeginRelease, Join, FreeInfos, locals, Untouched
<1>2. ThreadsInv'
  <2>1. CASE StartServer
    BY <2>1 DEF StartServer, DbInv, ThreadsInv, locals
  <2>2. CASE StopServer
    BY <2>2 DEF StopServer, DbInv, ThreadsInv, locals
  <2>3. CASE BeginRelease
    BY <2>3 DEF BeginRelease, DbInv, ThreadsInv, locals
  <2>4. CASE Join
    BY <2>4 DEF Join, DbInv, ThreadsInv, locals, webvars
  <2>5. CASE FreeInfos
    BY <2>5 DEF FreeInfos, DbInv, ThreadsInv, locals
  <2>6. QED
    BY <2>1, <2>2, <2>3, <2>4, <2>5
<1>3. Below(it)' = Below(it)
  BY <1>1 DEF Below, TableNames, contents
<1>4. server' = "scan" => server = "scan"
  BY DEF StartServer, StopServer, BeginRelease, Join, FreeInfos
<1>5. QED
  BY <1>1, <1>2, <1>3, <1>4, ThreadStep DEF DbInv

\* The end of fdb_database_release, with no thread of a server left.
LEMMA Releases ==
  ASSUME DbInv, Release
  PROVE  DbInv'
<1>1. app = "release" /\ app' = "idle" /\ ~m_mutex /\ ClearContents
  BY DEF Release, DbInv
<1>2. ContentsInv'
  BY <1>1, ContentsCleared
<1>3. ThreadsInv' /\ server' = "off"
  BY <1>1 DEF Release, DbInv, ThreadsInv, locals
<1>4. QED
  BY <1>1, <1>2, <1>3 DEF DbInv

\* The thread of the server outside of fdb_database_metadata.
LEMMA ServerMoves ==
  ASSUME DbInv, ServerAccept \/ ServerRead \/ ServerExit \/ CountTables \/ Grow \/ Reply
  PROVE  DbInv'
<1>1. UNCHANGED contents /\ destructed' = {} /\ app' = app /\ server' # "scan" /\ server # "scan"
      /\ m_mutex' = m_mutex /\ m_running' = m_running
  BY DEF ServerAccept, ServerRead, ServerExit, CountTables, Grow, Reply, webvars, locals, Untouched
<1>2. ThreadsInv'
  <2>1. CASE ServerAccept \/ ServerRead \/ ServerExit
    BY <2>1 DEF ServerAccept, ServerRead, ServerExit, DbInv, ThreadsInv, webvars, locals
  <2>2. CASE CountTables
    <3>1. Cardinality(TableNames) \in Nat
      <4>1. TableNames \in SUBSET Names
        BY DEF TableNames
      <4>2. QED
        BY <4>1, FS_Subset, FS_CardinalityType, DatabaseAssumption
    <3>2. QED
      BY <2>2, <3>1 DEF CountTables, DbInv, ThreadsInv, webvars
  <2>3. CASE Grow
    <3>1. \A k \in Nat : Uninitialised(k) \in [1..k -> Names \cup {NULL}]
      BY DEF Uninitialised
    <3>2. m_table_infos_capacity' \in Nat
          /\ IF m_table_infos_capacity' = 0 THEN m_table_infos' = NULL
             ELSE m_table_infos' \in [1..m_table_infos_capacity' -> Names \cup {NULL}]
      BY <2>3, <3>1 DEF Grow, DbInv, ThreadsInv
    <3>3. QED
      BY <1>1, <2>3, <3>2 DEF Grow, DbInv, ThreadsInv
  <2>4. CASE Reply
    <3>1. Uninitialised(m_table_infos_capacity) \in [1..m_table_infos_capacity -> Names \cup {NULL}]
      BY DEF Uninitialised
    <3>2. m_table_infos_capacity' = m_table_infos_capacity
      BY <2>4 DEF Reply
    <3>3. IF m_table_infos_capacity' = 0 THEN m_table_infos' = NULL
          ELSE m_table_infos' \in [1..m_table_infos_capacity' -> Names \cup {NULL}]
      BY <2>4, <3>1, <3>2, Buffers DEF Reply, DbInv, ThreadsInv
    <3>4. QED
      BY <1>1, <2>4, <3>2, <3>3 DEF Reply, DbInv, ThreadsInv
  <2>5. QED
    BY <2>1, <2>2, <2>3, <2>4
<1>3. QED
  BY <1>1, <1>2, ThreadStep DEF DbInv

\* The walk of fdb_database_metadata: it begins at the first table ...
LEMMA ReportBegins ==
  ASSUME DbInv, BeginMetadata
  PROVE  DbInv'
<1>1. UNCHANGED contents /\ destructed' = {} /\ app' = app /\ count' = 0 /\ it' = 0 /\ ThreadsInv'
  BY DEF BeginMetadata, DbInv, ThreadsInv, webvars, Untouched
<1>2. Below(it)' = {}
  <2>1. Below(it)' = {m \in TableNames' : m < 0}
    BY <1>1 DEF Below
  <2>2. \A m \in TableNames' : m \in Nat
    BY DatabaseAssumption DEF TableNames
  <2>3. \A m \in TableNames' : ~(m < 0)
    BY <2>2
  <2>4. QED
    BY <2>1, <2>3
<1>3. QED
  BY <1>1, <1>2, FS_EmptySet, ThreadStep DEF DbInv

\* ... takes one more table while there is room for it ...
LEMMA ReportGoesOn ==
  ASSUME DbInv, NextInfo
  PROVE  DbInv'
<1> DEFINE n == CHOOSE x \in Remaining : \A m \in Remaining : x <= m
<1>1. /\ server = "scan" /\ Remaining # {} /\ count < m_table_infos_capacity
      /\ m_table_infos' = IF m_table_infos = NULL THEN NULL ELSE [m_table_infos EXCEPT ![1] = n]
      /\ it' = n + 1 /\ count' = count + 1
      /\ UNCHANGED <<contents, m_running, m_table_infos_capacity, m_mutex, num_tables, server, app>>
      /\ destructed' = {}
  BY DEF NextInfo, MoreInfos, Untouched
<1>2. n \in Remaining /\ \A m \in Remaining : n <= m
  <2>1. Remaining \subseteq Nat
    BY DatabaseAssumption DEF Remaining, TableNames
  <2>2. PICK x \in Remaining : \A m \in Remaining : <<m, x>> \notin OpToRel(<, Nat)
    BY <1>1, <2>1, WFMin, NatLessThanWellFounded
  <2>3. \A m \in Remaining : ~(m < x)
    BY <2>1, <2>2 DEF OpToRel
  <2>4. \A m \in Remaining : x <= m
    BY <2>1, <2>3
  <2>5. QED
    BY <2>4
<1> HIDE DEF n
<1>3. n \in Names /\ n \in Nat /\ n \in TableNames /\ it \in Nat /\ it <= n
  BY <1>2, DatabaseAssumption DEF Remaining, TableNames, DbInv, ThreadsInv
<1>4. ThreadsInv'
  <2>1. m_table_infos \in [1..m_table_infos_capacity -> Names \cup {NULL}] /\ m_table_infos_capacity # 0
    BY <1>1 DEF DbInv, ThreadsInv
  <2>2. m_table_infos' \in [1..m_table_infos_capacity -> Names \cup {NULL}]
    BY <1>1, <1>3, <2>1, Buffers DEF DbInv, ThreadsInv
  <2>3. count' \in Nat /\ it' \in Nat /\ count' <= m_table_infos_capacity
    BY <1>1, <1>3 DEF DbInv, ThreadsInv
  <2>4. QED
    BY <1>1, <2>1, <2>2, <2>3 DEF DbInv, ThreadsInv
<1>5. Below(it)' = Below(it) \cup {n} /\ n \notin Below(it)
  <2>1. TableNames' = TableNames /\ TableNames \subseteq Nat
    BY <1>1, DatabaseAssumption DEF TableNames, contents
  <2>2. \A m \in TableNames : m < n + 1 <=> m < it \/ m = n
    BY <1>2, <1>3, <2>1 DEF Remaining
  <2>3. Below(it)' = {m \in TableNames : m < n + 1}
    BY <1>1, <2>1 DEF Below
  <2>4. Below(it) = {m \in TableNames : m < it}
    BY DEF Below
  <2>5. n \notin Below(it)
    BY <1>3, <2>4
  <2>6. \A m : m \in Below(it)' <=> m \in Below(it) \/ m = n
    BY <1>3, <2>2, <2>3, <2>4
  <2>7. QED
    BY <2>5, <2>6
<1>6. Cardinality(Below(it)') = count'
  <2>1. Below(it) \in SUBSET Names
    BY DEF Below, TableNames
  <2>2. IsFiniteSet(Below(it))
    BY <2>1, FS_Subset, DatabaseAssumption
  <2>3. QED
    BY <1>1, <1>5, <2>2, FS_AddElement DEF DbInv
<1>7. QED
  BY <1>1, <1>4, <1>6, ThreadStep DEF DbInv

\* ... and leaves the lock.
LEMMA ReportEnds ==
  ASSUME DbInv, EndMetadata
  PROVE  DbInv'
<1>1. UNCHANGED contents /\ destructed' = {} /\ app' = app /\ server' = "reply" /\ ThreadsInv'
  BY DEF EndMetadata, DbInv, ThreadsInv, webvars, Untouched
<1>2. QED
  BY <1>1, ThreadStep DEF DbInv

---------------------------------------------------------------------------
\* Before the first call there is nothing to account for.
LEMMA DbInvInit == DbInit => DbInv
<1> SUFFICES ASSUME DbInit PROVE DbInv
  OBVIOUS
<1>1. TableNames = {}
  BY DEF DbInit, TableNames
<1>2. ContentsInv
  BY <1>1 DEF DbInit, ContentsInv, Accounted
<1>3. ThreadsInv
  BY DEF DbInit, ThreadsInv
<1>4. QED
  BY <1>2, <1>3 DEF DbInit, DbInv

\* Every call of the application and every step of the server keeps the invariant.
LEMMA DbInvNext == DbInv /\ [DbNext]_vars => DbInv'
<1> SUFFICES ASSUME DbInv, [DbNext]_vars PROVE DbInv'
  OBVIOUS
<1>1. CASE TableCalls
  <2>1. PICK n \in Names :
          \/ CreateTable(n) \/ FindOrCreateTable(n) \/ ClearTable(n) \/ RemoveTable(n)
          \/ \E id \in Ids : AddComponent(n, id) \/ RemoveComponent(n, id) \/ Enable(n, id) \/ Disable(n, id)
    BY <1>1 DEF TableCalls
  <2>2. CASE \E id \in Ids : AddComponent(n, id) \/ RemoveComponent(n, id) \/ Enable(n, id) \/ Disable(n, id)
    BY <2>2, ComponentAdded, ComponentRemoved, MaskSet
  <2>3. QED
    BY <2>1, <2>2, TableCreates, TableClears
<1>2. CASE OtherCalls
  <2>1. CASE \E id \in Ids : ClearEntity(id)
    BY <2>1, EntityCleared
  <2>2. CASE \E g \in Tags : GetTaggedEntities(g) \/ \E id \in Linked : TagEntity(g, id) \/ UntagEntity(g, id)
    BY <2>2, TagCalls, DatabaseAssumption
  <2>3. CASE \E r \in RefNames : \/ FindOrCreateReftable(r)
                                 \/ \E tail \in Linked : AddReference(r, tail) \/ RemoveReference(r, tail)
    BY <2>3, ReferenceCalls, DatabaseAssumption
  <2>4. CASE \E g \in Globals : CreateGlobal(g) \/ RemoveGlobal(g)
    BY <2>4, GlobalCalls
  <2>5. CASE Clear
    <3>1. Calls /\ ~m_mutex /\ ClearContents
      BY <2>5 DEF Clear, Locks
    <3>2. QED
      BY <3>1, ContentsCleared, CallFrame
  <2>6. QED
    BY <1>2, <2>1, <2>2, <2>3, <2>4, <2>5 DEF OtherCalls
<1>3. CASE StartServer \/ StopServer \/ BeginRelease \/ StopSteps
  BY <1>3, AppSteps, Releases DEF StopSteps
<1>4. CASE ServerAccept \/ ServerStep
  BY <1>4, ServerMoves, ReportBegins, ReportGoesOn, ReportEnds DEF ServerStep
<1>5. CASE UNCHANGED vars
  <2>1. UNCHANGED contents /\ destructed' = destructed /\ ThreadsInv' /\ app' = app /\ server' = server /\ count' = count /\ it' = it
    BY <1>5 DEF vars, webvars, locals, DbInv, ThreadsInv
  <2>2. Below(it)' = Below(it)
    BY <2>1 DEF Below, TableNames, contents
  <2>3. QED
    BY <2>1, <2>2, ThreadStep DEF DbInv
<1>6. QED
  BY <1>1, <1>2, <1>3, <1>4, <1>5 DEF DbNext

---------------------------------------------------------------------------
\* What becomes of empty slots and of disabled components, call by call.

\* A call that turns the table of n into u, or takes it away.
LEMMA OneTable ==
  ASSUME DbInv, NEW n \in Names, NEW u, m_tables' = [m_tables EXCEPT ![n] = u],
         \A id \in Ids : u # NULL /\ id \in u.m_enabled \ u.m_exists =>
           EmptyShown(m_tables, n, id) \/ Enable(n, id),
         \A s \in destructed' \ live :
           \E id \in Ids : s = <<n, id>> /\ (EmptyShown(m_tables, n, id) \/ RemoveComponent(n, id)),
         \A s \in live \ live' : s \in destructed' \/ DisabledAndReleased(s)
  PROVE  LeavesEmptySlots /\ LosesDisabledOnly
<1>1. m_tables'[n] = u /\ \A m \in Names \ {n} : m_tables'[m] = m_tables[m]
  BY DEF DbInv, ContentsInv
<1>2. ASSUME NEW m \in Names, NEW id \in Ids, EmptyShown(m_tables', m, id)
      PROVE  EmptyShown(m_tables, m, id) \/ Enable(m, id)
  <2>1. CASE m = n
    BY <1>1, <1>2, <2>1 DEF EmptyShown
  <2>2. CASE m # n
    BY <1>1, <1>2, <2>2 DEF EmptyShown
  <2>3. QED
    BY <2>1, <2>2
<1>3. ASSUME NEW s \in destructed' \ live
      PROVE  /\ s \in Slots
             /\ EmptyShown(m_tables, s[1], s[2]) \/ RemoveComponent(s[1], s[2]) \/ ClearEntity(s[2])
  <2>1. PICK id \in Ids : s = <<n, id>> /\ (EmptyShown(m_tables, n, id) \/ RemoveComponent(n, id))
    OBVIOUS
  <2>2. s \in Slots /\ s[1] = n /\ s[2] = id
    BY <2>1 DEF Slots
  <2>3. QED
    BY <2>1, <2>2
<1>4. QED
  BY <1>2, <1>3 DEF LeavesEmptySlots, LosesDisabledOnly

\* A table and its slots.
LEMMA TableAt ==
  ASSUME DbInv, NEW n \in TableNames
  PROVE  /\ n \in Names /\ m_tables[n] \in Tables /\ m_tables[n] # NULL /\ TableSound(m_tables[n])
         /\ m_tables[n].m_enabled \subseteq Ids
         /\ \A id \in Ids : <<n, id>> \in live <=> n \in WithDestructor /\ id \in m_tables[n].m_exists
<1>1. n \in Names /\ m_tables[n] \in Tables /\ m_tables[n] # NULL /\ TableSound(m_tables[n])
  BY DEF DbInv, ContentsInv, TableNames
<1>2. m_tables[n].m_enabled \subseteq Ids
  BY <1>1, TableFields
<1>3. QED
  BY <1>1, <1>2 DEF DbInv, ContentsInv, Accounted

\* A new table is empty.
LEMMA TableLeaves ==
  ASSUME DbInv, NEW n \in Names, CreateTable(n) \/ FindOrCreateTable(n)
  PROVE  LeavesEmptySlots /\ LosesDisabledOnly
<1> DEFINE u == IF m_tables[n] = NULL THEN EmptyTable ELSE m_tables[n]
<1>1. destructed' = {} /\ live' = live /\ m_tables' = [m_tables EXCEPT ![n] = u]
  BY DEF CreateTable, FindOrCreateTable, Keeps
<1>2. \A i \in Ids : i \in u.m_enabled \ u.m_exists => EmptyShown(m_tables, n, i)
  BY DEF EmptyTable, EmptyShown
<1> HIDE DEF u
<1>3. QED
  BY <1>1, <1>2, OneTable

\* A new component is enabled where it exists; of the mask's bits only those that
\* fdb_table_enable_component sets need not be.
LEMMA NothingLost ==
  ASSUME DbInv, NEW n \in Names, NEW id \in Ids, AddComponent(n, id) \/ Enable(n, id) \/ Disable(n, id)
  PROVE  LeavesEmptySlots /\ LosesDisabledOnly
<1>1. n \in TableNames /\ destructed' = {} /\ live \subseteq live'
  BY DEF AddComponent, Enable, Disable, Keeps
<1>2. CASE AddComponent(n, id)
  <2> DEFINE u == CreateComponent(m_tables[n], id)
  <2>1. \A i \in Ids : i \in u.m_enabled \ u.m_exists => EmptyShown(m_tables, n, i)
    BY <1>1, TableAt DEF CreateComponent, EmptyShown
  <2>2. m_tables' = [m_tables EXCEPT ![n] = u]
    BY <1>2 DEF AddComponent
  <2> HIDE DEF u
  <2>3. QED
    BY <1>1, <2>1, <2>2, OneTable
<1>3. CASE Enable(n, id)
  <2> DEFINE u == EnableComponent(m_tables[n], id)
  <2>1. \A i \in Ids : i \in u.m_enabled \ u.m_exists => EmptyShown(m_tables, n, i) \/ i = id
    BY <1>1, TableAt DEF EnableComponent, Tables, EmptyShown
  <2>2. m_tables' = [m_tables EXCEPT ![n] = u]
    BY <1>3 DEF Enable
  <2> HIDE DEF u
  <2>3. QED
    BY <1>1, <1>3, <2>1, <2>2, OneTable
<1>4. CASE Disable(n, id)
  <2> DEFINE u == DisableComponent(m_tables[n], id)
  <2>1. \A i \in Ids : i \in u.m_enabled \ u.m_exists => EmptyShown(m_tables, n, i)
    BY <1>1, TableAt DEF DisableComponent, Tables, EmptyShown
  <2>2. m_tables' = [m_tables EXCEPT ![n] = u]
    BY <1>4 DEF Disable
  <2> HIDE DEF u
  <2>3. QED
    BY <1>1, <2>1, <2>2, OneTable
<1>5. QED
  BY <1>2, <1>3, <1>4

\* fdb_table_clear and the removal of a table: what is enabled is destructed, what is disabled lost.
LEMMA TableCleared ==
  ASSUME DbInv, NEW n \in Names, ClearTable(n) \/ RemoveTable(n)
  PROVE  LeavesEmptySlots /\ LosesDisabledOnly
<1>1. /\ n \in TableNames /\ live' = live \ ({n} \X Ids)
      /\ destructed' = SlotsOf(n, ClearCalls(m_tables[n]))
      /\ m_tables' = [m_tables EXCEPT ![n] = EmptyTable] \/ m_tables' = [m_tables EXCEPT ![n] = NULL]
  BY DEF ClearTable, RemoveTable, Cleared, GivesUp
<1>2. PICK u \in {NULL, EmptyTable} : m_tables' = [m_tables EXCEPT ![n] = u]
  BY <1>1
<1>3. u = NULL \/ \A id \in Ids : id \notin u.m_enabled /\ ~HasBlock(u, id)
  BY <1>2 DEF EmptyTable, HasBlock
<1>4. ASSUME NEW s \in destructed' \ live
      PROVE  \E id \in Ids : s = <<n, id>> /\ EmptyShown(m_tables, n, id)
  <2>1. PICK id \in Ids : s = <<n, id>> /\ n \in WithDestructor /\ id \in m_tables[n].m_enabled
    BY <1>1, TableAt DEF SlotsOf, ClearCalls
  <2>2. QED
    BY <1>1, <2>1, TableAt DEF EmptyShown
<1>5. ASSUME NEW s \in live \ live' PROVE s \in destructed' \/ DisabledAndReleased(s)
  <2>1. PICK id \in Ids : s = <<n, id>>
    BY <1>1
  <2>2. n \in WithDestructor /\ id \in m_tables[n].m_exists
    BY <1>1, <2>1, TableAt
  <2>3. CASE id \in m_tables[n].m_enabled
    BY <1>1, <2>1, <2>2, <2>3 DEF SlotsOf, ClearCalls
  <2>4. CASE id \notin m_tables[n].m_enabled
    <3>1. m_tables'[n] = u
      BY <1>2 DEF DbInv, ContentsInv
    <3>2. m_tables'[n] = NULL \/ ~HasBlock(m_tables'[n], id)
      BY <1>3, <3>1
    <3>3. s[1] = n /\ s[2] = id /\ s \in Slots
      BY <2>1 DEF Slots
    <3>4. QED
      BY <2>2, <2>4, <3>2, <3>3 DEF DisabledAndReleased
  <2>5. QED
    BY <2>3, <2>4
<1>6. QED
  BY <1>2, <1>3, <1>4, <1>5, OneTable

\* FDB_REMOVE_COMPONENT: what exists has a block and is destructed, disabled or not.
LEMMA ComponentLeaves ==
  ASSUME DbInv, NEW n \in Names, NEW id \in Ids, RemoveComponent(n, id)
  PROVE  LeavesEmptySlots /\ LosesDisabledOnly
<1>1. /\ n \in TableNames /\ live' = live \ {<<n, id>>}
      /\ destructed' = SlotsOf(n, DestroyCalls(m_tables[n], id))
      /\ m_tables' = [m_tables EXCEPT ![n] = DestroyComponent(m_tables[n], id)]
  BY DEF RemoveComponent, GivesUp
<1>2. \A i \in Ids : i \in DestroyComponent(m_tables[n], id).m_enabled \ DestroyComponent(m_tables[n], id).m_exists =>
        EmptyShown(m_tables, n, i)
  BY <1>1, TableAt DEF DestroyComponent, EmptyShown
<1>3. \A s \in destructed' : s = <<n, id>>
  BY <1>1 DEF SlotsOf, DestroyCalls
<1>4. ASSUME NEW s \in live \ live' PROVE s \in destructed'
  BY <1>1, TableAt DEF SlotsOf, DestroyCalls, TableSound
<1>5. QED
  BY <1>1, <1>2, <1>3, <1>4, OneTable

\* fdb_database_clear_entity does the same to all tables.
LEMMA EntityLeaves ==
  ASSUME DbInv, NEW id \in Ids, ClearEntity(id)
  PROVE  LeavesEmptySlots /\ LosesDisabledOnly
<1>1. /\ live' = live \ (Names \X {id})
      /\ destructed' = UNION {SlotsOf(n, DestroyCalls(m_tables[n], id)) : n \in TableNames}
      /\ m_tables' = [n \in Names |-> IF n \in TableNames THEN DestroyComponent(m_tables[n], id) ELSE NULL]
  BY DEF ClearEntity, GivesUp
<1>2. ASSUME NEW n \in Names, NEW i \in Ids, EmptyShown(m_tables', n, i)
      PROVE  EmptyShown(m_tables, n, i)
  <2>1. n \in TableNames /\ m_tables'[n] = DestroyComponent(m_tables[n], id)
    BY <1>1, <1>2 DEF EmptyShown
  <2>2. QED
    BY <1>2, <2>1, TableAt DEF DestroyComponent, EmptyShown
<1>3. ASSUME NEW s \in destructed' PROVE s \in Slots /\ s[2] = id
  BY <1>1 DEF SlotsOf, DestroyCalls, Slots, TableNames
<1>4. ASSUME NEW s \in live \ live' PROVE s \in destructed'
  <2>1. PICK n \in Names : s = <<n, id>>
    BY <1>1
  <2>2. n \in WithDestructor \cap TableNames /\ id \in m_tables[n].m_exists
    BY <2>1 DEF DbInv, ContentsInv, Accounted
  <2>3. s \in SlotsOf(n, DestroyCalls(m_tables[n], id))
    BY <2>1, <2>2, TableAt DEF SlotsOf, DestroyCalls, TableSound
  <2>4. QED
    BY <1>1, <2>2, <2>3
<1>5. QED
  BY <1>2, <1>3, <1>4 DEF LeavesEmptySlots, LosesDisabledOnly

\* fdb_database_clear: as the removal of every table, and the globals are destructed.
LEMMA ContentsLeave ==
  ASSUME DbInv, ClearContents
  PROVE  LeavesEmptySlots /\ LosesDisabledOnly
<1>1. /\ live' = {} /\ m_tables' = [n \in Names |-> NULL]
      /\ destructed' = (UNION {SlotsOf(n, ClearCalls(m_tables[n])) : n \in TableNames}) \cup m_globals
  BY DEF ClearContents, GivesUp
<1>2. ASSUME NEW s \in destructed' \ live
      PROVE  s \in Slots /\ EmptyShown(m_tables, s[1], s[2])
  <2>1. s \notin m_globals
    BY DEF DbInv, ContentsInv, Accounted
  <2>2. PICK n \in TableNames : s \in SlotsOf(n, ClearCalls(m_tables[n]))
    BY <1>1, <2>1
  <2>3. PICK id \in Ids : s = <<n, id>> /\ n \in WithDestructor /\ id \in m_tables[n].m_enabled
    BY <2>2, TableAt DEF SlotsOf, ClearCalls
  <2>4. n \in Names /\ m_tables[n] # NULL /\ id \notin m_tables[n].m_exists
    BY <2>3, TableAt
  <2>5. QED
    BY <2>3, <2>4 DEF EmptyShown, Slots
<1>3. ASSUME NEW s \in live PROVE s \in destructed' \/ DisabledAndReleased(s)
  <2>1. CASE s \in Globals
    BY <1>1, <2>1 DEF DbInv, ContentsInv, Accounted
  <2>2. CASE s \in Slots
    <3>1. PICK n \in Names, id \in Ids : s = <<n, id>>
      BY <2>2 DEF Slots
    <3>2. n \in WithDestructor \cap TableNames /\ id \in m_tables[n].m_exists
      BY <1>3, <3>1 DEF DbInv, ContentsInv, Accounted
    <3>3. CASE id \in m_tables[n].m_enabled
      <4>1. s \in SlotsOf(n, ClearCalls(m_tables[n]))
        BY <3>1, <3>2, <3>3 DEF SlotsOf, ClearCalls
      <4>2. QED
        BY <1>1, <3>2, <4>1
    <3>4. CASE id \notin m_tables[n].m_enabled
      <4>1. s[1] = n /\ s[2] = id /\ m_tables'[n] = NULL
        BY <1>1, <3>1
      <4>2. QED
        BY <2>2, <3>2, <3>4, <4>1 DEF DisabledAndReleased
    <3>5. QED
      BY <3>3, <3>4
  <2>3. QED
    BY <1>3, <2>1, <2>2 DEF DbInv, ContentsInv, Accounted
<1>4. QED
  BY <1>1, <1>2, <1>3 DEF LeavesEmptySlots, LosesDisabledOnly, EmptyShown

\* Steps that leave the tables of components alone.
LEMMA SameTables ==
  ASSUME DbInv, m_tables' = m_tables, destructed' \subseteq live, live \ live' \subseteq destructed'
  PROVE  LeavesEmptySlots /\ LosesDisabledOnly
  BY DEF LeavesEmptySlots, LosesDisabledOnly

\* Every step.
LEMMA StepLeaves ==
  ASSUME DbInv, DbNext
  PROVE  LeavesEmptySlots /\ LosesDisabledOnly
<1>1. CASE TableCalls
  <2>1. PICK n \in Names :
          \/ CreateTable(n) \/ FindOrCreateTable(n) \/ ClearTable(n) \/ RemoveTable(n)
          \/ \E id \in Ids : AddComponent(n, id) \/ RemoveComponent(n, id) \/ Enable(n, id) \/ Disable(n, id)
    BY <1>1 DEF TableCalls
  <2>2. CASE \E id \in Ids : AddComponent(n, id) \/ RemoveComponent(n, id) \/ Enable(n, id) \/ Disable(n, id)
    BY <2>2, NothingLost, ComponentLeaves
  <2>3. QED
    BY <2>1, <2>2, TableLeaves, TableCleared
<1>2. CASE OtherCalls
  <2>1. CASE \E id \in Ids : ClearEntity(id)
    BY <2>1, EntityLeaves
  <2>2. CASE Clear
    BY <2>2, ContentsLeave DEF Clear
  <2>3. CASE \E g \in Globals : CreateGlobal(g) \/ RemoveGlobal(g)
    <3>1. m_tables' = m_tables /\ destructed' \subseteq live /\ live \ live' \subseteq destructed'
      BY <2>3 DEF CreateGlobal, RemoveGlobal, GivesUp, DbInv, ContentsInv, Accounted
    <3>2. QED
      BY <3>1, SameTables
  <2>4. CASE \/ \E g \in Tags : GetTaggedEntities(g) \/ \E id \in Linked : TagEntity(g, id) \/ UntagEntity(g, id)
             \/ \E r \in RefNames : \/ FindOrCreateReftable(r)
                                    \/ \E tail \in Linked : AddReference(r, tail) \/ RemoveReference(r, tail)
    <3>1. m_tables' = m_tables /\ destructed' = {} /\ live' = live
      BY <2>4 DEF GetTaggedEntities, TagEntity, UntagEntity, FindOrCreateReftable, AddReference,
                  RemoveReference, Keeps
    <3>2. QED
      BY <3>1, SameTables
  <2>5. QED
    BY <1>2, <2>1, <2>2, <2>3, <2>4 DEF OtherCalls
<1>3. CASE Release
  BY <1>3, ContentsLeave DEF Release
<1>4. CASE StartServer \/ StopServer \/ BeginRelease \/ Join \/ FreeInfos \/ ServerAccept \/ ServerStep
  <2>1. UNCHANGED contents /\ destructed' = {}
    BY <1>4 DEF StartServer, StopServer, BeginRelease, Join, FreeInfos, ServerAccept, ServerStep, ServerExit,
                ServerRead, CountTables, Grow, BeginMetadata, NextInfo, EndMetadata, Reply, Untouched
  <2>2. QED
    BY <2>1, SameTables DEF contents
<1>5. QED
  BY <1>1, <1>2, <1>3, <1>4 DEF DbNext, StopSteps

---------------------------------------------------------------------------
\* The theorems.

\* The inductive invariant of the database and the thread of its server: it holds after
\* fdb_database_init, and every call of database.h and every step of webserver.c keeps it.
THEOREM DbInvariant == DbSpec => []DbInv
<1>1. DbInit => DbInv
  BY DbInvInit
<1>2. DbInv /\ [DbNext]_vars => DbInv'
  BY DbInvNext
<1>3. QED
  BY <1>1, <1>2, PTL DEF DbSpec

\* The trees, the tables in them, the fields of the webserver and the places of both threads
\* keep their types, for any names, entities and numbers of calls (database.c, webserver.c).
THEOREM DbTypeCorrect == DbSpec => []DbTypeOK
<1>1. DbInv => DbTypeOK
  BY InvProperties
<1>2. QED
  BY <1>1, DbInvariant, PTL

\* What the tables show as existing is what the application constructed in them and has not
\* destructed since, and the counters that fdb_table_size, fdb_bittable_size and the report show
\* agree with it, after any sequence of calls (table.c, bittable.c, reftable.c).
THEOREM TablesStayInStep == DbSpec => []TablesAgree
<1>1. DbInv => TablesAgree
  BY InvProperties
<1>2. QED
  BY <1>1, DbInvariant, PTL

\* A report (fdb_database_metadata, database.c:415-433) stays in the buffer that generate_json
\* sized by an earlier count, whatever the application creates and removes in between, and its
\* count is the number of tables it has passed.
THEOREM ReportsAreSound == DbSpec => []ReportSound
<1>1. DbInv => ReportSound
  BY InvProperties
<1>2. QED
  BY <1>1, DbInvariant, PTL

\* The mask comes to show an empty slot only by fdb_table_enable_component (table.c:469), and a
\* destructor runs on an empty slot only because the mask showed it or because the application
\* asked for it, by fdb_table_destroy_component or fdb_database_clear_entity (table.c:447).
THEOREM EmptySlotsAreLeftAlone == DbSpec => EmptySlotsLeftAlone
<1>1. DbInv /\ [DbNext]_vars => [LeavesEmptySlots]_vars
  BY StepLeaves
<1>2. QED
  BY <1>1, DbInvariant, PTL DEF DbSpec, EmptySlotsLeftAlone

\* Every component and global that is constructed goes through its destructor, unless it is
\* disabled when its table is cleared, removed or released (table.c:336-347).
THEOREM DisabledOnlyAreLost == DbSpec => OnlyDisabledLost
<1>1. DbInv /\ [DbNext]_vars => [LosesDisabledOnly]_vars
  BY StepLeaves
<1>2. QED
  BY <1>1, DbInvariant, PTL DEF DbSpec, OnlyDisabledLost
============================================================================
