------------------------------- MODULE Table -------------------------------
(***************************************************************************)
(* Component tables and tag tables as values: src/runtime/data/table.c,    *)
(* bittable.c and reftable.c.  A table keeps its entities in blocks of     *)
(* BlockSize ids; a block has one bit per entity for "exists" and one for  *)
(* "enabled".  Blocks appear when a component is created in them and go    *)
(* away only when the whole table is cleared.                              *)
(*                                                                         *)
(* What a component holds is left out; whether one was constructed in a    *)
(* slot is kept by the module that calls these operators.  The counter of  *)
(* enabled components of a block is left out: nothing reads it.            *)
(***************************************************************************)
EXTENDS Integers, FiniteSets

CONSTANTS Ids,        \* entity ids
          BlockSize   \* FDB_TABLE_BLOCK_SIZE

ASSUME TableAssumption == Ids \subseteq Nat /\ IsFiniteSet(Ids) /\ BlockSize \in Nat \ {0}

\* decode_id
BlockOf(id) == id \div BlockSize

BlockIds == {BlockOf(id) : id \in Ids}

Tables == [m_blocks : SUBSET BlockIds, m_exists : SUBSET Ids, m_enabled : SUBSET Ids,
           m_num_components : Nat]

EmptyTable == [m_blocks |-> {}, m_exists |-> {}, m_enabled |-> {}, m_num_components |-> 0]

HasBlock(t, id) == BlockOf(id) \in t.m_blocks

\* fdb_table_create_component; fdb_reftable_add is the same on a reference table.
CreateComponent(t, id) ==
  [m_blocks |-> t.m_blocks \cup {BlockOf(id)},
   m_exists |-> t.m_exists \cup {id},
   m_enabled |-> t.m_enabled \cup {id},
   m_num_components |-> t.m_num_components + (IF id \in t.m_exists THEN 0 ELSE 1)]

\* Mutant: a component that was disabled or enabled stays in the mask.
DestroyComponent_KeepsEnabled(t, id) ==
  [t EXCEPT !.m_exists = @ \ {id},
            !.m_num_components = @ - (IF id \in t.m_exists THEN 1 ELSE 0)]

\* Mutant: every removal counts, also one of an absent component.
DestroyComponent_Counts(t, id) ==
  [t EXCEPT !.m_exists = @ \ {id}, !.m_enabled = @ \ {id}, !.m_num_components = @ - 1]

\* fdb_table_destroy_component, the part under the lock.
DestroyComponent(t, id) ==
  [m_blocks |-> t.m_blocks,
   m_exists |-> t.m_exists \ {id},
   m_enabled |-> t.m_enabled \ {id},
   m_num_components |-> t.m_num_components - (IF id \in t.m_exists THEN 1 ELSE 0)]

\* Mutant: the destructor runs on what the block iterator would show.
DestroyCalls_Enabled(t, id) == {id} \cap t.m_enabled

\* The slots it then runs the destructor on: the slot of id, whether a component exists in
\* it or not, unless there is no block.
DestroyCalls(t, id) == IF HasBlock(t, id) THEN {id} ELSE {}

EnableComponent(t, id) == IF HasBlock(t, id) THEN [t EXCEPT !.m_enabled = @ \cup {id}] ELSE t

DisableComponent(t, id) == [t EXCEPT !.m_enabled = @ \ {id}]

\* fdb_table_clear, and the slots it runs the destructor on: the block iterator returns
\* the enabled components.
Cleared(t) == EmptyTable
ClearCalls(t) == t.m_enabled

---------------------------------------------------------------------------
\* A tag table: the bits of its bitmaps and its own count of them.
BitTables == [bits : SUBSET Ids, m_size : Nat]
EmptyBitTable == [bits |-> {}, m_size |-> 0]

\* fdb_bittable_add
BitTableAdd(bt, id) ==
  IF id \in bt.bits THEN bt ELSE [bits |-> bt.bits \cup {id}, m_size |-> bt.m_size + 1]

\* fdb_bittable_remove
BitTableRemove(bt, id) ==
  IF id \in bt.bits THEN [bits |-> bt.bits \ {id}, m_size |-> bt.m_size - 1] ELSE bt
===========================================================================
