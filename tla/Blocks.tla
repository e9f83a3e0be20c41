------------------------------- MODULE Blocks -------------------------------
(***************************************************************************)
(* How the blocks of a table are shared out: the iterator of table.c with  *)
(* a chunk size, an offset and a stride.  One task runs with the offset of *)
(* each thread; a gather finds the thread that owns a block by its offset. *)
(***************************************************************************)
EXTENDS Integers

CONSTANTS ChunkSize,   \* consecutive blocks that go to the same thread
          Stride       \* threads

ASSUME BlocksAssumption == ChunkSize \in Nat \ {0} /\ Stride \in Nat \ {0}

Threads == 0..(Stride - 1)

\* is_selected: the stride is added so that the left operand is not negative.
IsSelected(block, offset) == ((block \div ChunkSize) + (Stride - offset)) % Stride = 0

\* block_get_offset
BlockOffset(block) == (block \div ChunkSize) % Stride
===========================================================================
