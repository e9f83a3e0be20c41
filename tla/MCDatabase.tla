---------------------------- MODULE MCDatabase ----------------------------
(***************************************************************************)
(* Two tables, one with a destructor, two entities that share a block, one *)
(* tag, one reference and one global.                                      *)
(***************************************************************************)
EXTENDS Database

\* Both entities have rows in the table with a destructor, one in the other.
MCRows == {<<1, 0>>, <<1, 1>>, <<2, 0>>}

\* The other entity never has a row.
FirstRow == {<<1, 0>>}
===========================================================================
