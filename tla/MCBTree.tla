------------------------------ MODULE MCBTree ------------------------------
(***************************************************************************)
(* Nodes of at most four children and leaves of at most two entries: six   *)
(* keys in the right order make a tree of three levels.                    *)
(***************************************************************************)
EXTENDS BTree
===========================================================================
