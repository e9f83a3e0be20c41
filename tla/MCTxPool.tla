----------------------------- MODULE MCTxPool -----------------------------
(***************************************************************************)
(* The pool on a small instance: three transactions, so that an old reader *)
(* keeps the safepoint down while a writer works and a younger reader      *)
(* walks the chain.                                                        *)
(***************************************************************************)
EXTENDS TxPool, TLC

CONSTANT MaxBlock

MCBlocks == 1..MaxBlock
Symmetry == Permutations(Txs)
===========================================================================
