------------------------------- MODULE MCTx -------------------------------
(***************************************************************************)
(* The transaction manager alone, under fairness: three transaction objects *)
(* and ids up to MaxId, so that two writers queue while readers that began *)
(* before and after a commit overlap.                                      *)
(***************************************************************************)
EXTENDS Tx
===========================================================================
