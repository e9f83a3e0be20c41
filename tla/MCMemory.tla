----------------------------- MODULE MCMemory -----------------------------
(***************************************************************************)
(* A region of eight small pages, of which two make a large one; pages of *)
(* three blocks, the first of them the header, and frames of two           *)
(* addresses: three blocks in use reach a second page and a second frame.  *)
(***************************************************************************)
EXTENDS Memory
===========================================================================
