---------------------------- MODULE MCExecPlan ----------------------------
(***************************************************************************)
(* Every script of NumTasks statements over two component types, from no   *)
(* conflict at all to chains, diamonds and cycles.                         *)
(***************************************************************************)
EXTENDS ExecPlan

CONSTANTS x, y     \* two component types

Read(t) == [type |-> t, ro |-> TRUE]
Write(t) == [type |-> t, ro |-> FALSE]
Script(accesses, hints) == [access : accesses, hint : hints]

\* What a system does with x and y; two accesses to x are those of an expand.
MCAccesses == {{Write(x)}, {Read(x), Write(y)}, {Read(x)}, {Read(y)}, {Write(y)},
               {Read(x), Write(x)}, {Write(x), Read(y)}, {Write(x), Write(y)}}
MCStmts == Script(MCAccesses, {<<>>, <<0>>})
MCTypes == {x, y}

\* Writers and readers of one type.
OneTypeStmts == Script({{Write(x)}, {Read(x)}}, {<<>>})
WriterStmts == Script({{Write(x)}}, {<<>>, <<0>>, <<1>>})
===========================================================================
