------------------------------- MODULE Barrier -------------------------------
(***************************************************************************)
(* The barrier the generated code is handed (fdb_barrier_t of task.h) and  *)
(* how it uses it: a thread adds the stride to the number of arrivals it   *)
(* waits for, and waits until as many calls of p_wait have been made by    *)
(* all threads together.  The barrier is never reset.                      *)
(***************************************************************************)
EXTENDS Blocks, FiniteSets

VARIABLES arrived,      \* the state of the barrier: calls of p_wait
          last_barrier  \* what each thread waits for

barrierVars == <<arrived, last_barrier>>

BarrierInit == arrived = 0 /\ last_barrier = [t \in Threads |-> 0]

\* Mutant: one of the threads may still be missing.
Passed_Early(t) == arrived >= last_barrier[t] - 1

Passed(t) == arrived >= last_barrier[t]

\* Threads wait for each other only if there are several.
Arrive(t) ==
  /\ arrived' = IF Stride > 1 THEN arrived + 1 ELSE arrived
  /\ last_barrier' = IF Stride > 1 THEN [last_barrier EXCEPT ![t] = @ + Stride] ELSE last_barrier

BarrierNext == \E t \in Threads : Passed(t) /\ Arrive(t)

\* What the code promises of the barrier: a thread that has not passed the one it waits for
\* does not arrive at the next, so that the count never runs ahead of the slowest thread.
BarrierSpec == BarrierInit /\ [][BarrierNext]_barrierVars

\* A thread that has passed a barrier finds every other at the same one or at the next: what
\* a thread writes between two barriers is complete before another reads it, and is not
\* written again before all have read it.
Lockstep ==
  \A t, u \in Threads : Passed(t) => last_barrier[u] - last_barrier[t] \in {0, Stride}
===========================================================================
