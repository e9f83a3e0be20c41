----------------------------- MODULE TaskGraph -----------------------------
(***************************************************************************)
(* The task graph of the runtime, src/runtime/task/task.c: the program     *)
(* generated by fcc builds it once and runs it on every frame, on one      *)
(* thread.  A run looks for a task whose parents have been visited, runs   *)
(* it, and then its descendants, frontier by frontier; a task is marked as *)
(* visited when it is put into a frontier, before its function is called.  *)
(*                                                                         *)
(* The parents and children of a fdb_task_t are arrays of MaxLinks words   *)
(* followed by their two counters.  mem holds these words as they lie in   *)
(* memory, since nothing checks the bounds of the arrays when assertions   *)
(* are compiled out.                                                       *)
(***************************************************************************)
EXTENDS Integers, Sequences

CONSTANTS NumTasks,   \* m_num_tasks
          MaxLinks    \* FCC_MAX_TASK_PARENTS = FCC_MAX_TASK_CHILDREN (16)

ASSUME TaskAssumption == NumTasks \in Nat /\ MaxLinks \in Nat \ {0}

Tasks == 0..(NumTasks - 1)

VARIABLES mem,          \* the words m_parents[], m_children[], m_num_parents, m_num_children
          runpc,        \* where fdb_task_graph_run is
          visited,      \* visited_nodes
          found,        \* has this pass over the tasks found one
          cursor,       \* i, the task the pass has come to
          cfrontier, nfrontier,
          ii, j,        \* the next task of cfrontier, the next child of the task that has run
          executed      \* history: the tasks whose function was called, in order

local == <<visited, found, cursor, cfrontier, nfrontier, ii, j, executed>>
taskvars == <<mem, runpc, local>>

---------------------------------------------------------------------------
\* The layout of a fdb_task_t.
ParentWord(k) == k
ChildWord(k) == MaxLinks + k
NumParentsWord == 2 * MaxLinks
NumChildrenWord == 2 * MaxLinks + 1
Words == 0..(2 * MaxLinks + 1)

NumParents(t) == mem[t][NumParentsWord]
NumChildren(t) == mem[t][NumChildrenWord]
Parents(t) == {mem[t][ParentWord(k)] : k \in 0..(NumParents(t) - 1)}
Child(t, k) == mem[t][ChildWord(k)]

\* Mutant: the memory of the tasks is as it was allocated.
Zeroed_NotCleared == [t \in Tasks |-> [w \in Words |-> -1]]

\* fdb_task_graph_insert_task for every task.
Zeroed == [t \in Tasks |-> [w \in Words |-> 0]]

\* Mutant: the child is stored over the last one.
SetParent_Overwrites(m, c, p) ==
  LET np == m[c][NumParentsWord]
      m1 == [m EXCEPT ![c][ParentWord(np)] = p, ![c][NumParentsWord] = np + 1]
  IN [m1 EXCEPT ![p][ChildWord(0)] = c, ![p][NumChildrenWord] = 1]

\* fdb_task_graph_set_parent on the memory m.
SetParent(m, c, p) ==
  LET np == m[c][NumParentsWord]
      m1 == [m EXCEPT ![c][ParentWord(np)] = p, ![c][NumParentsWord] = np + 1]
      nc == m1[p][NumChildrenWord]
  IN [m1 EXCEPT ![p][ChildWord(nc)] = c, ![p][NumChildrenWord] = nc + 1]

---------------------------------------------------------------------------
\* Mutant: one visited parent is enough.

AllVisitedParents(t) == \A p \in Parents(t) : visited[p]

Ready(t) == ~visited[t] /\ AllVisitedParents(t)

\* fdb_task_graph_run is called: the locals of a run.
RunInit ==
  /\ visited' = [t \in Tasks |-> FALSE]
  /\ found' = FALSE /\ cursor' = 0
  /\ cfrontier' = <<>> /\ nfrontier' = <<>>
  /\ ii' = 1 /\ j' = 0
  /\ executed' = <<>>

BeginRun ==
  /\ runpc \in {"idle", "done"}
  /\ RunInit
  /\ runpc' = "scan"
  /\ UNCHANGED mem

\* The pass comes to a task that is ready, which becomes the first frontier.
PickTask ==
  /\ runpc = "scan"
  /\ \E t \in Tasks :
       /\ t >= cursor /\ Ready(t)
       /\ \A u \in Tasks : u >= cursor /\ Ready(u) => t <= u
       /\ visited' = [visited EXCEPT ![t] = TRUE]
       /\ cfrontier' = <<t>>
       /\ cursor' = t + 1
  /\ found' = TRUE
  /\ ii' = 1
  /\ runpc' = "frontier"
  /\ UNCHANGED <<mem, nfrontier, j, executed>>

\* Mutant: found is not reset for the next pass.
PassEnds_StillFound ==
  /\ cursor' = 0
  /\ found' = found
  /\ runpc' = IF found THEN "scan" ELSE "done"

\* The pass is over; another one follows if it found a task.
PassEnds ==
  /\ cursor' = 0
  /\ found' = FALSE
  /\ runpc' = IF found THEN "scan" ELSE "done"

EndPass ==
  /\ runpc = "scan"
  /\ \A t \in Tasks : t >= cursor => ~Ready(t)
  /\ PassEnds
  /\ UNCHANGED <<mem, visited, cfrontier, nfrontier, ii, j, executed>>

Current == cfrontier[ii]

\* The function of the next task of the frontier is called.
RunTask ==
  /\ runpc = "frontier"
  /\ ii <= Len(cfrontier)
  /\ executed' = Append(executed, Current)
  /\ j' = 0
  /\ runpc' = "children"
  /\ UNCHANGED <<mem, visited, found, cursor, cfrontier, nfrontier, ii>>

\* Mutant: the child goes to the front of the next frontier.
Queue_Front(t) == <<t>> \o nfrontier

Queue(t) == Append(nfrontier, t)

\* A child all of whose parents have been visited is put into the next frontier.
QueueChild ==
  /\ runpc = "children"
  /\ j < NumChildren(Current)
  /\ j' = j + 1
  /\ LET c == Child(Current, j)
     IN IF Ready(c)
        THEN nfrontier' = Queue(c) /\ visited' = [visited EXCEPT ![c] = TRUE]
        ELSE UNCHANGED <<nfrontier, visited>>
  /\ UNCHANGED <<mem, runpc, found, cursor, cfrontier, ii, executed>>

NextTask ==
  /\ runpc = "children"
  /\ j >= NumChildren(Current)
  /\ ii' = ii + 1
  /\ runpc' = "frontier"
  /\ UNCHANGED <<mem, visited, found, cursor, cfrontier, nfrontier, j, executed>>

\* The frontier is done: the next one, or back to the pass when it is empty.
NextFrontier ==
  /\ runpc = "frontier"
  /\ ii > Len(cfrontier)
  /\ cfrontier' = nfrontier
  /\ nfrontier' = <<>>
  /\ ii' = 1
  /\ runpc' = IF nfrontier = <<>> THEN "scan" ELSE "frontier"
  /\ UNCHANGED <<mem, visited, found, cursor, j, executed>>

RunStep ==
  \/ PickTask
  \/ EndPass
  \/ RunTask
  \/ QueueChild
  \/ NextTask
  \/ NextFrontier

\* The graph alone, built already: what fcc generates is in ExecPlan.
TaskInit ==
  /\ mem \in [Tasks -> [Words -> Nat]]
  /\ \A t \in Tasks :
       /\ Parents(t) \subseteq Tasks
       /\ NumChildren(t) <= MaxLinks
       /\ \A k \in 0..(NumChildren(t) - 1) : Child(t, k) \in Tasks
  /\ runpc = "idle"
  /\ visited = [t \in Tasks |-> FALSE]
  /\ found = FALSE /\ cursor = 0
  /\ cfrontier = <<>> /\ nfrontier = <<>>
  /\ ii = 1 /\ j = 0
  /\ executed = <<>>

TaskNext == BeginRun \/ RunStep

TaskSpec == TaskInit /\ [][TaskNext]_taskvars

---------------------------------------------------------------------------
(***************************************************************************)
(* Properties.                                                             *)
(***************************************************************************)

TaskTypeOK ==
  /\ mem \in [Tasks -> [Words -> Nat]]
  /\ runpc \in {"idle", "scan", "frontier", "children", "done"}
  /\ visited \in [Tasks -> BOOLEAN]
  /\ found \in BOOLEAN
  /\ cursor \in Nat
  /\ cfrontier \in Seq(Tasks)
  /\ nfrontier \in Seq(Tasks)
  /\ ii \in Nat \ {0}
  /\ j \in Nat
  /\ executed \in Seq(Tasks)

\* A task is not called twice in a frame, and never before one of its parents, although a
\* frontier is filled from tasks that are only about to run (task.c:115-138).
ParentsFirst ==
  \A k \in DOMAIN executed :
    /\ \A l \in DOMAIN executed : executed[l] = executed[k] => l = k
    /\ \A p \in Parents(executed[k]) : \E l \in 1..(k - 1) : executed[l] = p

\* No task is its own ancestor: every set of tasks has one with no parent in the set.
GraphAcyclic ==
  \A S \in SUBSET Tasks : S # {} => \E t \in S : Parents(t) \cap S = {}

\* When the run of an acyclic graph is over every task has been called: the passes stop only
\* when no task is ready (task.c:98-141).
AllTasksRun ==
  runpc = "done" /\ GraphAcyclic =>
    \A t \in Tasks : \E k \in DOMAIN executed : executed[k] = t
===========================================================================
