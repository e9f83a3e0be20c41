----------------------------- MODULE ExecPlan ------------------------------
(***************************************************************************)
(* The execution plan of the compiler, src/compiler/frontend/exec_plan.cpp:*)
(* the systems of a script are inserted one by one, an edge is drawn from  *)
(* b to a when a depends on b, a cyclic plan is refused, and fcc generates *)
(* the calls that build the task graph which the program runs.             *)
(*                                                                         *)
(* Composed with TaskGraph: from the components that the systems of a      *)
(* script read and write to the order in which their functions are called. *)
(***************************************************************************)
EXTENDS TaskGraph, SequencesExt

CONSTANTS Types,      \* the component types
          Stmts       \* the statements a script may contain (bound)

\* m_cmatches of the statement's system, and what set_priority was given, if anything.
Accesses == [type : Types, ro : BOOLEAN]

ASSUME PlanAssumption ==
  Stmts \subseteq [access : SUBSET Accesses, hint : {<<>>} \cup [1..1 -> Nat]]

VARIABLES stmts,                 \* p_stmts
          m_parents, m_children, \* of each node
          phase                  \* of fcc and then of the program it generates

planvars == <<stmts, m_parents, m_children, phase>>
vars == <<planvars, taskvars>>

---------------------------------------------------------------------------
\* fcc_stmt_init and process_set_priority.
Priority(s) == IF s.hint = <<>> THEN 1 ELSE s.hint[1]

\* Mutant: a reader and a writer are ordered by priority as two writers are.
IsDependent_ByPriority(a, b) ==
  \E ca \in a.access, cb \in b.access :
    ca.type = cb.type /\ ~cb.ro /\ Priority(a) >= Priority(b)

\* Statement a must run after b: b writes what a only reads, or what a writes at the same
\* priority number or a higher one.
IsDependent(a, b) ==
  \E ca \in a.access, cb \in b.access :
    ca.type = cb.type /\ ~cb.ro /\ (ca.ro \/ Priority(a) >= Priority(b))

Id == Len(stmts)
Stmt(n) == stmts[n + 1]

\* A loop over the nodes that appends those in S to a list.
Ascending(S) ==
  LET upto[n \in 0..NumTasks] ==
        IF n = 0 THEN <<>> ELSE IF n - 1 \in S THEN Append(upto[n - 1], n - 1) ELSE upto[n - 1]
  IN upto[NumTasks]

\* The links of the nodes once the node Id is among them.
WithNew(links, toNew, fromNew) ==
  [n \in Tasks |-> IF n = Id THEN Ascending(fromNew)
                   ELSE IF n \in toNew THEN Append(links[n], Id)
                   ELSE links[n]]

\* fcc_exec_plan_insert.
Insert(s) ==
  LET newDependsOn == {n \in 0..(Id - 1) : IsDependent(s, Stmt(n))}
      dependOnNew == {n \in 0..(Id - 1) : IsDependent(Stmt(n), s)}
  IN /\ phase = "insert" /\ Id < NumTasks
     /\ stmts' = Append(stmts, s)
     /\ m_parents' = WithNew(m_parents, dependOnNew, newDependsOn)
     /\ m_children' = WithNew(m_children, newDependsOn, dependOnNew)
     /\ UNCHANGED <<phase, taskvars>>

---------------------------------------------------------------------------
\* What dfs has: the nodes visited, the departure of each and the time.
Visits == [visited : SUBSET Tasks, departure : [Tasks -> Nat], time : Nat]
Enter(a, n) == [a EXCEPT !.visited = @ \cup {n}]
Leave(a, n) ==
  [visited |-> a.visited, departure |-> [a.departure EXCEPT ![n] = a.time], time |-> a.time + 1]

\* dfs on the nodes of a list that have not been visited when their turn comes; entering one
\* means the same for its children before the rest of the list.
Searches == Visits \X Seq(Tasks)

Dfs[x \in Searches] ==
  LET a == x[1]
      n == Head(x[2])
  IN IF x[2] = <<>> THEN a
     ELSE Dfs[<<IF n \in a.visited THEN a ELSE Leave(Dfs[<<Enter(a, n), m_children[n]>>], n),
                Tail(x[2])>>]

NotVisited == [visited |-> {}, departure |-> [n \in Tasks |-> 0], time |-> 0]
DfsFromRoots == Dfs[<<NotVisited, Ascending({n \in Tasks : m_parents[n] = <<>>})>>]

\* Mutant: a node that is its own descendant is not noticed when no root leads to it.
IsAcyclic_VisitedOnly ==
  LET d == DfsFromRoots
  IN \A n \in d.visited : \A c \in ToSet(m_children[n]) : d.departure[n] > d.departure[c]

\* is_acyclic.
IsAcyclic ==
  LET d == DfsFromRoots
  IN \A n \in Tasks : \A c \in ToSet(m_children[n]) : d.departure[n] > d.departure[c]

\* fcc_exec_plan_init ends with the check; main aborts when it fails.
CheckPlan ==
  /\ phase = "insert" /\ Id = NumTasks
  /\ phase' = IF IsAcyclic THEN "generate" ELSE "refused"
  /\ UNCHANGED <<stmts, m_parents, m_children, taskvars>>

---------------------------------------------------------------------------
\* fcc_exec_plan_get_valid_exec_sequence, which is what fcc prints.
SeqReady(vis, n) == n \notin vis /\ ToSet(m_parents[n]) \subseteq vis

\* Frontier after frontier, until one is empty.
SeqFrontier[seq \in Seq(Tasks), vis \in SUBSET Tasks, frontier \in Seq(Tasks)] ==
  LET Reach(acc, c) == IF SeqReady(acc.vis, c)
                       THEN [vis |-> acc.vis \cup {c}, next |-> Append(acc.next, c)]
                       ELSE acc
      after == FoldLeft(Reach, [vis |-> vis, next |-> <<>>],
                        FlattenSeq([k \in DOMAIN frontier |-> m_children[frontier[k]]]))
  IN IF frontier = <<>> THEN [seq |-> seq, vis |-> vis]
     ELSE SeqFrontier[seq \o frontier, after.vis, after.next]

\* Pass after pass, until one finds nothing.
Gathered == [seq : Seq(Tasks), vis : SUBSET Tasks]

SeqPasses[acc \in Gathered] ==
  LET Visit(a, n) == IF SeqReady(a.vis, n) THEN SeqFrontier[a.seq, a.vis \cup {n}, <<n>>] ELSE a
      pass == FoldLeft(Visit, acc, Ascending(Tasks))
  IN IF pass = acc THEN acc ELSE SeqPasses[pass]

ValidExecSequence == SeqPasses[[seq |-> <<>>, vis |-> {}]].seq

---------------------------------------------------------------------------
\* The calls of fdb_task_graph_set_parent that fcc_generate_task_graph writes for node n.
LinkParents(m, n) ==
  LET linked[k \in 0..Len(m_parents[n])] ==
        IF k = 0 THEN m ELSE SetParent(linked[k - 1], n, m_parents[n][k])
  IN linked[Len(m_parents[n])]

\* The memory of the tasks when all are inserted and then linked in order.
Built ==
  LET built[n \in 0..NumTasks] == IF n = 0 THEN Zeroed ELSE LinkParents(built[n - 1], n - 1)
  IN built[NumTasks]

\* The generated furious_init.
Generate ==
  /\ phase = "generate"
  /\ phase' = "program"
  /\ mem' = Built
  /\ UNCHANGED <<stmts, m_parents, m_children, runpc, local>>

\* The generated furious_frame.
Frame ==
  /\ phase = "program"
  /\ BeginRun \/ RunStep
  /\ UNCHANGED planvars

PlanInit ==
  /\ stmts = <<>>
  /\ m_parents = [n \in Tasks |-> <<>>]
  /\ m_children = [n \in Tasks |-> <<>>]
  /\ phase = "insert"
  /\ mem = Zeroed
  /\ runpc = "idle"
  /\ visited = [t \in Tasks |-> FALSE]
  /\ found = FALSE /\ cursor = 0
  /\ cfrontier = <<>> /\ nfrontier = <<>>
  /\ ii = 1 /\ j = 0
  /\ executed = <<>>

PlanNext ==
  \/ \E s \in Stmts : Insert(s)
  \/ CheckPlan
  \/ Generate
  \/ Frame

PlanSpec == PlanInit /\ [][PlanNext]_vars

\* fdb_task_graph_run is a loop on one thread, and the functions it calls return.
FairPlanSpec == PlanSpec /\ WF_vars(RunStep /\ Frame)

---------------------------------------------------------------------------
(***************************************************************************)
(* Properties.                                                             *)
(***************************************************************************)

PlanTypeOK ==
  /\ TaskTypeOK
  /\ stmts \in Seq(Stmts)
  /\ m_parents \in [Tasks -> Seq(Tasks)]
  /\ m_children \in [Tasks -> Seq(Tasks)]
  /\ phase \in {"insert", "generate", "refused", "program"}

\* Departure times tell a plan with a cycle from one without (exec_plan.cpp:167-204),
\* although a dfs that starts from the roots does not reach a cycle that has none above it.
AcyclicCheckRight ==
  phase = "insert" /\ Id = NumTasks =>
    (IsAcyclic <=> \A S \in (SUBSET Tasks) \ {{}} :
                     \E n \in S : ToSet(m_parents[n]) \cap S = {})

Reads(n) == {c.type : c \in {x \in Stmt(n).access : x.ro}}
Writes(n) == {c.type : c \in {x \in Stmt(n).access : ~x.ro}}

\* What the user may rely on, whatever the order of the statements in the script: in a frame
\* no system writes a component after another one has read it, and two systems that write
\* the same component run in the order of their priorities.
ConflictsOrdered ==
  \A k, l \in DOMAIN executed : k < l =>
    LET early == executed[k]
        late == executed[l]
    IN /\ Writes(late) \cap Reads(early) = {}
       /\ Writes(late) \cap Writes(early) # {} =>
            Priority(Stmt(early)) < Priority(Stmt(late))

\* When a frame is over every system has run, and in the order fcc printed.
FrameIsThePlan ==
  runpc = "done" => Len(executed) = NumTasks /\ executed = ValidExecSequence

\* A frame that has begun comes to an end, having called every system.
FrameCompletes == runpc = "scan" ~> runpc = "done" /\ ToSet(executed) = Tasks

\* README.md:584-589: a system has priority 0 unless set_priority says otherwise, and among
\* systems that write the same component the one with the lower number runs first.
DocPriority(s) == IF s.hint = <<>> THEN 0 ELSE s.hint[1]

PriorityDecides ==
  phase = "refused" =>
    \E a, b \in Tasks : /\ a # b
                        /\ Writes(a) \cap Writes(b) # {}
                        /\ DocPriority(Stmt(a)) = DocPriority(Stmt(b))
===========================================================================
