-------------------------- MODULE ExecPlanProofs ---------------------------
(***************************************************************************)
(* A run of a task graph calls the tasks in an order that respects their   *)
(* parents, and leaves none out when the graph is acyclic: for any graph,  *)
(* of any size, whose links are tasks.                                     *)
(*                                                                         *)
(* ParentsFirst is not inductive: a task is marked as visited while it     *)
(* waits in a frontier, so "all parents visited" says nothing of the order *)
(* of the calls until the order within the frontiers is known as well.     *)
(*                                                                         *)
(* The compiler makes of any script either nothing, when its systems       *)
(* depend on each other in a cycle, or a program that builds the graph of  *)
(* these dependencies; so the frames of the program call systems that      *)
(* conflict in the order the user relies on, and every system.             *)
(***************************************************************************)
EXTENDS ExecPlan, FiniteSetTheorems, SequenceTheorems, WellFoundedInduction, TLAPS

\* The links of the graph are tasks (TaskInit, unchanged by a run).
GraphOK ==
  /\ mem \in [Tasks -> [Words -> Nat]]
  /\ \A t \in Tasks :
       /\ Parents(t) \subseteq Tasks
       /\ \A k \in 0..(NumChildren(t) - 1) : Child(t, k) \in Tasks

\* The tasks of cfrontier that have not been called are those from index Left on.
Left == IF runpc = "children" THEN ii + 1 ELSE ii

IsExecuted(t) == \E k \in DOMAIN executed : executed[k] = t
IsPending(t) == \E k \in DOMAIN cfrontier : k >= Left /\ cfrontier[k] = t
IsQueued(t) == \E k \in DOMAIN nfrontier : nfrontier[k] = t

Between ==
  /\ runpc \in {"idle", "scan", "done"} => cfrontier = <<>> /\ nfrontier = <<>>
  /\ runpc = "children" => ii <= Len(cfrontier)
  /\ runpc \in {"frontier", "children"} => found

\* visited_nodes marks the tasks called, pending and queued, each of them once.
Marked ==
  /\ \A t \in Tasks : visited[t] <=> IsExecuted(t) \/ IsPending(t) \/ IsQueued(t)
  /\ \A t \in Tasks : /\ IsExecuted(t) => ~IsPending(t) /\ ~IsQueued(t)
                      /\ IsPending(t) => ~IsQueued(t)
  /\ \A k, l \in DOMAIN executed : executed[k] = executed[l] => k = l
  /\ \A k, l \in DOMAIN cfrontier : k >= Left /\ l >= Left /\ cfrontier[k] = cfrontier[l] => k = l
  /\ \A k, l \in DOMAIN nfrontier : nfrontier[k] = nfrontier[l] => k = l

\* Wherever a task stands, its parents stand before it.
Ordered ==
  /\ \A k \in DOMAIN executed : \A p \in Parents(executed[k]) :
       \E l \in DOMAIN executed : l < k /\ executed[l] = p
  /\ \A k \in DOMAIN cfrontier : k >= Left => \A p \in Parents(cfrontier[k]) :
       \/ IsExecuted(p)
       \/ \E l \in DOMAIN cfrontier : l >= Left /\ l < k /\ cfrontier[l] = p
  /\ \A k \in DOMAIN nfrontier : \A p \in Parents(nfrontier[k]) :
       \/ IsExecuted(p)
       \/ IsPending(p)
       \/ \E l \in DOMAIN nfrontier : l < k /\ nfrontier[l] = p

\* A pass that has found nothing has left no ready task behind.
PassInv ==
  /\ runpc = "scan" /\ ~found => \A t \in Tasks : t < cursor => ~Ready(t)
  /\ runpc = "done" => \A t \in Tasks : ~Ready(t)

RunInv == TaskTypeOK /\ GraphOK /\ Between /\ Marked /\ Ordered /\ PassInv

---------------------------------------------------------------------------
\* The graph stays as it is.
LEMMA GraphStays ==
  ASSUME GraphOK, UNCHANGED mem
  PROVE  /\ GraphOK'
         /\ \A t : Parents(t)' = Parents(t)
         /\ \A t : NumChildren(t)' = NumChildren(t)
BY DEF GraphOK, Parents, NumParents, NumChildren, Child

\* Before a frame nothing is visited or queued.
LEMMA RunInvInit == TaskInit => RunInv
<1> SUFFICES ASSUME TaskInit PROVE RunInv
  OBVIOUS
<1>1. TaskTypeOK
  <2>1. visited \in [Tasks -> BOOLEAN] /\ found \in BOOLEAN
    BY DEF TaskInit
  <2>2. cfrontier \in Seq(Tasks) /\ nfrontier \in Seq(Tasks) /\ executed \in Seq(Tasks)
    BY DEF TaskInit
  <2>3. ii \in Nat \ {0} /\ j \in Nat /\ cursor \in Nat
    BY DEF TaskInit
  <2>4. mem \in [Tasks -> [Words -> Nat]] /\ runpc = "idle"
    BY DEF TaskInit
  <2>. QED
    BY <2>1, <2>2, <2>3, <2>4 DEF TaskTypeOK
<1>2. GraphOK
  BY DEF TaskInit, GraphOK
<1>3. Between /\ PassInv
  BY DEF TaskInit, Between, PassInv
<1>4. Marked
  BY DEF TaskInit, Marked, IsExecuted, IsPending, IsQueued
<1>5. Ordered
  BY DEF TaskInit, Ordered
<1>. QED
  BY <1>1, <1>2, <1>3, <1>4, <1>5 DEF RunInv

\* memset of m_visited; nothing is queued.
LEMMA BeginRunStep ==
  ASSUME RunInv, BeginRun
  PROVE  RunInv'
<1>1. TaskTypeOK'
  <2>1. visited' \in [Tasks -> BOOLEAN] /\ found' \in BOOLEAN
    BY DEF BeginRun, RunInit
  <2>2. cfrontier' \in Seq(Tasks) /\ nfrontier' \in Seq(Tasks) /\ executed' \in Seq(Tasks)
    BY DEF BeginRun, RunInit
  <2>3. ii' \in Nat \ {0} /\ j' \in Nat /\ cursor' \in Nat
    BY DEF BeginRun, RunInit
  <2>4. mem' \in [Tasks -> [Words -> Nat]] /\ runpc' = "scan"
    BY DEF BeginRun, RunInv, TaskTypeOK
  <2>. QED
    BY <2>1, <2>2, <2>3, <2>4 DEF TaskTypeOK
<1>2. GraphOK'
  BY GraphStays DEF RunInv, BeginRun
<1>3. Between'
  BY DEF BeginRun, RunInit, Between
<1>4. Marked'
  BY DEF BeginRun, RunInit, Marked, IsExecuted, IsPending, IsQueued
<1>5. Ordered'
  BY DEF BeginRun, RunInit, Ordered
<1>6. PassInv'
  BY DEF BeginRun, RunInit, PassInv, Tasks
<1>. QED
  BY <1>1, <1>2, <1>3, <1>4, <1>5, <1>6 DEF RunInv

\* A ready task that the pass comes to is marked and queued alone.
LEMMA PickTaskStep ==
  ASSUME RunInv, PickTask
  PROVE  RunInv'
<1>1. PICK t \in Tasks : /\ t >= cursor /\ Ready(t)
                         /\ visited' = [visited EXCEPT ![t] = TRUE]
                         /\ cfrontier' = <<t>>
                         /\ cursor' = t + 1
  BY DEF PickTask
<1>2. /\ runpc = "scan" /\ runpc' = "frontier"
      /\ found' = TRUE /\ ii' = 1
      /\ mem' = mem /\ nfrontier' = nfrontier /\ j' = j /\ executed' = executed
  BY DEF PickTask
<1>3. cfrontier = <<>> /\ nfrontier = <<>>
  BY <1>2 DEF RunInv, Between
<1>4. TaskTypeOK'
  BY <1>1, <1>2 DEF RunInv, TaskTypeOK, Tasks
<1>5. GraphOK' /\ \A u : Parents(u)' = Parents(u)
  BY <1>2, GraphStays DEF RunInv
<1>6. Between' /\ PassInv'
  BY <1>2 DEF Between, PassInv
<1>7. \A u : IsExecuted(u)' = IsExecuted(u)
  BY <1>2 DEF IsExecuted
<1>8. \A u : (IsPending(u)' <=> u = t) /\ ~IsPending(u)
  BY <1>1, <1>2, <1>3 DEF IsPending, Left
<1>9. \A u : ~IsQueued(u)' /\ ~IsQueued(u)
  BY <1>2, <1>3 DEF IsQueued
<1>10. Marked'
  <2>1. ~IsExecuted(t) /\ \A p \in Parents(t) : visited[p]
    BY <1>1, <1>8, <1>9 DEF RunInv, Marked, Ready, AllVisitedParents
  <2>2. \A u \in Tasks : visited'[u] <=> IsExecuted(u)' \/ IsPending(u)' \/ IsQueued(u)'
    BY <1>1, <1>7, <1>8, <1>9 DEF RunInv, Marked, TaskTypeOK
  <2>3. \A u \in Tasks : /\ IsExecuted(u)' => ~IsPending(u)' /\ ~IsQueued(u)'
                         /\ IsPending(u)' => ~IsQueued(u)'
    BY <2>1, <1>7, <1>8, <1>9
  <2>4. \A k, l \in DOMAIN executed' : executed'[k] = executed'[l] => k = l
    BY <1>2 DEF RunInv, Marked
  <2>5. DOMAIN cfrontier' = {1} /\ nfrontier' = <<>>
    BY <1>1, <1>2, <1>3
  <2>. QED
    BY <2>2, <2>3, <2>4, <2>5 DEF Marked
<1>11. Ordered'
  <2>1. \A p \in Parents(t) : IsExecuted(p)
    BY <1>1, <1>8, <1>9 DEF RunInv, Marked, Ready, AllVisitedParents, GraphOK
  <2>2. DOMAIN cfrontier' = {1} /\ cfrontier'[1] = t /\ nfrontier' = <<>>
    BY <1>1, <1>2, <1>3
  <2>. QED
    BY <2>1, <2>2, <1>2, <1>7 DEF RunInv, Ordered, Parents, NumParents
<1>. QED
  BY <1>4, <1>5, <1>6, <1>10, <1>11 DEF RunInv

\* The pass has passed over no ready task.
LEMMA EndPassStep ==
  ASSUME RunInv, EndPass
  PROVE  RunInv'
<1>1. /\ runpc = "scan" /\ cursor' = 0 /\ found' = FALSE
      /\ runpc' = IF found THEN "scan" ELSE "done"
      /\ \A t \in Tasks : t >= cursor => ~Ready(t)
      /\ UNCHANGED <<mem, visited, cfrontier, nfrontier, ii, j, executed>>
  BY DEF EndPass, PassEnds
<1>2. TaskTypeOK'
  BY <1>1 DEF RunInv, TaskTypeOK
<1>3. GraphOK' /\ \A t : Parents(t)' = Parents(t)
  BY <1>1, GraphStays DEF RunInv
<1>4. Between'
  BY <1>1 DEF RunInv, Between
<1>5. Marked' /\ Ordered'
  BY <1>1, <1>3 DEF RunInv, Marked, Ordered, IsExecuted, IsPending, IsQueued, Left
<1>6. \A t \in Tasks : Ready(t)' = Ready(t)
  BY <1>1, <1>3 DEF Ready, AllVisitedParents
<1>7. PassInv'
  BY <1>1, <1>6 DEF RunInv, PassInv, TaskTypeOK, Tasks
<1>. QED
  BY <1>2, <1>3, <1>4, <1>5, <1>7 DEF RunInv

\* What is called was queued behind its parents, and never called before.
LEMMA RunTaskStep ==
  ASSUME RunInv, RunTask
  PROVE  RunInv'
<1>1. /\ runpc = "frontier" /\ runpc' = "children"
      /\ ii \in DOMAIN cfrontier /\ Current \in Tasks /\ Current = cfrontier[ii]
      /\ executed' = Append(executed, Current) /\ j' = 0
      /\ UNCHANGED <<mem, visited, found, cursor, cfrontier, nfrontier, ii>>
  BY DEF RunTask, RunInv, TaskTypeOK, Current
<1>2. /\ executed \in Seq(Tasks) /\ ii \in Nat /\ Left = ii /\ Left' = ii + 1
      /\ cfrontier \in Seq(Tasks)
  BY <1>1 DEF RunInv, TaskTypeOK, Left
<1>3. /\ DOMAIN executed' = DOMAIN executed \cup {Len(executed) + 1}
      /\ executed'[Len(executed) + 1] = Current
      /\ \A k \in DOMAIN executed : executed'[k] = executed[k] /\ k < Len(executed) + 1
      /\ \A k \in DOMAIN executed : k \in Nat
  BY <1>1, <1>2
<1>4. TaskTypeOK'
  BY <1>1, <1>2 DEF RunInv, TaskTypeOK
<1>5. GraphOK'
  BY <1>1, GraphStays DEF RunInv
<1>6. Between' /\ PassInv'
  BY <1>1, <1>2 DEF RunInv, Between, PassInv
<1>7. \A t : IsExecuted(t)' <=> IsExecuted(t) \/ t = Current
  BY <1>1, <1>3 DEF IsExecuted
<1>8. \A k, l \in DOMAIN cfrontier : k >= ii /\ l >= ii /\ cfrontier[k] = cfrontier[l] => k = l
  BY <1>2 DEF RunInv, Marked
<1>9. /\ \A k \in DOMAIN cfrontier : k \in Nat /\ (k >= ii <=> k >= ii + 1 \/ k = ii)
      /\ ii >= ii /\ ~(ii >= ii + 1)
  BY <1>2
<1>10. \A t : IsPending(t) <=> IsPending(t)' \/ t = Current
  BY <1>1, <1>2, <1>9 DEF IsPending
<1>11. \A t : IsPending(t)' => t # Current
  BY <1>1, <1>2, <1>8, <1>9 DEF IsPending
<1>12. \A t : IsQueued(t)' <=> IsQueued(t)
  BY <1>1 DEF IsQueued
<1>13. ~IsExecuted(Current) /\ ~IsQueued(Current)
  <2>1. IsPending(Current)
    BY <1>10
  <2>. QED
    BY <1>1, <2>1 DEF RunInv, Marked
<1>14. Marked'
  <2>1. \A t \in Tasks : visited'[t] <=> IsExecuted(t)' \/ IsPending(t)' \/ IsQueued(t)'
    BY <1>1, <1>7, <1>10, <1>12 DEF RunInv, Marked
  <2>2. \A t \in Tasks : /\ IsExecuted(t)' => ~IsPending(t)' /\ ~IsQueued(t)'
                         /\ IsPending(t)' => ~IsQueued(t)'
    BY <1>7, <1>10, <1>11, <1>12, <1>13 DEF RunInv, Marked
  <2>3. \A k, l \in DOMAIN executed' : executed'[k] = executed'[l] => k = l
    <3>1. \A k \in DOMAIN executed : executed'[k] # Current
      BY <1>3, <1>13 DEF IsExecuted
    <3>2. \A k, l \in DOMAIN executed : executed'[k] = executed'[l] => k = l
      BY <1>3 DEF RunInv, Marked
    <3>. QED
      BY <1>3, <3>1, <3>2
  <2>4. \A k, l \in DOMAIN cfrontier : k >= ii + 1 /\ l >= ii + 1 /\ cfrontier[k] = cfrontier[l]
                                         => k = l
    BY <1>8, <1>9
  <2>5. \A k, l \in DOMAIN nfrontier : nfrontier[k] = nfrontier[l] => k = l
    BY DEF RunInv, Marked
  <2>. QED
    BY <2>1, <2>2, <2>3, <2>4, <2>5, <1>1, <1>2 DEF Marked
<1>15. Ordered'
  <2> DEFINE PE(k) == \A p \in Parents(executed'[k]) :
                        \E l \in DOMAIN executed' : l < k /\ executed'[l] = p
             PC(k) == \A p \in Parents(cfrontier[k]) :
                        \/ IsExecuted(p) \/ p = Current
                        \/ \E l \in DOMAIN cfrontier : l >= ii + 1 /\ l < k /\ cfrontier[l] = p
             PN(k) == \A p \in Parents(nfrontier[k]) :
                        \/ IsExecuted(p) \/ p = Current
                        \/ IsPending(p)'
                        \/ \E l \in DOMAIN nfrontier : l < k /\ nfrontier[l] = p
  <2>1. \A p \in Parents(Current) : IsExecuted(p)
    BY <1>1, <1>2, <1>9 DEF RunInv, Ordered
  <2>2. \A k \in DOMAIN executed' : PE(k)
    <3>1. ASSUME NEW k \in DOMAIN executed PROVE PE(k)
      BY <1>3 DEF RunInv, Ordered
    <3>2. PE(Len(executed) + 1)
      BY <1>3, <2>1 DEF IsExecuted
    <3>. QED
      BY <3>1, <3>2, <1>3
  <2>3. ASSUME NEW k \in DOMAIN cfrontier, k >= ii + 1 PROVE PC(k)
    BY <1>1, <1>2, <1>9, <2>3 DEF RunInv, Ordered
  <2>4. ASSUME NEW k \in DOMAIN nfrontier PROVE PN(k)
    BY <1>10 DEF RunInv, Ordered
  <2>. HIDE DEF PE, PC, PN
  <2>5. (\A k \in DOMAIN executed : \A p \in Parents(executed[k]) :
           \E l \in DOMAIN executed : l < k /\ executed[l] = p)'
    BY <2>2, <1>1 DEF PE, Parents, NumParents
  <2>6. (\A k \in DOMAIN cfrontier : k >= Left => \A p \in Parents(cfrontier[k]) :
           \/ IsExecuted(p)
           \/ \E l \in DOMAIN cfrontier : l >= Left /\ l < k /\ cfrontier[l] = p)'
    BY <2>3, <1>1, <1>2, <1>7 DEF PC, Parents, NumParents
  <2>7. (\A k \in DOMAIN nfrontier : \A p \in Parents(nfrontier[k]) :
           \/ IsExecuted(p)
           \/ IsPending(p)
           \/ \E l \in DOMAIN nfrontier : l < k /\ nfrontier[l] = p)'
    BY <2>4, <1>1, <1>7 DEF PN, Parents, NumParents
  <2>. QED
    BY <2>5, <2>6, <2>7 DEF Ordered
<1>. QED
  BY <1>4, <1>5, <1>6, <1>14, <1>15 DEF RunInv

\* All children of the task are handled.
LEMMA NextTaskStep ==
  ASSUME RunInv, NextTask
  PROVE  RunInv'
<1>1. /\ runpc = "children" /\ runpc' = "frontier" /\ ii' = ii + 1
      /\ UNCHANGED <<mem, visited, found, cursor, cfrontier, nfrontier, j, executed>>
  BY DEF NextTask
<1>2. Left' = Left
  BY <1>1 DEF Left
<1>3. TaskTypeOK'
  BY <1>1 DEF RunInv, TaskTypeOK
<1>4. GraphOK'
  BY <1>1, GraphStays DEF RunInv
<1>5. Between' /\ PassInv'
  BY <1>1 DEF RunInv, Between, PassInv
<1>6. Marked'
  BY <1>1, <1>2 DEF RunInv, Marked, IsExecuted, IsPending, IsQueued
<1>7. Ordered'
  BY <1>1, <1>2 DEF RunInv, Ordered, IsExecuted, IsPending, Parents, NumParents
<1>. QED
  BY <1>3, <1>4, <1>5, <1>6, <1>7 DEF RunInv

\* The next frontier takes the place of the one that was called.
LEMMA NextFrontierStep ==
  ASSUME RunInv, NextFrontier
  PROVE  RunInv'
<1>1. /\ runpc = "frontier" /\ ii > Len(cfrontier)
      /\ cfrontier' = nfrontier /\ nfrontier' = <<>> /\ ii' = 1
      /\ runpc' = IF nfrontier = <<>> THEN "scan" ELSE "frontier"
      /\ UNCHANGED <<mem, visited, found, cursor, j, executed>>
  BY DEF NextFrontier
<1>2. /\ ii \in Nat /\ Left = ii /\ Left' = 1
      /\ cfrontier \in Seq(Tasks) /\ nfrontier \in Seq(Tasks)
  BY <1>1 DEF RunInv, TaskTypeOK, Left
<1>3. TaskTypeOK'
  <2>1. cfrontier' \in Seq(Tasks) /\ nfrontier' \in Seq(Tasks) /\ ii' \in Nat \ {0}
    BY <1>1, <1>2
  <2>2. runpc' \in {"idle", "scan", "frontier", "children", "done"}
    BY <1>1
  <2>. QED
    BY <1>1, <2>1, <2>2 DEF RunInv, TaskTypeOK
<1>4. GraphOK' /\ \A t \in Tasks : Ready(t)' = Ready(t)
  BY <1>1, GraphStays DEF RunInv, Ready, AllVisitedParents, Parents, NumParents
<1>5. Between'
  BY <1>1 DEF RunInv, Between
<1>6. \A t : ~IsPending(t)
  BY <1>1, <1>2 DEF IsPending
<1>7. \A k \in DOMAIN nfrontier : k \in Nat /\ k >= 1
  BY <1>2
<1>8. \A t : (IsExecuted(t)' <=> IsExecuted(t)) /\ (IsPending(t)' <=> IsQueued(t)) /\ ~IsQueued(t)'
  BY <1>1, <1>2, <1>7 DEF IsExecuted, IsPending, IsQueued
<1>9. Marked'
  BY <1>1, <1>2, <1>6, <1>8 DEF RunInv, Marked
<1>10. Ordered'
  <2>1. (\A k \in DOMAIN executed : \A p \in Parents(executed[k]) :
           \E l \in DOMAIN executed : l < k /\ executed[l] = p)'
    <3>1. \A k \in DOMAIN executed : \A p \in Parents(executed[k]) :
            \E l \in DOMAIN executed : l < k /\ executed[l] = p
      BY DEF RunInv, Ordered
    <3>2. mem' = mem /\ executed' = executed
      BY <1>1
    <3>. QED
      BY <3>1, <3>2 DEF Parents, NumParents
  <2>2. (\A k \in DOMAIN cfrontier : k >= Left => \A p \in Parents(cfrontier[k]) :
           \/ IsExecuted(p)
           \/ \E l \in DOMAIN cfrontier : l >= Left /\ l < k /\ cfrontier[l] = p)'
    BY <1>1, <1>2, <1>6, <1>7, <1>8 DEF RunInv, Ordered, Parents, NumParents
  <2>. QED
    BY <1>1, <2>1, <2>2 DEF Ordered
\* The frontier that is left empty belongs to a pass that has found a task.
<1>11. PassInv'
  BY <1>1, <1>4 DEF RunInv, Between, PassInv
<1>. QED
  BY <1>3, <1>4, <1>5, <1>9, <1>10, <1>11 DEF RunInv

\* A child is queued once, when the last of its parents has been called or queued before it.
LEMMA QueueChildStep ==
  ASSUME RunInv, QueueChild
  PROVE  RunInv'
<1> DEFINE c == Child(Current, j)
<1>1. /\ runpc = "children" /\ j < NumChildren(Current) /\ j' = j + 1
      /\ UNCHANGED <<mem, runpc, found, cursor, cfrontier, ii, executed>>
      /\ IF Ready(c) THEN nfrontier' = Append(nfrontier, c) /\ visited' = [visited EXCEPT ![c] = TRUE]
                     ELSE UNCHANGED <<nfrontier, visited>>
  BY DEF QueueChild, Queue
<1>2. Left' = Left
  BY <1>1 DEF Left
<1>3. Current \in Tasks
  BY <1>1 DEF RunInv, TaskTypeOK, Between, Current
<1>4. c \in Tasks
  <2>1. NumChildren(Current) \in Nat
    BY <1>3, TaskAssumption DEF RunInv, GraphOK, NumChildren, NumChildrenWord, Words
  <2>2. j \in 0..(NumChildren(Current) - 1)
    BY <1>1, <2>1 DEF RunInv, TaskTypeOK
  <2>. QED
    BY <1>3, <2>2 DEF RunInv, GraphOK
<1>. HIDE DEF c
<1>5. GraphOK' /\ Between' /\ PassInv'
  BY <1>1, GraphStays DEF RunInv, Between, PassInv
<1>6. CASE ~Ready(c)
  <2>1. TaskTypeOK'
    BY <1>1, <1>6 DEF RunInv, TaskTypeOK
  <2>2. Marked' /\ Ordered'
    BY <1>1, <1>2, <1>6 DEF RunInv, Marked, Ordered, IsExecuted, IsPending, IsQueued, Parents,
                            NumParents
  <2>. QED
    BY <2>1, <2>2, <1>5 DEF RunInv
<1>7. CASE Ready(c)
  <2>1. /\ nfrontier' = Append(nfrontier, c) /\ visited' = [visited EXCEPT ![c] = TRUE]
        /\ nfrontier \in Seq(Tasks) /\ visited \in [Tasks -> BOOLEAN]
    BY <1>1, <1>7 DEF RunInv, TaskTypeOK
  <2>2. /\ DOMAIN nfrontier' = DOMAIN nfrontier \cup {Len(nfrontier) + 1}
        /\ nfrontier'[Len(nfrontier) + 1] = c
        /\ \A k \in DOMAIN nfrontier : nfrontier'[k] = nfrontier[k] /\ k < Len(nfrontier) + 1
    BY <2>1, <1>4
  <2>3. TaskTypeOK'
    <3>1. nfrontier' \in Seq(Tasks) /\ visited' \in [Tasks -> BOOLEAN] /\ j' \in Nat
      BY <1>1, <1>4, <2>1 DEF RunInv, TaskTypeOK
    <3>. QED
      BY <1>1, <3>1 DEF RunInv, TaskTypeOK
  <2>4. \A t : /\ IsExecuted(t)' <=> IsExecuted(t)
               /\ IsPending(t)' <=> IsPending(t)
    BY <1>1, <1>2 DEF IsExecuted, IsPending
  <2>5. \A t : IsQueued(t)' <=> IsQueued(t) \/ t = c
    BY <2>2 DEF IsQueued
  <2>6. ~IsExecuted(c) /\ ~IsPending(c) /\ ~IsQueued(c)
    BY <1>4, <1>7 DEF RunInv, Marked, Ready
  <2>7. \A p \in Parents(c) : IsExecuted(p) \/ IsPending(p) \/ IsQueued(p)
    BY <1>4, <1>7 DEF RunInv, Marked, Ready, AllVisitedParents, GraphOK
  <2>8. Marked'
    <3>1. \A t \in Tasks : visited'[t] <=> IsExecuted(t)' \/ IsPending(t)' \/ IsQueued(t)'
      BY <1>4, <2>1, <2>4, <2>5 DEF RunInv, Marked
    <3>2. \A t \in Tasks : /\ IsExecuted(t)' => ~IsPending(t)' /\ ~IsQueued(t)'
                           /\ IsPending(t)' => ~IsQueued(t)'
      BY <2>4, <2>5, <2>6 DEF RunInv, Marked
    <3>3. \A k \in DOMAIN nfrontier : nfrontier'[k] # c
      BY <2>2, <2>6 DEF IsQueued
    <3>4. \A k, l \in DOMAIN nfrontier' : nfrontier'[k] = nfrontier'[l] => k = l
      BY <2>2, <3>3 DEF RunInv, Marked
    <3>. QED
      BY <1>1, <1>2, <3>1, <3>2, <3>4 DEF RunInv, Marked
  <2>9. Ordered'
    <3> DEFINE PN(k) == \A p \in Parents(nfrontier'[k]) :
                          \/ IsExecuted(p) \/ IsPending(p)
                          \/ \E l \in DOMAIN nfrontier' : l < k /\ nfrontier'[l] = p
    <3>1. ASSUME NEW k \in DOMAIN nfrontier PROVE PN(k)
      BY <2>2 DEF RunInv, Ordered
    <3>2. PN(Len(nfrontier) + 1)
      BY <2>2, <2>7 DEF IsQueued
    <3>3. \A k \in DOMAIN nfrontier' : PN(k)
      BY <2>2, <3>1, <3>2
    <3>. HIDE DEF PN
    <3>4. (\A k \in DOMAIN nfrontier : \A p \in Parents(nfrontier[k]) :
             \/ IsExecuted(p)
             \/ IsPending(p)
             \/ \E l \in DOMAIN nfrontier : l < k /\ nfrontier[l] = p)'
      BY <3>3, <1>1, <2>4 DEF PN, Parents, NumParents
    <3>5. (/\ \A k \in DOMAIN executed : \A p \in Parents(executed[k]) :
                \E l \in DOMAIN executed : l < k /\ executed[l] = p
           /\ \A k \in DOMAIN cfrontier : k >= Left => \A p \in Parents(cfrontier[k]) :
                \/ IsExecuted(p)
                \/ \E l \in DOMAIN cfrontier : l >= Left /\ l < k /\ cfrontier[l] = p)'
      BY <1>1, <1>2, <2>4 DEF RunInv, Ordered, Parents, NumParents
    <3>. QED
      BY <3>4, <3>5 DEF Ordered
  <2>. QED
    BY <1>5, <2>3, <2>8, <2>9 DEF RunInv
<1>. QED
  BY <1>6, <1>7

\* Every step of a run keeps the invariant.
LEMMA RunInvNext == RunInv /\ [TaskNext]_taskvars => RunInv'
<1> SUFFICES ASSUME RunInv, [TaskNext]_taskvars PROVE RunInv'
  OBVIOUS
<1>1. CASE BeginRun
  BY <1>1, BeginRunStep
<1>2. CASE PickTask
  BY <1>2, PickTaskStep
<1>3. CASE EndPass
  BY <1>3, EndPassStep
<1>4. CASE RunTask
  BY <1>4, RunTaskStep
<1>5. CASE QueueChild
  BY <1>5, QueueChildStep
<1>6. CASE NextTask
  BY <1>6, NextTaskStep
<1>7. CASE NextFrontier
  BY <1>7, NextFrontierStep
<1>8. CASE UNCHANGED taskvars
  <2>1. TaskTypeOK' /\ GraphOK'
    BY <1>8 DEF taskvars, local, RunInv, TaskTypeOK, GraphOK, Parents, NumParents, NumChildren, Child
  <2>2. Between' /\ Marked'
    BY <1>8 DEF taskvars, local, RunInv, Between, Marked, IsExecuted, IsPending, IsQueued, Left
  <2>3. Ordered'
    <3>1. /\ Left' = Left /\ cfrontier' = cfrontier /\ nfrontier' = nfrontier
          /\ executed' = executed
          /\ \A t : IsExecuted(t)' <=> IsExecuted(t)
          /\ \A t : IsPending(t)' <=> IsPending(t)
      BY <1>8 DEF taskvars, local, Left, IsExecuted, IsPending
    <3>2. \A t : Parents(t)' = Parents(t)
      BY <1>8 DEF taskvars, Parents, NumParents
    <3>3. \A k \in DOMAIN executed' : \A p \in Parents(executed[k])' :
            \E l \in DOMAIN executed' : l < k /\ executed'[l] = p
      BY <3>1, <3>2 DEF RunInv, Ordered
    <3>4. \A k \in DOMAIN cfrontier' : k >= Left' => \A p \in Parents(cfrontier[k])' :
            \/ IsExecuted(p)'
            \/ \E l \in DOMAIN cfrontier' : l >= Left' /\ l < k /\ cfrontier'[l] = p
      BY <3>1, <3>2 DEF RunInv, Ordered
    <3>5. \A k \in DOMAIN nfrontier' : \A p \in Parents(nfrontier[k])' :
            \/ IsExecuted(p)'
            \/ IsPending(p)'
            \/ \E l \in DOMAIN nfrontier' : l < k /\ nfrontier'[l] = p
      BY <3>1, <3>2 DEF RunInv, Ordered
    <3>. QED
      BY <3>3, <3>4, <3>5 DEF Ordered
  <2>4. PassInv'
    BY <1>8 DEF taskvars, local, RunInv, PassInv, Ready, AllVisitedParents, Parents, NumParents
  <2>. QED
    BY <2>1, <2>2, <2>3, <2>4 DEF RunInv
<1>. QED
  BY <1>1, <1>2, <1>3, <1>4, <1>5, <1>6, <1>7, <1>8 DEF TaskNext, RunStep

\* The inductive invariant of the runs of any task graph.
THEOREM RunInvariant == TaskSpec => []RunInv
<1>1. TaskInit => RunInv
  BY RunInvInit
<1>2. RunInv /\ [TaskNext]_taskvars => RunInv'
  BY RunInvNext
<1>. QED
  BY <1>1, <1>2, PTL DEF TaskSpec

\* Whatever the graph, a task is called once in a frame and after all its parents
\* (fdb_task_graph_run, task.c:89-142).
THEOREM RunRespectsParents == TaskSpec => []ParentsFirst
<1>1. RunInv => ParentsFirst
  <2> SUFFICES ASSUME RunInv, NEW k \in DOMAIN executed
               PROVE  /\ \A l \in DOMAIN executed : executed[l] = executed[k] => l = k
                      /\ \A p \in Parents(executed[k]) : \E l \in 1..(k - 1) : executed[l] = p
    BY DEF ParentsFirst
  <2>1. \A l \in DOMAIN executed : executed[l] = executed[k] => l = k
    BY DEF RunInv, Marked
  <2>2. \A l \in DOMAIN executed : l < k => l \in 1..(k - 1)
    BY DEF RunInv, TaskTypeOK
  <2>3. \A p \in Parents(executed[k]) : \E l \in 1..(k - 1) : executed[l] = p
    BY <2>2 DEF RunInv, Ordered
  <2>. QED
    BY <2>1, <2>3
<1>. QED
  BY <1>1, RunInvariant, PTL

\* When a frame of an acyclic graph is over no task has been left out: of the tasks that were
\* not visited, one would have no parent among them and so be ready.
LEMMA RunInvRunsAll == RunInv => AllTasksRun
<1> SUFFICES ASSUME RunInv, runpc = "done", GraphAcyclic
             PROVE  \A t \in Tasks : IsExecuted(t)
  BY DEF AllTasksRun, IsExecuted
<1> DEFINE missed == {t \in Tasks : ~visited[t]}
<1>1. \A t \in missed : Parents(t) \cap missed # {}
  BY DEF RunInv, PassInv, Ready, AllVisitedParents, GraphOK
<1>2. missed = {}
  BY <1>1 DEF GraphAcyclic
<1>3. \A t : ~IsPending(t) /\ ~IsQueued(t)
  BY DEF RunInv, Between, IsPending, IsQueued
<1>4. QED
  BY <1>2, <1>3 DEF RunInv, Marked

\* So a frame over an acyclic graph runs every task.
THEOREM RunLeavesNoTaskOut == TaskSpec => []AllTasksRun
  BY RunInvRunsAll, RunInvariant, PTL

---------------------------------------------------------------------------
(* Counting up.                                                            *)

\* A set of numbers that is not empty has a least one.
LEMMA LeastNumber ==
  ASSUME NEW S \in SUBSET Nat, S # {}
  PROVE  \E n \in S : \A m \in S : n <= m
<1>1. PICK n \in S : \A m \in S : <<m, n>> \notin OpToRel(<, Nat)
  BY WFMin, NatLessThanWellFounded
<1>2. \A m \in S : ~(m < n)
  BY <1>1 DEF OpToRel
<1>3. QED
  BY <1>2

\* A set of numbers that holds zero and with a number the next one, up to last, holds all.
LEMMA CountingUp ==
  ASSUME NEW last \in Nat, NEW G, 0 \in G, \A n \in 0..(last - 1) : n \in G => n + 1 \in G
  PROVE  0..last \subseteq G
<1> SUFFICES ASSUME NEW n0 \in 0..last, n0 \notin G PROVE FALSE
  OBVIOUS
<1> DEFINE Bad == {n \in 0..last : n \notin G}
<1>1. PICK n \in Bad : \A m \in Bad : n <= m
  <2>1. Bad \in SUBSET Nat /\ Bad # {}
    OBVIOUS
  <2> HIDE DEF Bad
  <2>2. QED
    BY <2>1, LeastNumber
<1>2. n \in 0..last /\ n # 0 /\ n \notin G
  BY <1>1
<1>3. n - 1 \in 0..(last - 1) /\ n - 1 \notin Bad /\ (n - 1) + 1 = n
  BY <1>1, <1>2
<1>4. QED
  BY <1>2, <1>3

\* f is computed in steps from base.
Computes(f, base, step, last) == f[0] = base /\ \A i \in 1..last : f[i] = step[i][f[i - 1]]

\* What is computed step by step has a value after every number of steps.
LEMMA StepByStep ==
  ASSUME NEW last \in Nat, NEW S, NEW base \in S, NEW step \in [1..last -> [S -> S]]
  PROVE  \E f \in [0..last -> S] : Computes(f, base, step, last)
<1> DEFINE G == {n \in 0..last : \E f \in [0..n -> S] : Computes(f, base, step, n)}
<1>1. 0 \in G
  <2> DEFINE g == [i \in 0..0 |-> base]
  <2>1. g \in [0..0 -> S] /\ g[0] = base /\ 1..0 = {}
    OBVIOUS
  <2> HIDE DEF g
  <2>2. Computes(g, base, step, 0)
    BY <2>1 DEF Computes
  <2>3. QED
    BY <2>1, <2>2
<1>2. ASSUME NEW n \in 0..(last - 1), n \in G PROVE n + 1 \in G
  <2>1. PICK f \in [0..n -> S] : Computes(f, base, step, n)
    BY <1>2
  <2> DEFINE g == [i \in 0..(n + 1) |-> IF i <= n THEN f[i] ELSE step[n + 1][f[n]]]
  <2>2. step[n + 1][f[n]] \in S
    OBVIOUS
  <2>3. g \in [0..(n + 1) -> S]
    BY <2>2
  <2>4. g[0] = base
    BY <2>1 DEF Computes
  <2>5. ASSUME NEW i \in 1..(n + 1) PROVE g[i] = step[i][g[i - 1]]
    <3>1. i - 1 \in 0..n /\ g[i - 1] = f[i - 1]
      OBVIOUS
    <3>2. CASE i <= n
      BY <2>1, <3>1, <3>2 DEF Computes
    <3>3. CASE i = n + 1
      BY <3>1, <3>3
    <3>4. QED
      BY <3>2, <3>3
  <2>6. n + 1 \in 0..last
    OBVIOUS
  <2> HIDE DEF g
  <2>7. Computes(g, base, step, n + 1)
    BY <2>4, <2>5 DEF Computes
  <2>8. QED
    BY <2>3, <2>6, <2>7
<1>3. 0..last \subseteq G
  <2> HIDE DEF G
  <2>1. QED
    BY <1>1, <1>2, CountingUp
<1>4. QED
  BY <1>3

---------------------------------------------------------------------------
(* The lists of links.                                                     *)

\* What is added at the end of a list.
LEMMA PutAtEnd ==
  ASSUME NEW S, NEW s \in Seq(S), NEW x \in S
  PROVE  /\ Append(s, x) \in Seq(S) /\ Len(Append(s, x)) = Len(s) + 1 /\ ToSet(Append(s, x)) = ToSet(s) \cup {x}
         /\ IsInjective(s) /\ x \notin ToSet(s) => IsInjective(Append(s, x))
<1> DEFINE z == Append(s, x)
<1>1. /\ z \in Seq(S) /\ Len(z) = Len(s) + 1 /\ Len(s) \in Nat
      /\ DOMAIN z = 1..(Len(s) + 1) /\ DOMAIN s = 1..Len(s)
      /\ z[Len(s) + 1] = x /\ \A i \in 1..Len(s) : z[i] = s[i]
  OBVIOUS
<1> HIDE DEF z
<1>2. ToSet(z) = ToSet(s) \cup {x}
  <2>1. ASSUME NEW y \in ToSet(z) PROVE y \in ToSet(s) \cup {x}
    BY <1>1 DEF ToSet
  <2>2. ASSUME NEW y \in ToSet(s) \cup {x} PROVE y \in ToSet(z)
    BY <1>1 DEF ToSet
  <2>3. QED
    BY <2>1, <2>2
<1>3. ASSUME IsInjective(s), x \notin ToSet(s)
      PROVE  IsInjective(z)
  BY <1>1, <1>3 DEF IsInjective, ToSet
<1>4. QED
  BY <1>1, <1>2, <1>3 DEF z

\* A loop over the nodes lists each node of a set once, and no other.
LEMMA AscendingLists ==
  ASSUME NEW S \in SUBSET Tasks
  PROVE  /\ Ascending(S) \in Seq(Tasks) /\ IsInjective(Ascending(S)) /\ ToSet(Ascending(S)) = S
<1> DEFINE Next1(q, i) == IF i - 1 \in S THEN Append(q, i - 1) ELSE q
           Unfolds(g) == g = [n \in 0..NumTasks |->
                                IF n = 0 THEN <<>>
                                ELSE IF n - 1 \in S THEN Append(g[n - 1], n - 1) ELSE g[n - 1]]
           f == CHOOSE g : Unfolds(g)
           step == [i \in 1..NumTasks |-> [q \in Seq(Tasks) |-> Next1(q, i)]]
<1>1. NumTasks \in Nat /\ \A t \in S : t \in Nat /\ t < NumTasks
  BY TaskAssumption DEF Tasks
<1>2. \A i \in 1..NumTasks : \A q \in Seq(Tasks) : Next1(q, i) \in Seq(Tasks)
  BY <1>1
<1>3. step \in [1..NumTasks -> [Seq(Tasks) -> Seq(Tasks)]]
  BY <1>2
<1>4. PICK h \in [0..NumTasks -> Seq(Tasks)] :
        h[0] = <<>> /\ \A i \in 1..NumTasks : h[i] = step[i][h[i - 1]]
  <2> HIDE DEF step
  <2>1. <<>> \in Seq(Tasks)
    OBVIOUS
  <2>2. \E h \in [0..NumTasks -> Seq(Tasks)] : Computes(h, <<>>, step, NumTasks)
    BY <1>1, <1>3, <2>1, StepByStep
  <2>3. QED
    BY <2>2 DEF Computes
<1>5. Unfolds(h)
  <2>1. ASSUME NEW n \in 0..NumTasks
        PROVE  h[n] = IF n = 0 THEN <<>>
                      ELSE IF n - 1 \in S THEN Append(h[n - 1], n - 1) ELSE h[n - 1]
    <3>1. CASE n = 0
      BY <1>4, <3>1
    <3>2. CASE n # 0
      <4>1. n \in 1..NumTasks /\ n - 1 \in 0..NumTasks
        BY <1>1, <3>2
      <4>2. h[n - 1] \in Seq(Tasks)
        BY <1>4, <4>1
      <4>3. h[n] = Next1(h[n - 1], n)
        BY <1>4, <4>1, <4>2, Zenon
      <4>4. QED
        BY <3>2, <4>3
    <3>3. QED
      BY <3>1, <3>2
  <2>2. h = [n \in 0..NumTasks |-> h[n]]
    BY <1>4
  <2>3. QED
    BY <2>1, <2>2, Zenon
<1>6. Unfolds(f)
  BY <1>5, Zenon
<1>7. Ascending(S) = f[NumTasks]
  BY Zenon DEF Ascending
<1>8. f = [n \in 0..NumTasks |-> IF n = 0 THEN <<>>
                                 ELSE IF n - 1 \in S THEN Append(f[n - 1], n - 1) ELSE f[n - 1]]
  BY <1>6, Zenon
<1> HIDE DEF f, Unfolds
<1> DEFINE Listed(n) == {t \in S : t < n}
           G == {n \in 0..NumTasks : f[n] \in Seq(Tasks) /\ IsInjective(f[n]) /\ ToSet(f[n]) = Listed(n)}
<1>9. 0 \in G
  <2>1. f[0] = <<>>
    BY <1>1, <1>8
  <2>2. <<>> \in Seq(Tasks) /\ IsInjective(<<>>) /\ ToSet(<<>>) = {}
    BY DEF IsInjective, ToSet
  <2>3. Listed(0) = {}
    BY <1>1
  <2> HIDE DEF Listed
  <2>4. f[0] \in Seq(Tasks) /\ IsInjective(f[0]) /\ ToSet(f[0]) = Listed(0)
    BY <2>1, <2>2, <2>3, Zenon
  <2>5. QED
    BY <1>1, <2>4
<1>10. ASSUME NEW n \in 0..(NumTasks - 1), n \in G PROVE n + 1 \in G
  <2>1. n + 1 \in 0..NumTasks /\ n + 1 # 0 /\ (n + 1) - 1 = n /\ n \in Tasks
    BY <1>1 DEF Tasks
  <2>2. f[n + 1] = IF n \in S THEN Append(f[n], n) ELSE f[n]
    BY <1>8, <2>1
  <2>3. f[n] \in Seq(Tasks) /\ IsInjective(f[n]) /\ ToSet(f[n]) = Listed(n)
    BY <1>10
  <2>4. CASE n \in S
    <3>1. Listed(n + 1) = Listed(n) \cup {n} /\ n \notin Listed(n)
      <4>1. \A t \in S : t < n + 1 <=> t < n \/ t = n
        BY <1>1
      <4>2. \A t \in S : t < n => t # n
        BY <1>1
      <4>3. QED
        BY <2>4, <4>1, <4>2
    <3> HIDE DEF Listed
    <3>2. Append(f[n], n) \in Seq(Tasks) /\ IsInjective(Append(f[n], n))
          /\ ToSet(Append(f[n], n)) = Listed(n) \cup {n}
      BY <2>1, <2>3, <3>1, PutAtEnd
    <3>3. QED
      BY <2>1, <2>2, <2>4, <3>1, <3>2
  <2>5. CASE n \notin S
    <3>1. Listed(n + 1) = Listed(n)
      BY <1>1, <2>5
    <3> HIDE DEF Listed
    <3>2. QED
      BY <2>1, <2>2, <2>3, <2>5, <3>1
  <2>6. QED
    BY <2>4, <2>5
<1>11. 0..NumTasks \subseteq G
  <2> HIDE DEF G
  <2>1. QED
    BY <1>1, <1>9, <1>10, CountingUp
<1>12. Listed(NumTasks) = S /\ NumTasks \in 0..NumTasks
  BY <1>1
<1>13. QED
  BY <1>7, <1>11, <1>12

---------------------------------------------------------------------------
(* The plan.                                                               *)

\* The shape of the values.
PlanShape ==
  /\ stmts \in Seq(Stmts) /\ Id <= NumTasks
  /\ m_parents \in [Tasks -> Seq(Tasks)] /\ m_children \in [Tasks -> Seq(Tasks)]
  /\ phase \in {"insert", "generate", "refused", "program"}
  /\ phase # "insert" => Id = NumTasks

\* System n runs after system k.
DependsOn(n, k) == n < Id /\ k < Id /\ n # k /\ IsDependent(Stmt(n), Stmt(k))

\* The parents of a node are those it depends on, each once; the children are the reverse.
LinksRight ==
  /\ \A n, k \in Tasks : /\ k \in ToSet(m_parents[n]) <=> DependsOn(n, k)
                         /\ n \in ToSet(m_children[k]) <=> DependsOn(n, k)
  /\ \A n \in Tasks : IsInjective(m_parents[n]) /\ IsInjective(m_children[n])

\* What a new node does to the lists of the nodes before it.
LEMMA LinksWithNew ==
  ASSUME PlanShape, Id < NumTasks,
         NEW links \in [Tasks -> Seq(Tasks)], NEW toNew \in SUBSET (0..(Id - 1)),
         NEW fromNew \in SUBSET (0..(Id - 1)),
         \A n \in Tasks : IsInjective(links[n]) /\ Id \notin ToSet(links[n])
  PROVE  /\ WithNew(links, toNew, fromNew) \in [Tasks -> Seq(Tasks)]
         /\ \A n \in Tasks : IsInjective(WithNew(links, toNew, fromNew)[n])
         /\ ToSet(WithNew(links, toNew, fromNew)[Id]) = fromNew
         /\ \A n \in Tasks, k \in Tasks : n # Id =>
              (k \in ToSet(WithNew(links, toNew, fromNew)[n])
                 <=> k \in ToSet(links[n]) \/ (k = Id /\ n \in toNew))
<1> DEFINE z == WithNew(links, toNew, fromNew)
<1>1. Id \in Tasks /\ fromNew \in SUBSET Tasks
  BY TaskAssumption DEF Tasks, PlanShape, Id
<1>2. /\ Ascending(fromNew) \in Seq(Tasks) /\ IsInjective(Ascending(fromNew))
      /\ ToSet(Ascending(fromNew)) = fromNew
  BY <1>1, AscendingLists
<1>3. ASSUME NEW n \in Tasks
      PROVE  /\ Append(links[n], Id) \in Seq(Tasks) /\ IsInjective(Append(links[n], Id))
             /\ ToSet(Append(links[n], Id)) = ToSet(links[n]) \cup {Id}
  <2>1. links[n] \in Seq(Tasks) /\ IsInjective(links[n]) /\ Id \notin ToSet(links[n])
    OBVIOUS
  <2>2. QED
    BY <1>1, <2>1, PutAtEnd
<1>4. ASSUME NEW n \in Tasks
      PROVE  z[n] = IF n = Id THEN Ascending(fromNew)
                    ELSE IF n \in toNew THEN Append(links[n], Id) ELSE links[n]
  BY DEF WithNew
<1>5. z = [n \in Tasks |-> z[n]]
  BY DEF WithNew
<1> HIDE DEF z
<1>6. \A n \in Tasks : z[n] \in Seq(Tasks) /\ IsInjective(z[n])
  BY <1>2, <1>3, <1>4
<1>7. ToSet(z[Id]) = fromNew
  BY <1>1, <1>2, <1>4
<1>8. ASSUME NEW n \in Tasks, NEW k \in Tasks, n # Id
      PROVE  k \in ToSet(z[n]) <=> k \in ToSet(links[n]) \/ (k = Id /\ n \in toNew)
  <2>1. CASE n \in toNew
    <3>1. ToSet(z[n]) = ToSet(links[n]) \cup {Id}
      BY <1>3, <1>4, <1>8, <2>1
    <3>2. QED
      BY <2>1, <3>1
  <2>2. CASE n \notin toNew
    <3>1. z[n] = links[n]
      BY <1>4, <1>8, <2>2
    <3>2. ToSet(z[n]) = ToSet(links[n])
      BY <3>1
    <3>3. QED
      BY <2>2, <3>2, Zenon
  <2>3. QED
    BY <2>1, <2>2
<1>9. z \in [Tasks -> Seq(Tasks)]
  BY <1>5, <1>6
<1>10. QED
  BY <1>6, <1>7, <1>8, <1>9 DEF z

\* fcc_exec_plan_insert links the new system with each before it that depends on it or that it
\* depends on, and leaves the other links alone.
LEMMA InsertStep ==
  ASSUME PlanShape, LinksRight, NEW s \in Stmts, Insert(s)
  PROVE  PlanShape' /\ LinksRight'
<1> DEFINE newDependsOn == {n \in 0..(Id - 1) : IsDependent(s, Stmt(n))}
           dependOnNew == {n \in 0..(Id - 1) : IsDependent(Stmt(n), s)}
<1>1. /\ phase = "insert" /\ Id < NumTasks /\ phase' = phase
      /\ stmts' = Append(stmts, s)
      /\ m_parents' = WithNew(m_parents, dependOnNew, newDependsOn)
      /\ m_children' = WithNew(m_children, newDependsOn, dependOnNew)
  BY DEF Insert
<1>2. PICK new \in Tasks : new = Id /\ new \in Nat /\ NumTasks \in Nat
  BY <1>1, TaskAssumption DEF PlanShape, Id, Tasks
<1>3. /\ stmts' \in Seq(Stmts) /\ Id' = new + 1 /\ Stmt(new)' = s
      /\ \A n \in 0..(new - 1) : Stmt(n)' = Stmt(n)
  BY <1>1, <1>2 DEF PlanShape, Id, Stmt
<1>4. ASSUME NEW n \in Tasks
      PROVE  /\ IsInjective(m_parents[n]) /\ new \notin ToSet(m_parents[n])
             /\ IsInjective(m_children[n]) /\ new \notin ToSet(m_children[n])
  <2>1. ~DependsOn(n, new) /\ ~DependsOn(new, n)
    BY <1>2 DEF DependsOn
  <2>2. QED
    BY <1>2, <2>1 DEF LinksRight
<1>5. newDependsOn \in SUBSET (0..(new - 1)) /\ dependOnNew \in SUBSET (0..(new - 1))
  BY <1>2
<1>6. \A n \in 0..(new - 1) : /\ n \in newDependsOn <=> IsDependent(s, Stmt(n))
                              /\ n \in dependOnNew <=> IsDependent(Stmt(n), s)
  BY <1>2
<1> HIDE DEF newDependsOn, dependOnNew
<1>7. /\ m_parents' \in [Tasks -> Seq(Tasks)]
      /\ \A n \in Tasks : IsInjective(m_parents'[n])
      /\ ToSet(m_parents'[new]) = newDependsOn
      /\ \A n \in Tasks, k \in Tasks : n # new =>
           (k \in ToSet(m_parents'[n]) <=> k \in ToSet(m_parents[n]) \/ (k = new /\ n \in dependOnNew))
  <2>1. /\ m_parents \in [Tasks -> Seq(Tasks)] /\ Id < NumTasks
        /\ dependOnNew \in SUBSET (0..(Id - 1)) /\ newDependsOn \in SUBSET (0..(Id - 1))
        /\ \A n \in Tasks : IsInjective(m_parents[n]) /\ Id \notin ToSet(m_parents[n])
    BY <1>1, <1>2, <1>4, <1>5 DEF PlanShape
  <2> DEFINE z == WithNew(m_parents, dependOnNew, newDependsOn)
  <2>2. /\ z \in [Tasks -> Seq(Tasks)]
        /\ \A n \in Tasks : IsInjective(z[n])
        /\ ToSet(z[Id]) = newDependsOn
        /\ \A n \in Tasks, k \in Tasks : n # Id =>
             (k \in ToSet(z[n]) <=> k \in ToSet(m_parents[n]) \/ (k = Id /\ n \in dependOnNew))
    BY <2>1, LinksWithNew
  <2>3. m_parents' = z
    BY <1>1
  <2> HIDE DEF z
  <2>4. QED
    BY <1>2, <2>2, <2>3
<1>8. /\ m_children' \in [Tasks -> Seq(Tasks)]
      /\ \A n \in Tasks : IsInjective(m_children'[n])
      /\ ToSet(m_children'[new]) = dependOnNew
      /\ \A n \in Tasks, k \in Tasks : n # new =>
           (k \in ToSet(m_children'[n]) <=> k \in ToSet(m_children[n]) \/ (k = new /\ n \in newDependsOn))
  <2>1. /\ m_children \in [Tasks -> Seq(Tasks)] /\ Id < NumTasks
        /\ dependOnNew \in SUBSET (0..(Id - 1)) /\ newDependsOn \in SUBSET (0..(Id - 1))
        /\ \A n \in Tasks : IsInjective(m_children[n]) /\ Id \notin ToSet(m_children[n])
    BY <1>1, <1>2, <1>4, <1>5 DEF PlanShape
  <2> DEFINE z == WithNew(m_children, newDependsOn, dependOnNew)
  <2>2. /\ z \in [Tasks -> Seq(Tasks)]
        /\ \A n \in Tasks : IsInjective(z[n])
        /\ ToSet(z[Id]) = dependOnNew
        /\ \A n \in Tasks, k \in Tasks : n # Id =>
             (k \in ToSet(z[n]) <=> k \in ToSet(m_children[n]) \/ (k = Id /\ n \in newDependsOn))
    BY <2>1, LinksWithNew
  <2>3. m_children' = z
    BY <1>1
  <2> HIDE DEF z
  <2>4. QED
    BY <1>2, <2>2, <2>3
<1>9. PlanShape'
  BY <1>1, <1>2, <1>3, <1>7, <1>8 DEF PlanShape
<1>10. ASSUME NEW n \in Tasks, NEW k \in Tasks
       PROVE  DependsOn(n, k)' <=> \/ DependsOn(n, k)
                                   \/ (n = new /\ k \in newDependsOn)
                                   \/ (k = new /\ n \in dependOnNew)
  <2>1. n \in Nat /\ k \in Nat
    BY <1>2 DEF Tasks
  <2>9. DependsOn(n, k) <=> n < new /\ k < new /\ n # k /\ IsDependent(Stmt(n), Stmt(k))
    BY <1>2 DEF DependsOn
  <2>2. DependsOn(n, k)' <=> n < new + 1 /\ k < new + 1 /\ n # k /\ IsDependent(Stmt(n)', Stmt(k)')
    BY <1>3 DEF DependsOn, IsDependent
  <2>3. CASE n < new /\ k < new
    <3>1. n \in 0..(new - 1) /\ k \in 0..(new - 1) /\ n # new /\ k # new
      BY <1>2, <2>1, <2>3
    <3>2. QED
      BY <1>2, <1>3, <2>1, <2>2, <2>3, <2>9, <3>1
  <2>4. CASE n = new /\ k < new
    <3>1. k \in 0..(new - 1) /\ ~(n < new) /\ k # new
      BY <1>2, <2>1, <2>4
    <3>2. DependsOn(n, k)' <=> IsDependent(s, Stmt(k))
      BY <1>2, <1>3, <2>1, <2>2, <2>4, <3>1
    <3>3. QED
      BY <1>6, <2>4, <2>9, <3>1, <3>2
  <2>5. CASE k = new /\ n < new
    <3>1. n \in 0..(new - 1) /\ ~(k < new) /\ n # new
      BY <1>2, <2>1, <2>5
    <3>2. DependsOn(n, k)' <=> IsDependent(Stmt(n), s)
      BY <1>2, <1>3, <2>1, <2>2, <2>5, <3>1
    <3>3. QED
      BY <1>6, <2>5, <2>9, <3>1, <3>2
  <2>6. CASE n = new /\ k = new
    <3>1. new \notin newDependsOn /\ new \notin dependOnNew /\ ~DependsOn(n, k)
      BY <1>2, <1>5, <2>6, <2>9
    <3>2. QED
      BY <2>2, <2>6, <3>1
  <2>7. CASE n > new \/ k > new
    <3>1. /\ ~(n < new + 1 /\ k < new + 1) /\ ~(n < new /\ k < new)
          /\ ~(n = new /\ k \in newDependsOn) /\ ~(k = new /\ n \in dependOnNew)
      BY <1>2, <1>5, <2>1, <2>7
    <3>2. QED
      BY <2>2, <2>9, <3>1
  <2>8. QED
    BY <1>2, <2>1, <2>3, <2>4, <2>5, <2>6, <2>7
<1>11. ~\E k \in Tasks : DependsOn(new, k) \/ DependsOn(k, new)
  BY <1>2 DEF DependsOn
<1>12. ASSUME NEW n \in Tasks, NEW k \in Tasks
       PROVE  k \in ToSet(m_parents'[n]) <=> DependsOn(n, k)'
  <2>1. CASE n = new
    <3>1. k \in ToSet(m_parents'[n]) <=> k \in newDependsOn
      BY <1>7, <2>1
    <3>2. ~(k = new /\ n \in dependOnNew)
      BY <1>2, <1>5, <2>1
    <3>3. QED
      BY <1>10, <1>11, <2>1, <3>1, <3>2
  <2>2. CASE n # new
    <3>1. k \in ToSet(m_parents'[n]) <=> k \in ToSet(m_parents[n]) \/ (k = new /\ n \in dependOnNew)
      BY <1>7, <2>2
    <3>2. k \in ToSet(m_parents[n]) <=> DependsOn(n, k)
      BY DEF LinksRight
    <3>3. QED
      BY <1>10, <2>2, <3>1, <3>2
  <2>3. QED
    BY <2>1, <2>2
<1>13. ASSUME NEW n \in Tasks, NEW k \in Tasks
       PROVE  n \in ToSet(m_children'[k]) <=> DependsOn(n, k)'
  <2>1. CASE k = new
    <3>1. n \in ToSet(m_children'[k]) <=> n \in dependOnNew
      BY <1>8, <2>1
    <3>2. ~(n = new /\ k \in newDependsOn)
      BY <1>2, <1>5, <2>1
    <3>3. QED
      BY <1>10, <1>11, <2>1, <3>1, <3>2
  <2>2. CASE k # new
    <3>1. n \in ToSet(m_children'[k]) <=> n \in ToSet(m_children[k]) \/ (n = new /\ k \in newDependsOn)
      BY <1>8, <2>2
    <3>2. n \in ToSet(m_children[k]) <=> DependsOn(n, k)
      BY DEF LinksRight
    <3>3. QED
      BY <1>10, <2>2, <3>1, <3>2
  <2>3. QED
    BY <2>1, <2>2
<1>14. LinksRight'
  BY <1>7, <1>8, <1>12, <1>13 DEF LinksRight
<1>15. QED
  BY <1>9, <1>14

---------------------------------------------------------------------------
(* The generated furious_init.                                             *)

\* The script keeps to the arrays of a task: FCC_MAX_TASK_PARENTS and FCC_MAX_TASK_CHILDREN.
LinksFit == \A n \in Tasks : Len(m_parents[n]) <= MaxLinks /\ Len(m_children[n]) <= MaxLinks

Memories == [Tasks -> [Words -> Nat]]

\* The words of a task are apart from each other.
LEMMA WordsApart ==
  /\ NumParentsWord \in Words /\ NumChildrenWord \in Words /\ NumParentsWord # NumChildrenWord
  /\ \A k \in 0..(MaxLinks - 1) :
       /\ ParentWord(k) \in Words /\ ChildWord(k) \in Words
       /\ ParentWord(k) # NumParentsWord /\ ParentWord(k) # NumChildrenWord
       /\ ChildWord(k) # NumParentsWord /\ ChildWord(k) # NumChildrenWord
  /\ \A k, l \in 0..(MaxLinks - 1) :
       /\ ParentWord(k) # ChildWord(l)
       /\ k # l => ParentWord(k) # ParentWord(l) /\ ChildWord(k) # ChildWord(l)
BY TaskAssumption DEF NumParentsWord, NumChildrenWord, ParentWord, ChildWord, Words

\* One store into the words of a task.
LEMMA StoreKeepsWords ==
  ASSUME NEW m \in Memories, NEW t \in Tasks, NEW w, NEW v \in Nat
  PROVE  [m EXCEPT ![t][w] = v] \in Memories
<1> DEFINE f == [m[t] EXCEPT ![w] = v]
<1>1. m[t] \in [Words -> Nat]
  BY DEF Memories
<1>2. f \in [Words -> Nat]
  BY <1>1
<1>3. [m EXCEPT ![t][w] = v] = [m EXCEPT ![t] = f]
  OBVIOUS
<1> HIDE DEF f
<1>4. QED
  BY <1>2, <1>3 DEF Memories

\* The memory stays one of words, wherever fdb_task_graph_set_parent writes.
LEMMA SetParentKeepsWords ==
  ASSUME NEW m \in Memories, NEW c \in Tasks, NEW p \in Tasks
  PROVE  SetParent(m, c, p) \in Memories
<1> DEFINE np == m[c][NumParentsWord]
           m1 == [m EXCEPT ![c][ParentWord(np)] = p, ![c][NumParentsWord] = np + 1]
           nc == m1[p][NumChildrenWord]
<1>1. p \in Nat /\ c \in Nat
  BY TaskAssumption DEF Tasks
<1>2. np \in Nat
  BY WordsApart DEF Memories
<1> HIDE DEF np
<1>3. m1 \in Memories
  <2> DEFINE m0 == [m EXCEPT ![c][ParentWord(np)] = p]
  <2>1. m0 \in Memories
    BY <1>1, StoreKeepsWords, Zenon
  <2>4. np + 1 \in Nat
    BY <1>2
  <2>2. m1 = [m0 EXCEPT ![c][NumParentsWord] = np + 1]
    OBVIOUS
  <2> HIDE DEF m0, m1
  <2>3. QED
    BY <2>1, <2>2, <2>4, StoreKeepsWords
<1> HIDE DEF m1, np
<1>4. nc \in Nat
  BY <1>3, WordsApart DEF Memories
<1> HIDE DEF nc
<1>5. [m1 EXCEPT ![p][ChildWord(nc)] = c, ![p][NumChildrenWord] = nc + 1] \in Memories
  <2> DEFINE m2 == [m1 EXCEPT ![p][ChildWord(nc)] = c]
             m3 == [m1 EXCEPT ![p][ChildWord(nc)] = c, ![p][NumChildrenWord] = nc + 1]
  <2>1. nc + 1 \in Nat
    BY <1>4
  <2>4. m2 \in Memories
    <3>1. c \in Nat /\ p \in Tasks
      BY <1>1
    <3>2. QED
      BY <1>3, <3>1, StoreKeepsWords, Zenon
  <2>2. m3 = [m2 EXCEPT ![p][NumChildrenWord] = nc + 1]
    OBVIOUS
  <2> HIDE DEF m2, m3
  <2>3. m3 \in Memories
    BY <2>1, <2>4, <2>2, StoreKeepsWords
  <2>5. QED
    BY <2>3 DEF m3
<1>6. QED
  BY <1>5 DEF SetParent, nc, m1, np

\* Within the bounds of the arrays it writes the next parent, the next child and the counters.
LEMMA SetParentWrites ==
  ASSUME NEW m \in Memories, NEW c \in Tasks, NEW p \in Tasks, c # p,
         NEW np \in Nat, m[c][NumParentsWord] = np, np < MaxLinks,
         NEW nc \in Nat, m[p][NumChildrenWord] = nc, nc < MaxLinks
  PROVE  LET z == SetParent(m, c, p) IN
         /\ z \in Memories
         /\ \A t \in Tasks : t # c /\ t # p => z[t] = m[t]
         /\ z[c][NumParentsWord] = np + 1 /\ z[c][NumChildrenWord] = m[c][NumChildrenWord]
         /\ z[c][ParentWord(np)] = p
         /\ \A k \in 0..(MaxLinks - 1) : k # np => z[c][ParentWord(k)] = m[c][ParentWord(k)]
         /\ \A k \in 0..(MaxLinks - 1) : z[c][ChildWord(k)] = m[c][ChildWord(k)]
         /\ z[p][NumChildrenWord] = nc + 1 /\ z[p][NumParentsWord] = m[p][NumParentsWord]
         /\ z[p][ChildWord(nc)] = c
         /\ \A k \in 0..(MaxLinks - 1) : k # nc => z[p][ChildWord(k)] = m[p][ChildWord(k)]
         /\ \A k \in 0..(MaxLinks - 1) : z[p][ParentWord(k)] = m[p][ParentWord(k)]
<1> DEFINE mc == [m[c] EXCEPT ![ParentWord(np)] = p, ![NumParentsWord] = np + 1]
           mp == [m[p] EXCEPT ![ChildWord(nc)] = c, ![NumChildrenWord] = nc + 1]
           z == SetParent(m, c, p)
<1>1. np \in 0..(MaxLinks - 1) /\ nc \in 0..(MaxLinks - 1)
  BY TaskAssumption
<1>2. z \in Memories
  BY SetParentKeepsWords
<1>3. z = [m EXCEPT ![c] = mc, ![p] = mp]
  <2> DEFINE m1 == [m EXCEPT ![c][ParentWord(np)] = p, ![c][NumParentsWord] = np + 1]
  <2>1. m1 = [m EXCEPT ![c] = mc]
    BY DEF Memories
  <2>2. m1[p] = m[p]
    BY DEF Memories
  <2>3. z = [m1 EXCEPT ![p][ChildWord(nc)] = c, ![p][NumChildrenWord] = nc + 1]
    BY <2>2 DEF SetParent
  <2> HIDE DEF m1, mc
  <2>4. z = [m1 EXCEPT ![p] = mp]
    BY <2>1, <2>2, <2>3 DEF Memories
  <2>5. QED
    BY <2>1, <2>4
<1> HIDE DEF z
<1>4. z[c] = mc /\ z[p] = mp /\ \A t \in Tasks : t # c /\ t # p => z[t] = m[t]
  <2> HIDE DEF mc, mp
  <2>1. QED
    BY <1>3 DEF Memories
<1>5. m[c] \in [Words -> Nat] /\ m[p] \in [Words -> Nat]
  BY DEF Memories
<1>6. /\ mc[NumParentsWord] = np + 1 /\ mc[NumChildrenWord] = m[c][NumChildrenWord]
      /\ mc[ParentWord(np)] = p
      /\ \A k \in 0..(MaxLinks - 1) : k # np => mc[ParentWord(k)] = m[c][ParentWord(k)]
      /\ \A k \in 0..(MaxLinks - 1) : mc[ChildWord(k)] = m[c][ChildWord(k)]
  BY <1>1, <1>5, WordsApart
<1>7. /\ mp[NumChildrenWord] = nc + 1 /\ mp[NumParentsWord] = m[p][NumParentsWord]
      /\ mp[ChildWord(nc)] = c
      /\ \A k \in 0..(MaxLinks - 1) : k # nc => mp[ChildWord(k)] = m[p][ChildWord(k)]
      /\ \A k \in 0..(MaxLinks - 1) : mp[ParentWord(k)] = m[p][ParentWord(k)]
  BY <1>1, <1>5, WordsApart
<1> HIDE DEF mc, mp
<1>8. QED
  BY <1>2, <1>4, <1>6, <1>7 DEF z

\* The links of one node are set one after the other.
LEMMA LinkParentsUnfolds ==
  ASSUME NEW m \in Memories, NEW n \in Tasks, m_parents[n] \in Seq(Tasks)
  PROVE  \E f \in [0..Len(m_parents[n]) -> Memories] :
           /\ f[0] = m /\ LinkParents(m, n) = f[Len(m_parents[n])]
           /\ \A k \in 1..Len(m_parents[n]) : f[k] = SetParent(f[k - 1], n, m_parents[n][k])
<1> DEFINE last == Len(m_parents[n])
           Unfolds(g) == g = [k \in 0..last |->
                                IF k = 0 THEN m ELSE SetParent(g[k - 1], n, m_parents[n][k])]
           f == CHOOSE g : Unfolds(g)
           step == [i \in 1..last |-> [q \in Memories |-> SetParent(q, n, m_parents[n][i])]]
<1>1. last \in Nat /\ \A i \in 1..last : m_parents[n][i] \in Tasks
  OBVIOUS
<1> HIDE DEF last
<1>2. step \in [1..last -> [Memories -> Memories]]
  BY <1>1, SetParentKeepsWords
<1>3. PICK h \in [0..last -> Memories] : h[0] = m /\ \A i \in 1..last : h[i] = step[i][h[i - 1]]
  <2> HIDE DEF step
  <2>1. \E h \in [0..last -> Memories] : Computes(h, m, step, last)
    BY <1>1, <1>2, StepByStep
  <2>2. QED
    BY <2>1 DEF Computes
<1>4. ASSUME NEW i \in 1..last PROVE i - 1 \in 0..last /\ h[i] = SetParent(h[i - 1], n, m_parents[n][i])
  <2>1. i - 1 \in 0..last /\ h[i - 1] \in Memories
    BY <1>1, <1>3
  <2>2. QED
    BY <1>3, <2>1
<1>5. Unfolds(h)
  <2>1. ASSUME NEW k \in 0..last
        PROVE  h[k] = IF k = 0 THEN m ELSE SetParent(h[k - 1], n, m_parents[n][k])
    <3>1. CASE k = 0
      BY <1>3, <3>1
    <3>2. CASE k # 0
      <4>1. k \in 1..last
        BY <1>1, <3>2
      <4>2. QED
        BY <1>4, <3>2, <4>1
    <3>3. QED
      BY <3>1, <3>2
  <2>2. h = [k \in 0..last |-> h[k]]
    BY <1>3
  <2>3. QED
    BY <2>1, <2>2, Zenon
<1>6. Unfolds(f)
  BY <1>5, Zenon
<1>7. LinkParents(m, n) = f[last]
  BY Zenon DEF LinkParents, last
<1>8. f = [k \in 0..last |-> IF k = 0 THEN m ELSE SetParent(f[k - 1], n, m_parents[n][k])]
  BY <1>6
<1> HIDE DEF f, Unfolds
<1>9. /\ f[0] = m
      /\ \A k \in 1..last : f[k] = SetParent(f[k - 1], n, m_parents[n][k])
  BY <1>1, <1>8
<1>10. 0..last \subseteq {k \in 0..last : f[k] \in Memories}
  <2>1. ASSUME NEW k \in 0..(last - 1), f[k] \in Memories PROVE f[k + 1] \in Memories
    <3>1. k + 1 \in 1..last /\ (k + 1) - 1 = k
      BY <1>1
    <3>2. f[k + 1] = SetParent(f[k], n, m_parents[n][k + 1]) /\ m_parents[n][k + 1] \in Tasks
      BY <1>1, <1>9, <3>1
    <3>3. QED
      BY <2>1, <3>2, SetParentKeepsWords
  <2> DEFINE G == {k \in 0..last : f[k] \in Memories}
  <2>2. 0 \in G /\ \A k \in 0..(last - 1) : k \in G => k + 1 \in G
    BY <1>1, <1>9, <2>1
  <2> HIDE DEF G
  <2>3. 0..last \subseteq G
    BY <1>1, <2>2, CountingUp
  <2>4. QED
    BY <2>3 DEF G
<1>11. f \in [0..last -> Memories]
  BY <1>8, <1>10
<1>12. QED
  BY <1>7, <1>9, <1>11 DEF last

\* So are those of all nodes.
LEMMA BuiltUnfolds ==
  ASSUME PlanShape
  PROVE  \E f \in [0..NumTasks -> Memories] :
           /\ f[0] = Zeroed /\ Built = f[NumTasks]
           /\ \A n \in 1..NumTasks : f[n] = LinkParents(f[n - 1], n - 1)
<1> DEFINE Unfolds(g) == g = [n \in 0..NumTasks |->
                                IF n = 0 THEN Zeroed ELSE LinkParents(g[n - 1], n - 1)]
           f == CHOOSE g : Unfolds(g)
           step == [i \in 1..NumTasks |-> [q \in Memories |-> LinkParents(q, i - 1)]]
<1>1. /\ NumTasks \in Nat
      /\ \A i \in 1..NumTasks : i - 1 \in Tasks /\ m_parents[i - 1] \in Seq(Tasks)
  BY TaskAssumption DEF Tasks, PlanShape
<1>2. ASSUME NEW q \in Memories, NEW i \in 1..NumTasks PROVE LinkParents(q, i - 1) \in Memories
  <2>1. i - 1 \in Tasks /\ m_parents[i - 1] \in Seq(Tasks)
    BY <1>1
  <2>2. PICK g \in [0..Len(m_parents[i - 1]) -> Memories] :
          LinkParents(q, i - 1) = g[Len(m_parents[i - 1])]
    BY <2>1, LinkParentsUnfolds
  <2>3. Len(m_parents[i - 1]) \in 0..Len(m_parents[i - 1])
    BY <2>1
  <2>4. QED
    BY <2>2, <2>3
<1>3. step \in [1..NumTasks -> [Memories -> Memories]]
  BY <1>2
<1>4. Zeroed \in Memories
  BY DEF Zeroed, Memories
<1>5. PICK h \in [0..NumTasks -> Memories] :
        h[0] = Zeroed /\ \A i \in 1..NumTasks : h[i] = step[i][h[i - 1]]
  <2> HIDE DEF step
  <2>1. \E h \in [0..NumTasks -> Memories] : Computes(h, Zeroed, step, NumTasks)
    BY <1>1, <1>3, <1>4, StepByStep
  <2>2. QED
    BY <2>1 DEF Computes
<1>6. ASSUME NEW i \in 1..NumTasks PROVE i - 1 \in 0..NumTasks /\ h[i] = LinkParents(h[i - 1], i - 1)
  <2>1. i - 1 \in 0..NumTasks /\ h[i - 1] \in Memories
    BY <1>1, <1>5
  <2>2. QED
    BY <1>5, <2>1
<1>7. Unfolds(h)
  <2>1. ASSUME NEW n \in 0..NumTasks
        PROVE  h[n] = IF n = 0 THEN Zeroed ELSE LinkParents(h[n - 1], n - 1)
    <3>1. CASE n = 0
      BY <1>5, <3>1
    <3>2. CASE n # 0
      <4>1. n \in 1..NumTasks
        BY <1>1, <3>2
      <4>2. QED
        BY <1>6, <3>2, <4>1
    <3>3. QED
      BY <3>1, <3>2
  <2>2. h = [n \in 0..NumTasks |-> h[n]]
    BY <1>5
  <2>3. QED
    BY <2>1, <2>2, Zenon
<1>8. Unfolds(f)
  BY <1>7, Zenon
<1>9. Built = f[NumTasks]
  BY Zenon DEF Built
<1>10. f = [n \in 0..NumTasks |-> IF n = 0 THEN Zeroed ELSE LinkParents(f[n - 1], n - 1)]
  BY <1>8
<1> HIDE DEF f, Unfolds
<1>11. f[0] = Zeroed /\ \A n \in 1..NumTasks : f[n] = LinkParents(f[n - 1], n - 1)
  <2>1. 0 \in 0..NumTasks /\ \A n \in 1..NumTasks : n \in 0..NumTasks /\ n # 0
    BY <1>1
  <2>2. \A n \in 0..NumTasks : f[n] = IF n = 0 THEN Zeroed ELSE LinkParents(f[n - 1], n - 1)
    BY <1>10, Zenon
  <2>3. QED
    BY <2>1, <2>2, Zenon
<1>12. 0..NumTasks \subseteq {n \in 0..NumTasks : f[n] \in Memories}
  <2>1. ASSUME NEW n \in 0..(NumTasks - 1), f[n] \in Memories PROVE f[n + 1] \in Memories
    <3>1. n + 1 \in 1..NumTasks /\ (n + 1) - 1 = n
      BY <1>1
    <3>2. f[n + 1] = LinkParents(f[n], (n + 1) - 1)
      BY <1>11, <3>1
    <3>3. QED
      BY <1>2, <2>1, <3>1, <3>2
  <2> DEFINE G == {n \in 0..NumTasks : f[n] \in Memories}
  <2>2. 0 \in G /\ \A n \in 0..(NumTasks - 1) : n \in G => n + 1 \in G
    BY <1>1, <1>4, <1>11, <2>1
  <2> HIDE DEF G
  <2>3. 0..NumTasks \subseteq G
    BY <1>1, <2>2, CountingUp
  <2>4. QED
    BY <2>3 DEF G
<1>13. f \in [0..NumTasks -> Memories]
  BY <1>10, <1>12
<1>14. QED
  BY <1>9, <1>11, <1>13

\* The nodes whose link to t is set when those before n have theirs, and n its first q.
Kids(t, n, q) ==
  {c \in Tasks : \/ c < n /\ t \in ToSet(m_parents[c])
                 \/ c = n /\ \E i \in 1..q : m_parents[n][i] = t}

\* The number of parents of t by then.
NumLinked(t, n, q) == IF t < n THEN Len(m_parents[t]) ELSE IF t = n THEN q ELSE 0

\* The words of the tasks by then.
LinkedUpTo(m, n, q) ==
  \A t \in Tasks :
    /\ m[t][NumParentsWord] = NumLinked(t, n, q)
    /\ \A k \in 0..(NumLinked(t, n, q) - 1) : m[t][ParentWord(k)] = m_parents[t][k + 1]
    /\ m[t][NumChildrenWord] = Cardinality(Kids(t, n, q))
    /\ \A k \in 0..(Cardinality(Kids(t, n, q)) - 1) : m[t][ChildWord(k)] \in Tasks

\* No more nodes link to t than the plan lists as its children.
LEMMA KidsFit ==
  ASSUME PlanShape, LinksRight, LinksFit, NEW t \in Tasks, NEW n, NEW q
  PROVE  /\ IsFiniteSet(Kids(t, n, q)) /\ Cardinality(Kids(t, n, q)) \in Nat
         /\ n \in Tasks /\ q \in 0..Len(m_parents[n]) => Cardinality(Kids(t, n, q)) <= MaxLinks
<1> DEFINE list == m_children[t]
<1>1. list \in Seq(Tasks) /\ Len(list) <= MaxLinks /\ Len(list) \in Nat
  BY DEF PlanShape, LinksFit
<1>2. IsFiniteSet(Tasks)
  BY TaskAssumption, FS_Interval DEF Tasks
<1>3. Kids(t, n, q) \subseteq Tasks
  BY DEF Kids
<1>4. IsFiniteSet(Kids(t, n, q)) /\ Cardinality(Kids(t, n, q)) \in Nat
  BY <1>2, <1>3, FS_Subset, FS_CardinalityType
<1>5. ASSUME n \in Tasks, q \in 0..Len(m_parents[n])
      PROVE  Cardinality(Kids(t, n, q)) <= MaxLinks
  <2>1. Kids(t, n, q) \subseteq ToSet(list)
    <3> SUFFICES ASSUME NEW c \in Kids(t, n, q) PROVE c \in ToSet(list)
      OBVIOUS
    <3>1. m_parents[n] \in Seq(Tasks)
      BY <1>5 DEF PlanShape
    <3>2. c \in Tasks /\ t \in ToSet(m_parents[c])
      BY <1>5, <3>1 DEF Kids, ToSet
    <3>3. QED
      BY <3>2 DEF LinksRight
  <2>2. IsFiniteSet(ToSet(list)) /\ Cardinality(ToSet(list)) <= Len(list)
    <3>1. IsFiniteSet(1..Len(list)) /\ Cardinality(1..Len(list)) = Len(list)
      <4> HIDE DEF list
      <4>1. 1 \in Int /\ Len(list) \in Int /\ Len(list) >= 0
        BY <1>1
      <4>2. IsFiniteSet(1..Len(list))
            /\ Cardinality(1..Len(list)) = IF 1 > Len(list) THEN 0 ELSE Len(list) - 1 + 1
        BY <4>1, FS_Interval, Zenon
      <4>3. QED
        BY <4>1, <4>2
    <3>2. list \in Surjection(1..Len(list), ToSet(list))
      BY <1>1 DEF Surjection, ToSet
    <3>3. QED
      BY <3>1, <3>2, FS_Surjection
  <2>3. Cardinality(Kids(t, n, q)) <= Cardinality(ToSet(list))
    BY <2>1, <2>2, FS_Subset
  <2>4. Cardinality(ToSet(list)) \in Nat
    BY <2>2, FS_CardinalityType
  <2>5. QED
    BY <1>1, <1>4, <2>2, <2>3, <2>4, TaskAssumption
<1>6. QED
  BY <1>4, <1>5

\* One call of fdb_task_graph_set_parent: the next parent of n is linked.
LEMMA LinkStep ==
  ASSUME PlanShape, LinksRight, LinksFit, NEW n \in Tasks, NEW q \in 1..Len(m_parents[n]),
         NEW m \in Memories, LinkedUpTo(m, n, q - 1)
  PROVE  LinkedUpTo(SetParent(m, n, m_parents[n][q]), n, q)
<1> DEFINE p == m_parents[n][q]
           np == q - 1
           nc == Cardinality(Kids(p, n, q - 1))
           z == SetParent(m, n, p)
<1>1. /\ m_parents[n] \in Seq(Tasks) /\ Len(m_parents[n]) \in Nat /\ Len(m_parents[n]) <= MaxLinks
      /\ MaxLinks \in Nat /\ n \in Nat
  BY TaskAssumption DEF PlanShape, LinksFit, Tasks
<1>2. p \in Tasks /\ p # n
  <2>1. p \in Tasks /\ p \in ToSet(m_parents[n])
    BY <1>1 DEF ToSet
  <2>2. QED
    BY <2>1 DEF LinksRight, DependsOn
<1>3. \A i \in 1..(q - 1) : m_parents[n][i] # p
  <2>1. IsInjective(m_parents[n])
    BY DEF LinksRight
  <2>2. QED
    BY <1>1, <2>1 DEF IsInjective
<1>4. q \in Nat /\ np \in Nat /\ q = np + 1 /\ np < MaxLinks /\ q \in 0..Len(m_parents[n])
  BY <1>1
<1>5. Kids(p, n, q) = Kids(p, n, q - 1) \cup {n} /\ n \notin Kids(p, n, q - 1)
  <2>1. n \notin Kids(p, n, q - 1)
    BY <1>1, <1>3 DEF Kids
  <2>2. ASSUME NEW c \in Tasks
        PROVE  c \in Kids(p, n, q) <=> c \in Kids(p, n, q - 1) \cup {n}
    <3>1. CASE c = n
      <4>1. q \in 1..q
        BY <1>4
      <4>2. n \in Kids(p, n, q)
        BY <4>1 DEF Kids
      <4>3. QED
        BY <3>1, <4>2
    <3>2. CASE c # n
      BY <3>2 DEF Kids
    <3>3. QED
      BY <3>1, <3>2
  <2>3. Kids(p, n, q) \subseteq Tasks /\ Kids(p, n, q - 1) \subseteq Tasks
    BY DEF Kids
  <2>4. QED
    BY <2>1, <2>2, <2>3
<1>6. ASSUME NEW t \in Tasks, t # p PROVE Kids(t, n, q) = Kids(t, n, q - 1)
  <2>1. (\E i \in 1..q : m_parents[n][i] = t) <=> (\E i \in 1..(q - 1) : m_parents[n][i] = t)
    <3>1. \A i \in 1..q : i \in 1..(q - 1) \/ i = q
      BY <1>4
    <3>2. \A i \in 1..(q - 1) : i \in 1..q
      BY <1>4
    <3>3. QED
      BY <1>6, <3>1, <3>2
  <2>2. QED
    BY <2>1 DEF Kids
<1>7. nc \in Nat /\ Cardinality(Kids(p, n, q)) = nc + 1 /\ nc < MaxLinks
  <2>1. IsFiniteSet(Kids(p, n, q - 1)) /\ nc \in Nat
    BY <1>2, KidsFit
  <2>2. Cardinality(Kids(p, n, q)) = nc + 1
    BY <1>5, <2>1, FS_AddElement
  <2>3. Cardinality(Kids(p, n, q)) <= MaxLinks
    BY <1>2, <1>4, KidsFit
  <2>4. QED
    BY <1>1, <2>1, <2>2, <2>3
<1> HIDE DEF p, np, nc, z
<1>8. /\ m[n][NumParentsWord] = np /\ m[p][NumChildrenWord] = nc
  <2>1. NumLinked(n, n, q - 1) = np
    BY <1>1 DEF NumLinked, np
  <2>2. QED
    BY <1>2, <2>1 DEF LinkedUpTo, nc
<1>9. /\ z \in Memories
      /\ \A t \in Tasks : t # n /\ t # p => z[t] = m[t]
      /\ z[n][NumParentsWord] = np + 1 /\ z[n][NumChildrenWord] = m[n][NumChildrenWord]
      /\ z[n][ParentWord(np)] = p
      /\ \A k \in 0..(MaxLinks - 1) : k # np => z[n][ParentWord(k)] = m[n][ParentWord(k)]
      /\ \A k \in 0..(MaxLinks - 1) : z[n][ChildWord(k)] = m[n][ChildWord(k)]
      /\ z[p][NumChildrenWord] = nc + 1 /\ z[p][NumParentsWord] = m[p][NumParentsWord]
      /\ z[p][ChildWord(nc)] = n
      /\ \A k \in 0..(MaxLinks - 1) : k # nc => z[p][ChildWord(k)] = m[p][ChildWord(k)]
      /\ \A k \in 0..(MaxLinks - 1) : z[p][ParentWord(k)] = m[p][ParentWord(k)]
  BY <1>2, <1>4, <1>7, <1>8, SetParentWrites DEF z
<1>10. ASSUME NEW t \in Tasks
       PROVE  /\ NumLinked(t, n, q - 1) \in 0..MaxLinks /\ NumLinked(t, n, q) \in 0..MaxLinks
              /\ t # n => NumLinked(t, n, q) = NumLinked(t, n, q - 1)
              /\ t = n => NumLinked(t, n, q) = np + 1 /\ NumLinked(t, n, q - 1) = np
              /\ Cardinality(Kids(t, n, q - 1)) \in 0..MaxLinks
              /\ t # p => Cardinality(Kids(t, n, q)) = Cardinality(Kids(t, n, q - 1))
  <2>1. Len(m_parents[t]) \in Nat /\ Len(m_parents[t]) <= MaxLinks
    BY DEF PlanShape, LinksFit
  <2>2. /\ NumLinked(t, n, q - 1) \in 0..MaxLinks /\ NumLinked(t, n, q) \in 0..MaxLinks
        /\ t # n => NumLinked(t, n, q) = NumLinked(t, n, q - 1)
        /\ t = n => NumLinked(t, n, q) = np + 1 /\ NumLinked(t, n, q - 1) = np
    BY <1>1, <1>4, <2>1 DEF NumLinked, np
  <2>3. q - 1 \in 0..Len(m_parents[n])
    BY <1>1, <1>4
  <2>4. Cardinality(Kids(t, n, q - 1)) \in Nat /\ Cardinality(Kids(t, n, q - 1)) <= MaxLinks
    BY <2>3, KidsFit
  <2>5. QED
    BY <1>1, <1>6, <2>2, <2>4
<1>11. ASSUME NEW t \in Tasks
       PROVE  /\ z[t][NumParentsWord] = NumLinked(t, n, q)
              /\ \A k \in 0..(NumLinked(t, n, q) - 1) : z[t][ParentWord(k)] = m_parents[t][k + 1]
  <2>1. /\ m[t][NumParentsWord] = NumLinked(t, n, q - 1)
        /\ \A k \in 0..(NumLinked(t, n, q - 1) - 1) : m[t][ParentWord(k)] = m_parents[t][k + 1]
    BY DEF LinkedUpTo
  <2>2. CASE t = n
    <3>1. z[t][NumParentsWord] = NumLinked(t, n, q)
      BY <1>9, <1>10, <2>2
    <3>2. ASSUME NEW k \in 0..(NumLinked(t, n, q) - 1) PROVE z[t][ParentWord(k)] = m_parents[t][k + 1]
      <4>1. k \in 0..np /\ k \in 0..(MaxLinks - 1)
        BY <1>1, <1>4, <1>10, <2>2
      <4>2. CASE k = np
        BY <1>4, <1>9, <2>2, <4>2 DEF p
      <4>3. CASE k # np
        <5>1. k \in 0..(NumLinked(t, n, q - 1) - 1)
          BY <1>4, <1>10, <2>2, <4>1, <4>3
        <5>2. QED
          BY <1>9, <2>1, <2>2, <4>1, <4>3, <5>1
      <4>4. QED
        BY <4>2, <4>3
    <3>3. QED
      BY <3>1, <3>2
  <2>3. CASE t # n
    <3>1. \A k \in 0..(NumLinked(t, n, q) - 1) : k \in 0..(MaxLinks - 1)
      BY <1>1, <1>10
    <3>2. z[t][NumParentsWord] = m[t][NumParentsWord]
          /\ \A k \in 0..(MaxLinks - 1) : z[t][ParentWord(k)] = m[t][ParentWord(k)]
      <4>1. CASE t = p
        BY <1>9, <4>1
      <4>2. CASE t # p
        BY <1>9, <2>3, <4>2
      <4>3. QED
        BY <4>1, <4>2
    <3>3. QED
      BY <1>10, <2>1, <2>3, <3>1, <3>2
  <2>4. QED
    BY <2>2, <2>3
<1>12. ASSUME NEW t \in Tasks
       PROVE  /\ z[t][NumChildrenWord] = Cardinality(Kids(t, n, q))
              /\ \A k \in 0..(Cardinality(Kids(t, n, q)) - 1) : z[t][ChildWord(k)] \in Tasks
  <2>1. /\ m[t][NumChildrenWord] = Cardinality(Kids(t, n, q - 1))
        /\ \A k \in 0..(Cardinality(Kids(t, n, q - 1)) - 1) : m[t][ChildWord(k)] \in Tasks
    BY DEF LinkedUpTo
  <2>2. CASE t = p
    <3>1. z[t][NumChildrenWord] = Cardinality(Kids(t, n, q))
      BY <1>7, <1>9, <2>2
    <3>2. ASSUME NEW k \in 0..(Cardinality(Kids(t, n, q)) - 1) PROVE z[t][ChildWord(k)] \in Tasks
      <4>1. k \in 0..nc /\ k \in 0..(MaxLinks - 1)
        BY <1>1, <1>7, <2>2
      <4>2. CASE k = nc
        BY <1>9, <2>2, <4>2
      <4>3. CASE k # nc
        <5>1. k \in 0..(nc - 1) /\ Cardinality(Kids(t, n, q - 1)) = nc
          BY <1>7, <2>2, <4>1, <4>3 DEF nc
        <5>2. QED
          BY <1>9, <2>1, <2>2, <4>1, <4>3, <5>1
      <4>4. QED
        BY <4>2, <4>3
    <3>3. QED
      BY <3>1, <3>2
  <2>3. CASE t # p
    <3>1. \A k \in 0..(Cardinality(Kids(t, n, q)) - 1) : k \in 0..(MaxLinks - 1)
      BY <1>1, <1>10, <2>3
    <3>2. z[t][NumChildrenWord] = m[t][NumChildrenWord]
          /\ \A k \in 0..(MaxLinks - 1) : z[t][ChildWord(k)] = m[t][ChildWord(k)]
      <4>1. CASE t = n
        BY <1>9, <4>1
      <4>2. CASE t # n
        BY <1>9, <2>3, <4>2
      <4>3. QED
        BY <4>1, <4>2
    <3>3. QED
      BY <1>10, <2>1, <2>3, <3>1, <3>2
  <2>4. QED
    BY <2>2, <2>3
<1>13. LinkedUpTo(z, n, q)
  BY <1>11, <1>12 DEF LinkedUpTo
<1>14. QED
  BY <1>13 DEF z, p

\* A task as fdb_task_graph_insert_task leaves it has no links.
LEMMA NothingLinked ==
  LinkedUpTo(Zeroed, 0, 0)
<1> SUFFICES ASSUME NEW t \in Tasks
             PROVE  /\ Zeroed[t][NumParentsWord] = NumLinked(t, 0, 0)
                    /\ \A k \in 0..(NumLinked(t, 0, 0) - 1) : Zeroed[t][ParentWord(k)] = m_parents[t][k + 1]
                    /\ Zeroed[t][NumChildrenWord] = Cardinality(Kids(t, 0, 0))
                    /\ \A k \in 0..(Cardinality(Kids(t, 0, 0)) - 1) : Zeroed[t][ChildWord(k)] \in Tasks
  BY DEF LinkedUpTo
<1>1. \A c \in Tasks : ~(c < 0)
  BY TaskAssumption DEF Tasks
<1>2. NumLinked(t, 0, 0) = 0
  BY <1>1 DEF NumLinked
<1>3. Kids(t, 0, 0) = {}
  <2>1. 1..0 = {}
    OBVIOUS
  <2>2. QED
    BY <1>1, <2>1 DEF Kids
<1>4. Cardinality(Kids(t, 0, 0)) = 0
  BY <1>3, FS_EmptySet
<1>5. Zeroed[t][NumParentsWord] = 0 /\ Zeroed[t][NumChildrenWord] = 0
  BY WordsApart DEF Zeroed
<1>6. 0..(0 - 1) = {}
  OBVIOUS
<1>7. QED
  BY <1>2, <1>4, <1>5, <1>6

\* When all parents of n are linked it is the next node's turn.
LEMMA NextNode ==
  ASSUME PlanShape, NEW n \in Tasks, NEW m, LinkedUpTo(m, n, Len(m_parents[n]))
  PROVE  LinkedUpTo(m, n + 1, 0)
<1>1. /\ n \in Nat /\ \A t \in Tasks : t \in Nat
      /\ m_parents[n] \in Seq(Tasks) /\ Len(m_parents[n]) \in Nat
  BY TaskAssumption DEF Tasks, PlanShape
<1>2. \A t \in Tasks : NumLinked(t, n + 1, 0) = NumLinked(t, n, Len(m_parents[n]))
  BY <1>1 DEF NumLinked
<1>3. ASSUME NEW t \in Tasks PROVE Kids(t, n + 1, 0) = Kids(t, n, Len(m_parents[n]))
  <2>1. \A c \in Tasks : c < n + 1 <=> c < n \/ c = n
    BY <1>1
  <2>2. 1..0 = {}
    OBVIOUS
  <2>3. t \in ToSet(m_parents[n]) <=> \E i \in 1..Len(m_parents[n]) : m_parents[n][i] = t
    BY <1>1 DEF ToSet
  <2>4. QED
    BY <2>1, <2>2, <2>3 DEF Kids
<1>4. QED
  BY <1>2, <1>3 DEF LinkedUpTo

\* The loop over the parents of n.
LEMMA LinkParentsStep ==
  ASSUME PlanShape, LinksRight, LinksFit, NEW n \in Tasks,
         NEW m \in Memories, LinkedUpTo(m, n, 0)
  PROVE  LinkParents(m, n) \in Memories /\ LinkedUpTo(LinkParents(m, n), n + 1, 0)
<1> DEFINE last == Len(m_parents[n])
<1>1. m_parents[n] \in Seq(Tasks) /\ last \in Nat
  BY DEF PlanShape
<1>2. PICK f \in [0..last -> Memories] :
        /\ f[0] = m /\ LinkParents(m, n) = f[last]
        /\ \A k \in 1..last : f[k] = SetParent(f[k - 1], n, m_parents[n][k])
  BY <1>1, LinkParentsUnfolds
<1> DEFINE G == {k \in 0..last : LinkedUpTo(f[k], n, k)}
<1>3. 0 \in G
  BY <1>1, <1>2
<1>4. ASSUME NEW k \in 0..(last - 1), k \in G PROVE k + 1 \in G
  <2>1. k + 1 \in 1..last /\ (k + 1) - 1 = k /\ k + 1 \in 0..last /\ k \in 0..last
    BY <1>1
  <2>2. f[k + 1] = SetParent(f[k], n, m_parents[n][k + 1]) /\ f[k] \in Memories
    BY <1>2, <2>1
  <2>3. LinkedUpTo(f[k], n, (k + 1) - 1)
    BY <1>4, <2>1
  <2>4. LinkedUpTo(SetParent(f[k], n, m_parents[n][k + 1]), n, k + 1)
    BY <2>1, <2>2, <2>3, LinkStep
  <2>5. QED
    BY <2>1, <2>2, <2>4
<1>5. 0..last \subseteq G
  <2> HIDE DEF G, last
  <2>1. QED
    BY <1>1, <1>3, <1>4, CountingUp
<1>6. LinkedUpTo(f[last], n, last) /\ f[last] \in Memories
  BY <1>1, <1>2, <1>5
<1>7. QED
  BY <1>2, <1>6, NextNode

\* fcc_generate_task_graph writes a graph whose parents are those of the plan, within the arrays.
LEMMA BuiltIsThePlan ==
  ASSUME PlanShape, LinksRight, LinksFit
  PROVE  /\ Built \in Memories
         /\ \A t \in Tasks :
              /\ Built[t][NumParentsWord] = Len(m_parents[t])
              /\ \A k \in 0..(Len(m_parents[t]) - 1) : Built[t][ParentWord(k)] = m_parents[t][k + 1]
              /\ Built[t][NumChildrenWord] \in 0..MaxLinks
              /\ \A k \in 0..(Built[t][NumChildrenWord] - 1) : Built[t][ChildWord(k)] \in Tasks
<1>1. NumTasks \in Nat /\ MaxLinks \in Nat
  BY TaskAssumption
<1>2. PICK f \in [0..NumTasks -> Memories] :
        /\ f[0] = Zeroed /\ Built = f[NumTasks]
        /\ \A n \in 1..NumTasks : f[n] = LinkParents(f[n - 1], n - 1)
  BY BuiltUnfolds
<1> DEFINE G == {n \in 0..NumTasks : LinkedUpTo(f[n], n, 0)}
<1>3. 0 \in G
  BY <1>1, <1>2, NothingLinked
<1>4. ASSUME NEW n \in 0..(NumTasks - 1), n \in G PROVE n + 1 \in G
  <2>1. n + 1 \in 1..NumTasks /\ (n + 1) - 1 = n /\ n + 1 \in 0..NumTasks /\ n \in Tasks
    BY <1>1 DEF Tasks
  <2>2. f[n + 1] = LinkParents(f[n], n) /\ f[n] \in Memories /\ LinkedUpTo(f[n], n, 0)
    BY <1>2, <1>4, <2>1
  <2>3. LinkedUpTo(f[n + 1], n + 1, 0)
    BY <2>1, <2>2, LinkParentsStep
  <2>4. QED
    BY <2>1, <2>3
<1>5. 0..NumTasks \subseteq G
  <2> HIDE DEF G
  <2>1. QED
    BY <1>1, <1>3, <1>4, CountingUp
<1>6. Built \in Memories /\ LinkedUpTo(Built, NumTasks, 0)
  BY <1>1, <1>2, <1>5
<1>7. ASSUME NEW t \in Tasks
      PROVE  NumLinked(t, NumTasks, 0) = Len(m_parents[t])
  BY <1>1 DEF NumLinked, Tasks
<1>8. ASSUME NEW t \in Tasks
      PROVE  Cardinality(Kids(t, NumTasks, 0)) \in 0..MaxLinks
  <2> DEFINE n == NumTasks - 1
  <2>1. n \in Tasks /\ n + 1 = NumTasks
    BY <1>1 DEF Tasks
  <2>2. m_parents[n] \in Seq(Tasks) /\ Len(m_parents[n]) \in 0..Len(m_parents[n])
    BY <2>1 DEF PlanShape
  <2>3. Kids(t, NumTasks, 0) = Kids(t, n, Len(m_parents[n]))
    <3>1. \A c \in Tasks : c < NumTasks /\ (c < n \/ c = n) /\ c # NumTasks
      BY <1>1 DEF Tasks
    <3>2. \A c \in Tasks : c = n => ~(c < n)
      BY <1>1 DEF Tasks
    <3>3. t \in ToSet(m_parents[n]) <=> \E i \in 1..Len(m_parents[n]) : m_parents[n][i] = t
      BY <2>2 DEF ToSet
    <3> HIDE DEF n
    <3>4. QED
      BY <3>1, <3>2, <3>3 DEF Kids
  <2> HIDE DEF n
  <2>4. Cardinality(Kids(t, n, Len(m_parents[n]))) \in Nat
        /\ Cardinality(Kids(t, n, Len(m_parents[n]))) <= MaxLinks
    BY <2>1, <2>2, KidsFit
  <2>5. QED
    BY <1>1, <2>3, <2>4
<1>9. QED
  BY <1>6, <1>7, <1>8 DEF LinkedUpTo

---------------------------------------------------------------------------
(* From the script to the frame.                                           *)

\* No frame has begun.
NoFrameYet ==
  /\ runpc = "idle"
  /\ visited = [t \in Tasks |-> FALSE]
  /\ found = FALSE /\ cursor = 0
  /\ cfrontier = <<>> /\ nfrontier = <<>>
  /\ ii = 1 /\ j = 0
  /\ executed = <<>>

\* The program has the graph of the plan.
GraphIsThePlan ==
  /\ phase # "program" => NoFrameYet
  /\ phase = "program" => \A t \in Tasks : Parents(t) = ToSet(m_parents[t])

PlanInv == PlanShape /\ LinksRight /\ RunInv /\ GraphIsThePlan

\* An empty plan, and tasks without links.
LEMMA PlanInvInit == PlanInit => PlanInv
<1> SUFFICES ASSUME PlanInit PROVE PlanInv
  OBVIOUS
<1>1. NumTasks \in Nat /\ <<>> \in Seq(Tasks) /\ <<>> \in Seq(Stmts) /\ Len(<<>>) = 0
  BY TaskAssumption
<1>2. PlanShape /\ Id = 0
  BY <1>1 DEF PlanInit, PlanShape, Id
<1>3. LinksRight
  <2>1. \A n \in Tasks : m_parents[n] = <<>> /\ m_children[n] = <<>>
    BY DEF PlanInit
  <2>2. ToSet(<<>>) = {} /\ IsInjective(<<>>)
    BY DEF ToSet, IsInjective
  <2>3. \A n, k \in Tasks : ~DependsOn(n, k)
    <3>1. \A n \in Tasks : ~(n < 0)
      BY DEF Tasks
    <3>2. QED
      BY <1>2, <3>1 DEF DependsOn
  <2>4. QED
    BY <2>1, <2>2, <2>3 DEF LinksRight
<1>4. RunInv
  <2>1. \A t \in Tasks : mem[t][NumParentsWord] = 0 /\ mem[t][NumChildrenWord] = 0
    BY WordsApart DEF PlanInit, Zeroed
  <2>2. 0..(0 - 1) = {} /\ 0 <= MaxLinks
    BY TaskAssumption
  <2>3. \A t \in Tasks : NumParents(t) = 0 /\ NumChildren(t) = 0 /\ Parents(t) = {}
    BY <2>1, <2>2 DEF NumParents, NumChildren, Parents
  <2>4. mem \in [Tasks -> [Words -> Nat]]
    BY DEF PlanInit, Zeroed
  <2>5. TaskInit
    BY <2>2, <2>3, <2>4 DEF PlanInit, TaskInit
  <2>6. QED
    BY <2>5, RunInvInit
<1>5. GraphIsThePlan
  BY DEF PlanInit, GraphIsThePlan, NoFrameYet
<1>6. QED
  BY <1>2, <1>3, <1>4, <1>5 DEF PlanInv

\* furious_init builds the graph of the plan, and the first frame finds it as fcc meant it.
LEMMA GenerateStep ==
  ASSUME PlanInv, LinksFit, Generate
  PROVE  RunInv' /\ GraphIsThePlan'
<1>1. /\ phase = "generate" /\ phase' = "program" /\ mem' = Built
      /\ m_parents' = m_parents /\ runpc' = runpc /\ local' = local
  BY DEF Generate
<1>2. NoFrameYet /\ PlanShape /\ LinksRight
  BY <1>1 DEF PlanInv, GraphIsThePlan
<1>3. /\ mem' \in [Tasks -> [Words -> Nat]]
      /\ \A t \in Tasks :
           /\ mem'[t][NumParentsWord] = Len(m_parents[t])
           /\ \A k \in 0..(Len(m_parents[t]) - 1) : mem'[t][ParentWord(k)] = m_parents[t][k + 1]
           /\ mem'[t][NumChildrenWord] \in 0..MaxLinks
           /\ \A k \in 0..(mem'[t][NumChildrenWord] - 1) : mem'[t][ChildWord(k)] \in Tasks
  BY <1>1, <1>2, BuiltIsThePlan DEF Memories
<1>4. ASSUME NEW t \in Tasks
      PROVE  Parents(t)' = ToSet(m_parents[t]) /\ Parents(t)' \subseteq Tasks
  <2> DEFINE last == Len(m_parents[t])
  <2>1. m_parents[t] \in Seq(Tasks) /\ last \in Nat
    BY <1>2 DEF PlanShape
  <2>2. Parents(t)' = {mem'[t][ParentWord(k)] : k \in 0..(last - 1)}
    BY <1>3 DEF Parents, NumParents
  <2>3. Parents(t)' = {m_parents[t][k + 1] : k \in 0..(last - 1)}
    <3>1. \A k \in 0..(last - 1) : mem'[t][ParentWord(k)] = m_parents[t][k + 1]
      BY <1>3
    <3> HIDE DEF last
    <3>2. QED
      BY <2>2, <3>1
  <2>4. ToSet(m_parents[t]) = {m_parents[t][i] : i \in 1..last}
    BY <2>1 DEF ToSet
  <2>5. \A k \in 0..(last - 1) : k + 1 \in 1..last
    BY <2>1
  <2>6. \A i \in 1..last : i - 1 \in 0..(last - 1) /\ (i - 1) + 1 = i
    BY <2>1
  <2>7. {m_parents[t][k + 1] : k \in 0..(last - 1)} = {m_parents[t][i] : i \in 1..last}
    <3> DEFINE A == {m_parents[t][k + 1] : k \in 0..(last - 1)}
               B == {m_parents[t][i] : i \in 1..last}
    <3>1. A \subseteq B
      BY <2>5
    <3>2. ASSUME NEW x \in B PROVE x \in A
      <4>1. PICK i \in 1..last : x = m_parents[t][i]
        OBVIOUS
      <4>2. x = m_parents[t][(i - 1) + 1] /\ i - 1 \in 0..(last - 1)
        BY <2>6, <4>1
      <4>3. QED
        BY <4>2
    <3>3. QED
      BY <3>1, <3>2
  <2>8. \A i \in 1..last : m_parents[t][i] \in Tasks
    BY <2>1
  <2>9. QED
    BY <2>3, <2>4, <2>7, <2>8
<1>5. /\ \A t \in Tasks : NumChildren(t)' <= MaxLinks
      /\ \A t \in Tasks : \A k \in 0..(NumChildren(t)' - 1) : Child(t, k)' \in Tasks
  BY <1>3 DEF NumChildren, Child
<1>6. NoFrameYet'
  BY <1>1, <1>2 DEF NoFrameYet, local
<1>7. TaskInit'
  BY <1>3, <1>4, <1>5, <1>6 DEF TaskInit, NoFrameYet
<1>8. RunInv'
  <2>1. (TaskInit => RunInv)'
    BY RunInvInit, PTL
  <2>2. QED
    BY <1>7, <2>1
<1>9. GraphIsThePlan'
  BY <1>1, <1>4 DEF GraphIsThePlan
<1>10. QED
  BY <1>8, <1>9

\* A frame runs the graph and does not change it.
LEMMA FrameStep ==
  ASSUME PlanInv, Frame
  PROVE  RunInv' /\ GraphIsThePlan'
<1>1. /\ phase = "program" /\ phase' = phase /\ m_parents' = m_parents
      /\ BeginRun \/ RunStep
  BY DEF Frame, planvars
<1>2. mem' = mem
  BY <1>1 DEF BeginRun, RunStep, PickTask, EndPass, RunTask, QueueChild, NextTask, NextFrontier
<1>3. RunInv'
  BY <1>1, RunInvNext DEF PlanInv, TaskNext
<1>4. \A t : Parents(t)' = Parents(t)
  BY <1>2, GraphStays DEF PlanInv, RunInv
<1>5. QED
  BY <1>1, <1>3, <1>4 DEF GraphIsThePlan, PlanInv

\* Every step of the compiler and of the program keeps the invariant.
LEMMA PlanInvNext ==
  ASSUME PlanInv, LinksFit, [PlanNext]_vars
  PROVE  PlanInv'
<1>1. ASSUME UNCHANGED taskvars PROVE RunInv'
  BY <1>1, RunInvNext DEF PlanInv
<1>2. ASSUME UNCHANGED taskvars, NoFrameYet PROVE NoFrameYet'
  BY <1>2 DEF taskvars, local, NoFrameYet
<1>3. ASSUME NEW s \in Stmts, Insert(s) PROVE PlanInv'
  <2>1. PlanShape' /\ LinksRight'
    BY <1>3, InsertStep DEF PlanInv
  <2>2. UNCHANGED taskvars /\ phase = "insert" /\ phase' = "insert"
    BY <1>3 DEF Insert
  <2>3. QED
    BY <1>1, <1>2, <2>1, <2>2 DEF PlanInv, GraphIsThePlan
<1>4. ASSUME CheckPlan PROVE PlanInv'
  <2>1. /\ UNCHANGED <<stmts, m_parents, m_children>> /\ UNCHANGED taskvars
        /\ phase = "insert" /\ phase' \in {"generate", "refused"} /\ Id = NumTasks
    BY <1>4 DEF CheckPlan, taskvars
  <2>2. PlanShape' /\ LinksRight'
    BY <2>1 DEF PlanInv, PlanShape, LinksRight, DependsOn, Id, Stmt
  <2>3. QED
    BY <1>1, <1>2, <2>1, <2>2 DEF PlanInv, GraphIsThePlan
<1>5. ASSUME Generate PROVE PlanInv'
  <2>1. /\ UNCHANGED <<stmts, m_parents, m_children>>
        /\ phase = "generate" /\ phase' = "program"
    BY <1>5 DEF Generate
  <2>2. PlanShape' /\ LinksRight'
    BY <2>1 DEF PlanInv, PlanShape, LinksRight, DependsOn, Id, Stmt
  <2>3. QED
    BY <1>5, <2>2, GenerateStep DEF PlanInv
<1>6. ASSUME Frame PROVE PlanInv'
  <2>1. UNCHANGED <<stmts, m_parents, m_children, phase>>
    BY <1>6 DEF Frame, planvars
  <2>2. PlanShape' /\ LinksRight'
    BY <2>1 DEF PlanInv, PlanShape, LinksRight, DependsOn, Id, Stmt
  <2>3. QED
    BY <1>6, <2>2, FrameStep DEF PlanInv
<1>7. ASSUME UNCHANGED vars PROVE PlanInv'
  <2>1. UNCHANGED <<stmts, m_parents, m_children, phase>> /\ UNCHANGED taskvars
    BY <1>7 DEF vars, planvars
  <2>2. PlanShape' /\ LinksRight'
    BY <2>1 DEF PlanInv, PlanShape, LinksRight, DependsOn, Id, Stmt
  <2>3. \A t : Parents(t)' = Parents(t)
    BY <2>1 DEF taskvars, Parents, NumParents
  <2>4. QED
    BY <1>1, <1>2, <2>1, <2>2, <2>3 DEF PlanInv, GraphIsThePlan
<1>8. QED
  BY <1>3, <1>4, <1>5, <1>6, <1>7 DEF PlanNext

\* The inductive invariant from the first statement of a script to the frames of its program.
THEOREM PlanInvariant == PlanSpec /\ []LinksFit => []PlanInv
<1>1. PlanInv /\ LinksFit /\ [PlanNext]_vars => PlanInv'
  BY PlanInvNext
<1>2. QED
  BY PlanInvInit, <1>1, PTL DEF PlanSpec

\* The lists and the phase of the compiler, and the run of the program, keep their types.
THEOREM PlanTypeCorrect == PlanSpec /\ []LinksFit => []PlanTypeOK
<1>1. PlanInv => PlanTypeOK
  BY DEF PlanInv, PlanShape, RunInv, PlanTypeOK
<1>2. QED
  BY PlanInvariant, <1>1, PTL

\* Priorities are numbers.
LEMMA PrioritiesAreNumbers ==
  ASSUME NEW s \in Stmts
  PROVE  Priority(s) \in Nat
<1>1. s.hint = <<>> \/ s.hint \in [1..1 -> Nat]
  BY PlanAssumption
<1>2. s.hint # <<>> => s.hint[1] \in Nat
  BY <1>1
<1>3. QED
  BY <1>2 DEF Priority

\* Two systems that meet on a component, one of them writing it: were they called the other
\* way round, one would have run before a parent of its own.
LEMMA ConflictsFollow == PlanInv => ConflictsOrdered
<1> SUFFICES ASSUME PlanInv, NEW k \in DOMAIN executed, NEW l \in DOMAIN executed, k < l
             PROVE  LET early == executed[k]
                        late == executed[l]
                    IN /\ Writes(late) \cap Reads(early) = {}
                       /\ Writes(late) \cap Writes(early) # {} =>
                            Priority(Stmt(early)) < Priority(Stmt(late))
  BY DEF ConflictsOrdered
<1> DEFINE early == executed[k]
           late == executed[l]
<1>1. executed \in Seq(Tasks) /\ early \in Tasks /\ late \in Tasks /\ k \in Nat /\ l \in Nat
  BY DEF PlanInv, RunInv, TaskTypeOK
<1>2. phase = "program" /\ Id = NumTasks /\ stmts \in Seq(Stmts)
  <2>1. phase = "program"
    BY DEF PlanInv, GraphIsThePlan, NoFrameYet
  <2>2. QED
    BY <2>1 DEF PlanInv, PlanShape
<1>3. early # late
  BY <1>1 DEF PlanInv, RunInv, Marked
<1>4. late \notin Parents(early)
  <2> SUFFICES ASSUME late \in Parents(early) PROVE FALSE
    OBVIOUS
  <2>1. PICK m \in DOMAIN executed : m < k /\ executed[m] = late
    BY DEF PlanInv, RunInv, Ordered
  <2>2. m = l
    BY <2>1 DEF PlanInv, RunInv, Marked
  <2>3. QED
    BY <1>1, <2>1, <2>2
<1>5. Stmt(early) \in Stmts /\ Stmt(late) \in Stmts /\ early < Id /\ late < Id
  <2>1. \A n \in Tasks : n + 1 \in 1..NumTasks /\ n < NumTasks
    BY TaskAssumption DEF Tasks
  <2>2. Len(stmts) = NumTasks /\ stmts \in Seq(Stmts)
    BY <1>2 DEF Id
  <2>3. \A i \in 1..NumTasks : stmts[i] \in Stmts
    BY <2>2, ElementOfSeq
  <2>4. Stmt(early) \in Stmts /\ Stmt(late) \in Stmts
    BY <1>1, <2>1, <2>3 DEF Stmt
  <2>5. QED
    BY <1>1, <1>2, <2>1, <2>4
<1>6. ~IsDependent(Stmt(early), Stmt(late))
  <2>1. ~DependsOn(early, late)
    BY <1>1, <1>2, <1>4 DEF PlanInv, GraphIsThePlan, LinksRight
  <2>2. QED
    BY <1>3, <1>5, <2>1 DEF DependsOn
<1>7. Priority(Stmt(early)) \in Nat /\ Priority(Stmt(late)) \in Nat
  BY <1>5, PrioritiesAreNumbers
<1>8. \A ca \in Stmt(early).access, cb \in Stmt(late).access :
        ca.type = cb.type /\ ~cb.ro => ~ca.ro /\ ~(Priority(Stmt(early)) >= Priority(Stmt(late)))
  BY <1>6 DEF IsDependent
<1> HIDE DEF early, late
<1>9. Writes(late) \cap Reads(early) = {}
  BY <1>8 DEF Writes, Reads
<1>10. ASSUME Writes(late) \cap Writes(early) # {}
       PROVE  Priority(Stmt(early)) < Priority(Stmt(late))
  <2>1. ~(Priority(Stmt(early)) >= Priority(Stmt(late)))
    BY <1>8, <1>10 DEF Writes
  <2>2. QED
    BY <1>7, <2>1
<1>11. QED
  BY <1>9, <1>10 DEF early, late

\* Whatever the script, systems that conflict are called in the order a user may rely on: the
\* compiler's edges, the generated graph and the run of its frames together.
THEOREM ConflictsStayOrdered == PlanSpec /\ []LinksFit => []ConflictsOrdered
  BY PlanInvariant, ConflictsFollow, PTL

---------------------------------------------------------------------------
(* The depth-first search.                                                 *)

Lists == Seq(Tasks)
Unvisited(a) == Cardinality(Tasks \ a.visited)

\* What entering and leaving a node change.
LEMMA EnterAndLeave ==
  ASSUME NEW a \in Visits, NEW n \in Tasks
  PROVE  /\ Enter(a, n) \in Visits /\ Enter(a, n).visited = a.visited \cup {n}
         /\ Enter(a, n).departure = a.departure /\ Enter(a, n).time = a.time
         /\ Leave(a, n) \in Visits /\ Leave(a, n).visited = a.visited
         /\ Leave(a, n).departure[n] = a.time /\ Leave(a, n).time = a.time + 1
         /\ \A t \in Tasks : t # n => Leave(a, n).departure[t] = a.departure[t]
<1>1. a.visited \in SUBSET Tasks /\ a.departure \in [Tasks -> Nat] /\ a.time \in Nat
  BY DEF Visits
<1>2. Enter(a, n) = [visited |-> a.visited \cup {n}, departure |-> a.departure, time |-> a.time]
  BY DEF Enter, Visits
<1>3. Leave(a, n) = [visited |-> a.visited, departure |-> [a.departure EXCEPT ![n] = a.time],
                     time |-> a.time + 1]
  BY DEF Leave
<1>4. [a.departure EXCEPT ![n] = a.time] \in [Tasks -> Nat]
  BY <1>1
<1>5. Enter(a, n) \in Visits /\ Leave(a, n) \in Visits
  BY <1>1, <1>2, <1>3, <1>4 DEF Visits
<1>6. QED
  BY <1>1, <1>2, <1>3, <1>5

\* What is left to visit is finite, and less once a node is entered.
LEMMA EnteringLeavesLess ==
  ASSUME NEW a \in Visits
  PROVE  /\ Unvisited(a) \in 0..NumTasks
         /\ \A n \in Tasks, b \in Visits :
              n \notin a.visited /\ a.visited \cup {n} \subseteq b.visited => Unvisited(b) < Unvisited(a)
<1>1. IsFiniteSet(Tasks) /\ Cardinality(Tasks) = NumTasks /\ NumTasks \in Nat
  <2>1. NumTasks \in Nat /\ IsFiniteSet(0..(NumTasks - 1))
        /\ Cardinality(0..(NumTasks - 1)) = IF 0 > NumTasks - 1 THEN 0 ELSE (NumTasks - 1) - 0 + 1
    BY TaskAssumption, FS_Interval
  <2>2. QED
    BY <2>1 DEF Tasks
<1>2. IsFiniteSet(Tasks \ a.visited) /\ Unvisited(a) \in Nat /\ Unvisited(a) <= NumTasks
  BY <1>1, FS_Subset, FS_CardinalityType DEF Unvisited
<1>3. ASSUME NEW n \in Tasks, NEW b \in Visits, n \notin a.visited, a.visited \cup {n} \subseteq b.visited
      PROVE  Unvisited(b) < Unvisited(a)
  <2>1. Tasks \ b.visited \in SUBSET (Tasks \ a.visited) /\ Tasks \ b.visited # Tasks \ a.visited
    BY <1>3
  <2>2. /\ IsFiniteSet(Tasks \ b.visited) /\ Unvisited(b) \in Nat
        /\ Unvisited(b) <= Unvisited(a) /\ Unvisited(b) # Unvisited(a)
    BY <1>2, <2>1, FS_Subset, FS_CardinalityType DEF Unvisited
  <2>3. QED
    BY <1>2, <2>2
<1>4. QED
  BY <1>1, <1>2, <1>3

\* A list that is not empty, its first node and the rest.
LEMMA HeadAndTail ==
  ASSUME NEW nodes \in Lists, nodes # <<>>
  PROVE  /\ Head(nodes) \in Tasks /\ Tail(nodes) \in Lists
         /\ Len(nodes) \in Nat \ {0} /\ Len(Tail(nodes)) = Len(nodes) - 1
         /\ ToSet(nodes) = {Head(nodes)} \cup ToSet(Tail(nodes))
<1>1. /\ Len(nodes) \in Nat \ {0} /\ DOMAIN nodes = 1..Len(nodes) /\ Head(nodes) = nodes[1]
      /\ Head(nodes) \in Tasks /\ Tail(nodes) \in Lists /\ Len(Tail(nodes)) = Len(nodes) - 1
      /\ DOMAIN Tail(nodes) = 1..(Len(nodes) - 1)
      /\ \A i \in 1..(Len(nodes) - 1) : Tail(nodes)[i] = nodes[i + 1]
  BY DEF Lists
<1>2. ASSUME NEW x \in ToSet(nodes) PROVE x \in {Head(nodes)} \cup ToSet(Tail(nodes))
  <2>1. PICK i \in 1..Len(nodes) : x = nodes[i]
    BY <1>1 DEF ToSet
  <2>2. CASE i = 1
    BY <1>1, <2>1, <2>2
  <2>3. CASE i # 1
    <3>1. i - 1 \in 1..(Len(nodes) - 1) /\ Tail(nodes)[i - 1] = x
      BY <1>1, <2>1, <2>3
    <3>2. QED
      BY <1>1, <3>1 DEF ToSet
  <2>4. QED
    BY <2>2, <2>3
<1>3. ASSUME NEW x \in {Head(nodes)} \cup ToSet(Tail(nodes)) PROVE x \in ToSet(nodes)
  <2>1. 1 \in 1..Len(nodes) /\ \A i \in 1..(Len(nodes) - 1) : i + 1 \in 1..Len(nodes)
    BY <1>1
  <2>2. QED
    BY <1>1, <2>1 DEF ToSet
<1>4. QED
  BY <1>1, <1>2, <1>3

\* P holds of a search when it holds of those it makes: of the rest of the list, of the
\* children of a node that is entered, and of the rest after whatever was visited below it.
Inherits(P) ==
  \A a \in Visits, nodes \in Lists :
    (nodes # <<>> =>
       LET n == Head(nodes) IN
       /\ n \in a.visited => <<a, Tail(nodes)>> \in P
       /\ n \notin a.visited =>
            /\ <<Enter(a, n), m_children[n]>> \in P
            /\ \A b \in Visits : Enter(a, n).visited \subseteq b.visited => <<Leave(b, n), Tail(nodes)>> \in P)
    => <<a, nodes>> \in P

\* Then it holds of all: nodes are entered once, and lists get shorter in between.
LEMMA DfsInduction ==
  ASSUME m_children \in [Tasks -> Lists], NEW P, Inherits(P)
  PROVE  \A a \in Visits, nodes \in Lists : <<a, nodes>> \in P
<1> DEFINE G == {u \in 0..(NumTasks + 1) : \A a \in Visits, nodes \in Lists : Unvisited(a) < u => <<a, nodes>> \in P}
<1>1. NumTasks \in Nat
  BY TaskAssumption
<1>2. 0 \in G
  <2>1. \A a \in Visits : ~(Unvisited(a) < 0)
    BY EnteringLeavesLess, <1>1
  <2>2. QED
    BY <1>1, <2>1
<1>3. ASSUME NEW u \in 0..((NumTasks + 1) - 1), u \in G PROVE u + 1 \in G
  <2>1. ASSUME NEW last \in Nat
        PROVE  \A a \in Visits, nodes \in Lists : Unvisited(a) < u + 1 /\ Len(nodes) <= last => <<a, nodes>> \in P
    <3> DEFINE H == {l \in 0..last : \A a \in Visits, nodes \in Lists :
                                       Unvisited(a) < u + 1 /\ Len(nodes) <= l => <<a, nodes>> \in P}
    <3>1. ASSUME NEW l \in 0..last, l # 0 => l - 1 \in H PROVE l \in H
      <4> SUFFICES ASSUME NEW a \in Visits, NEW nodes \in Lists, Unvisited(a) < u + 1, Len(nodes) <= l
                   PROVE  <<a, nodes>> \in P
        OBVIOUS
      <4> DEFINE n == Head(nodes)
      <4>1. ASSUME nodes # <<>>
            PROVE  n \in a.visited => <<a, Tail(nodes)>> \in P
        <5>1. /\ n \in Tasks /\ Tail(nodes) \in Lists /\ Len(nodes) \in Nat \ {0}
              /\ Len(Tail(nodes)) = Len(nodes) - 1
          BY <4>1, HeadAndTail
        <5>2. l # 0 /\ Len(Tail(nodes)) <= l - 1
          BY <5>1
        <5>3. l - 1 \in H
          BY <3>1, <5>2
        <5>4. QED
          BY <5>1, <5>2, <5>3
      <4>2. ASSUME nodes # <<>>, n \notin a.visited
            PROVE  /\ <<Enter(a, n), m_children[n]>> \in P
                   /\ \A b \in Visits :
                        Enter(a, n).visited \subseteq b.visited => <<Leave(b, n), Tail(nodes)>> \in P
        <5>1. n \in Tasks /\ Tail(nodes) \in Lists /\ m_children[n] \in Lists
          BY <4>2, HeadAndTail
        <5>2. ASSUME NEW b \in Visits, Enter(a, n).visited \subseteq b.visited PROVE Unvisited(b) < u
          <6>1. a.visited \cup {n} \subseteq b.visited
            BY <5>1, <5>2, EnterAndLeave
          <6>2. Unvisited(b) < Unvisited(a) /\ Unvisited(a) \in Nat /\ Unvisited(b) \in Nat
            BY <1>1, <4>2, <5>1, <6>1, EnteringLeavesLess
          <6>3. QED
            BY <1>1, <6>2
        <5>3. <<Enter(a, n), m_children[n]>> \in P
          BY <1>3, <5>1, <5>2, EnterAndLeave
        <5>4. ASSUME NEW b \in Visits, Enter(a, n).visited \subseteq b.visited
              PROVE  <<Leave(b, n), Tail(nodes)>> \in P
          <6>1. Leave(b, n) \in Visits /\ Leave(b, n).visited = b.visited
            BY <5>1, EnterAndLeave
          <6>2. QED
            BY <1>3, <5>1, <5>2, <5>4, <6>1
        <5>5. QED
          BY <5>3, <5>4
      <4>3. QED
        BY <4>1, <4>2 DEF Inherits
    <3>2. 0 \in H
      BY <3>1
    <3>3. \A l \in 0..(last - 1) : l \in H => l + 1 \in H
      <4> HIDE DEF H
      <4>1. \A l \in 0..(last - 1) : l + 1 \in 0..last /\ (l + 1) - 1 = l
        OBVIOUS
      <4>2. QED
        BY <3>1, <4>1
    <3>4. 0..last \subseteq H
      <4> HIDE DEF H
      <4>1. QED
        BY <3>2, <3>3, CountingUp
    <3>5. QED
      BY <3>4
  <2>2. \A nodes \in Lists : Len(nodes) \in Nat /\ Len(nodes) <= Len(nodes)
    BY DEF Lists
  <2>3. \A a \in Visits, nodes \in Lists : Unvisited(a) < u + 1 => <<a, nodes>> \in P
    BY <2>1, <2>2
  <2>4. QED
    BY <1>1, <2>3
<1>4. 0..(NumTasks + 1) \subseteq G
  <2> HIDE DEF G
  <2>1. NumTasks + 1 \in Nat
    BY <1>1
  <2>2. QED
    BY <1>2, <1>3, <2>1, CountingUp
<1>5. \A a \in Visits : Unvisited(a) < NumTasks + 1
  BY <1>1, EnteringLeavesLess
<1>6. NumTasks + 1 \in G
  <2> HIDE DEF G
  <2>1. QED
    BY <1>1, <1>4
<1>7. QED
  BY <1>5, <1>6

\* b is what the search of nodes from a leaves when Q says what the searches it makes leave.
Derives(Q, a, nodes, b) ==
  \/ nodes = <<>> /\ b = a
  \/ nodes # <<>> /\ Head(nodes) \in a.visited /\ <<a, Tail(nodes), b>> \in Q
  \/ /\ nodes # <<>> /\ Head(nodes) \notin a.visited
     /\ \E m \in Visits : /\ <<Enter(a, Head(nodes)), m_children[Head(nodes)], m>> \in Q
                          /\ <<Leave(m, Head(nodes)), Tail(nodes), b>> \in Q

\* The least such Q: every search that ends, with its outcome.
Outcomes == Visits \X Lists \X Visits
ClosedUnder(Q) == \A a \in Visits, nodes \in Lists, b \in Visits :
                    Derives(Q, a, nodes, b) => <<a, nodes, b>> \in Q
Ends == {x \in Outcomes : \A Q \in SUBSET Outcomes : ClosedUnder(Q) => x \in Q}

\* A larger Q derives no less.
LEMMA DerivesMore ==
  ASSUME NEW Q, NEW R, Q \subseteq R, NEW a, NEW nodes, NEW b, Derives(Q, a, nodes, b)
  PROVE  Derives(R, a, nodes, b)
  BY DEF Derives

\* A search ends with b exactly when the searches it makes end so.
LEMMA EndsIsDerived ==
  ASSUME NEW a \in Visits, NEW nodes \in Lists, NEW b \in Visits
  PROVE  <<a, nodes, b>> \in Ends <=> Derives(Ends, a, nodes, b)
<1> DEFINE once == {x \in Outcomes : Derives(Ends, x[1], x[2], x[3])}
<1>1. ASSUME NEW c \in Visits, NEW list \in Lists, NEW d \in Visits, Derives(Ends, c, list, d)
      PROVE  <<c, list, d>> \in Ends
  <2>1. ASSUME NEW Q \in SUBSET Outcomes, ClosedUnder(Q) PROVE <<c, list, d>> \in Q
    <3>1. Ends \subseteq Q
      BY <2>1 DEF Ends
    <3>2. Derives(Q, c, list, d)
      BY <1>1, <3>1, DerivesMore
    <3>3. QED
      BY <2>1, <3>2 DEF ClosedUnder
  <2>2. <<c, list, d>> \in Outcomes
    BY DEF Outcomes
  <2>3. QED
    BY <2>1, <2>2 DEF Ends
<1>2. once \subseteq Ends
  <2> SUFFICES ASSUME NEW x \in once PROVE x \in Ends
    OBVIOUS
  <2>1. x[1] \in Visits /\ x[2] \in Lists /\ x[3] \in Visits /\ x = <<x[1], x[2], x[3]>>
    BY DEF Outcomes
  <2>2. Derives(Ends, x[1], x[2], x[3])
    OBVIOUS
  <2> HIDE DEF once
  <2>3. <<x[1], x[2], x[3]>> \in Ends
    BY <1>1, <2>1, <2>2
  <2>4. QED
    BY <2>1, <2>3
<1>3. ClosedUnder(once)
  <2> SUFFICES ASSUME NEW c \in Visits, NEW list \in Lists, NEW d \in Visits, Derives(once, c, list, d)
               PROVE  <<c, list, d>> \in once
    BY DEF ClosedUnder
  <2>1. Derives(Ends, c, list, d)
    <3> HIDE DEF once
    <3>1. QED
      BY <1>2, DerivesMore
  <2>2. <<c, list, d>> \in Outcomes
    BY DEF Outcomes
  <2>3. QED
    BY <2>1, <2>2
<1>4. Ends \subseteq once
  <2>1. once \in SUBSET Outcomes
    OBVIOUS
  <2> HIDE DEF once
  <2>2. QED
    BY <1>3, <2>1 DEF Ends
<1>5. ASSUME <<a, nodes, b>> \in Ends PROVE Derives(Ends, a, nodes, b)
  BY <1>4, <1>5
<1>6. QED
  BY <1>1, <1>5

\* A search of nodes from a ends, in one way, and forgets no node.
OneEnd(a, nodes) ==
  \E b \in Visits : a.visited \subseteq b.visited /\ \A c \in Visits : <<a, nodes, c>> \in Ends <=> c = b

\* Every search does.
LEMMA SearchesEnd ==
  ASSUME m_children \in [Tasks -> Lists]
  PROVE  \A a \in Visits, nodes \in Lists : OneEnd(a, nodes)
<1> DEFINE P == {x \in Searches : OneEnd(x[1], x[2])}
<1>1. ASSUME NEW a \in Visits, NEW nodes \in Lists
      PROVE  <<a, nodes>> \in P <=> OneEnd(a, nodes)
  BY DEF Searches, Lists
<1> HIDE DEF P
<1>2. Inherits(P)
  <2> SUFFICES ASSUME NEW a \in Visits, NEW nodes \in Lists,
                      nodes # <<>> /\ Head(nodes) \in a.visited => <<a, Tail(nodes)>> \in P,
                      nodes # <<>> /\ Head(nodes) \notin a.visited =>
                        /\ <<Enter(a, Head(nodes)), m_children[Head(nodes)]>> \in P
                        /\ \A b \in Visits : Enter(a, Head(nodes)).visited \subseteq b.visited =>
                                               <<Leave(b, Head(nodes)), Tail(nodes)>> \in P
               PROVE  OneEnd(a, nodes)
    BY <1>1 DEF Inherits
  <2>1. CASE nodes = <<>>
    <3>1. \A c \in Visits : <<a, nodes, c>> \in Ends <=> c = a
      BY <2>1, EndsIsDerived DEF Derives
    <3>2. QED
      BY <3>1 DEF OneEnd
  <2>2. CASE nodes # <<>> /\ Head(nodes) \in a.visited
    <3>1. Tail(nodes) \in Lists
      BY <2>2, HeadAndTail
    <3>2. \A c \in Visits : <<a, nodes, c>> \in Ends <=> <<a, Tail(nodes), c>> \in Ends
      BY <2>2, EndsIsDerived DEF Derives
    <3>3. OneEnd(a, Tail(nodes))
      BY <1>1, <2>2, <3>1
    <3>4. QED
      BY <3>2, <3>3 DEF OneEnd
  <2>3. CASE nodes # <<>> /\ Head(nodes) \notin a.visited
    <3> DEFINE n == Head(nodes)
    <3>1. n \in Tasks /\ Tail(nodes) \in Lists /\ m_children[n] \in Lists
      BY <2>3, HeadAndTail
    <3>2. Enter(a, n) \in Visits /\ Enter(a, n).visited = a.visited \cup {n}
      BY <3>1, EnterAndLeave
    <3>3. OneEnd(Enter(a, n), m_children[n])
      BY <1>1, <2>3, <3>1, <3>2
    <3>4. PICK m \in Visits : /\ a.visited \subseteq m.visited /\ Enter(a, n).visited \subseteq m.visited
                              /\ \A c \in Visits : <<Enter(a, n), m_children[n], c>> \in Ends <=> c = m
      BY <3>2, <3>3 DEF OneEnd
    <3>5. Leave(m, n) \in Visits /\ Leave(m, n).visited = m.visited
      BY <3>1, EnterAndLeave
    <3>6. OneEnd(Leave(m, n), Tail(nodes))
      BY <1>1, <2>3, <3>1, <3>4, <3>5
    <3>7. ASSUME NEW c \in Visits
          PROVE  <<a, nodes, c>> \in Ends <=> <<Leave(m, n), Tail(nodes), c>> \in Ends
      <4>1. <<a, nodes, c>> \in Ends <=> Derives(Ends, a, nodes, c)
        BY EndsIsDerived
      <4>2. Derives(Ends, a, nodes, c) <=>
              \E d \in Visits : <<Enter(a, n), m_children[n], d>> \in Ends /\ <<Leave(d, n), Tail(nodes), c>> \in Ends
        BY <2>3 DEF Derives
      <4>3. \A d \in Visits : <<Enter(a, n), m_children[n], d>> \in Ends <=> d = m
        BY <3>4
      <4> HIDE DEF n
      <4>4. QED
        BY <4>1, <4>2, <4>3
    <3>8. QED
      BY <3>4, <3>5, <3>6, <3>7 DEF OneEnd
  <2>4. QED
    BY <2>1, <2>2, <2>3
<1>3. QED
  BY <1>1, <1>2, DfsInduction

\* The equation of dfs, of a candidate.
Unfolds(f) ==
  f = [x \in Searches |->
         LET a == x[1]
             n == Head(x[2])
         IN IF x[2] = <<>> THEN a
            ELSE f[<<IF n \in a.visited THEN a ELSE Leave(f[<<Enter(a, n), m_children[n]>>], n),
                     Tail(x[2])>>]]

\* One step of dfs on nodes from a.
DfsStep(a, nodes) ==
  LET n == Head(nodes)
      below == Dfs[<<Enter(a, n), m_children[n]>>]
      dfs == Dfs[<<a, nodes>>]
  IN /\ dfs \in Visits /\ a.visited \subseteq dfs.visited
     /\ nodes = <<>> => dfs = a
     /\ nodes # <<>> /\ n \in a.visited => dfs = Dfs[<<a, Tail(nodes)>>]
     /\ nodes # <<>> /\ n \notin a.visited =>
          /\ below \in Visits /\ Enter(a, n).visited \subseteq below.visited
          /\ dfs = Dfs[<<Leave(below, n), Tail(nodes)>>]

\* dfs is the recursion it is written as.
LEMMA DfsUnfolds ==
  ASSUME m_children \in [Tasks -> Lists]
  PROVE  \A a \in Visits, nodes \in Lists : DfsStep(a, nodes)
<1> DEFINE h == [x \in Searches |-> CHOOSE b \in Visits : <<x[1], x[2], b>> \in Ends]
<1>1. ASSUME NEW a \in Visits, NEW nodes \in Lists
      PROVE  /\ h[<<a, nodes>>] \in Visits /\ a.visited \subseteq h[<<a, nodes>>].visited
             /\ \A c \in Visits : <<a, nodes, c>> \in Ends <=> c = h[<<a, nodes>>]
  <2>1. PICK b \in Visits : /\ a.visited \subseteq b.visited
                            /\ \A c \in Visits : <<a, nodes, c>> \in Ends <=> c = b
    BY SearchesEnd DEF OneEnd
  <2>2. <<a, nodes>> \in Searches
    BY DEF Searches, Lists
  <2>3. h[<<a, nodes>>] = CHOOSE c \in Visits : <<a, nodes, c>> \in Ends
    BY <2>2
  <2>4. (CHOOSE c \in Visits : <<a, nodes, c>> \in Ends) = b
    BY <2>1
  <2>5. QED
    BY <2>1, <2>3, <2>4
<1> HIDE DEF h
<1>2. ASSUME NEW a \in Visits, NEW nodes \in Lists
      PROVE  LET n == Head(nodes)
                 below == h[<<Enter(a, n), m_children[n]>>]
             IN /\ nodes = <<>> => h[<<a, nodes>>] = a
                /\ nodes # <<>> /\ n \in a.visited => h[<<a, nodes>>] = h[<<a, Tail(nodes)>>]
                /\ nodes # <<>> /\ n \notin a.visited =>
                     /\ below \in Visits /\ Enter(a, n).visited \subseteq below.visited
                     /\ h[<<a, nodes>>] = h[<<Leave(below, n), Tail(nodes)>>]
  <2>1. <<a, nodes, h[<<a, nodes>>]>> \in Ends /\ h[<<a, nodes>>] \in Visits
    BY <1>1
  <2>2. Derives(Ends, a, nodes, h[<<a, nodes>>])
    BY <2>1, EndsIsDerived
  <2>3. CASE nodes = <<>>
    BY <2>2, <2>3 DEF Derives
  <2>4. CASE nodes # <<>> /\ Head(nodes) \in a.visited
    <3>1. Tail(nodes) \in Lists
      BY <2>4, HeadAndTail
    <3>2. QED
      BY <1>1, <2>1, <2>2, <2>4, <3>1 DEF Derives
  <2>5. CASE nodes # <<>> /\ Head(nodes) \notin a.visited
    <3> DEFINE n == Head(nodes)
    <3>1. n \in Tasks /\ Tail(nodes) \in Lists /\ m_children[n] \in Lists
      BY <2>5, HeadAndTail
    <3>2. Enter(a, n) \in Visits
      BY <3>1, EnterAndLeave
    <3>3. PICK m \in Visits : /\ <<Enter(a, n), m_children[n], m>> \in Ends
                              /\ <<Leave(m, n), Tail(nodes), h[<<a, nodes>>]>> \in Ends
      BY <2>2, <2>5 DEF Derives
    <3>4. m = h[<<Enter(a, n), m_children[n]>>] /\ Enter(a, n).visited \subseteq m.visited
      BY <1>1, <3>1, <3>2, <3>3
    <3>5. Leave(m, n) \in Visits
      BY <3>1, EnterAndLeave
    <3>6. h[<<a, nodes>>] = h[<<Leave(m, n), Tail(nodes)>>]
      BY <1>1, <2>1, <3>1, <3>3, <3>5, Zenon
    <3>7. QED
      BY <2>5, <3>4, <3>6
  <2>6. QED
    BY <2>3, <2>4, <2>5
<1>3. Unfolds(h)
  <2> DEFINE rhs(x) == LET a == x[1]
                           n == Head(x[2])
                       IN IF x[2] = <<>> THEN a
                          ELSE h[<<IF n \in a.visited THEN a ELSE Leave(h[<<Enter(a, n), m_children[n]>>], n),
                                   Tail(x[2])>>]
  <2>1. ASSUME NEW x \in Searches PROVE h[x] = rhs(x)
    <3>1. PICK a \in Visits, nodes \in Lists : x = <<a, nodes>>
      BY DEF Searches, Lists
    <3>2. x[1] = a /\ x[2] = nodes
      BY <3>1
    <3>3. h[<<a, nodes>>] = rhs(<<a, nodes>>)
      <4>1. rhs(<<a, nodes>>) =
              LET n == Head(nodes)
              IN IF nodes = <<>> THEN a
                 ELSE h[<<IF n \in a.visited THEN a ELSE Leave(h[<<Enter(a, n), m_children[n]>>], n),
                          Tail(nodes)>>]
        OBVIOUS
      <4> HIDE DEF rhs
      <4>2. CASE nodes = <<>>
        BY <1>2, <4>1, <4>2
      <4>3. CASE nodes # <<>> /\ Head(nodes) \in a.visited
        BY <1>2, <4>1, <4>3
      <4>4. CASE nodes # <<>> /\ Head(nodes) \notin a.visited
        BY <1>2, <4>1, <4>4
      <4>5. QED
        BY <4>2, <4>3, <4>4
    <3> HIDE DEF rhs
    <3>4. QED
      BY <3>1, <3>3
  <2>2. h = [x \in Searches |-> h[x]]
    <3>1. \A x \in Searches : h[x] \in Visits
      BY <1>1 DEF Searches, Lists
    <3>2. h \in [Searches -> Visits]
      BY <3>1 DEF h
    <3>3. QED
      BY <3>2
  <2>3. h = [x \in Searches |-> rhs(x)]
    <3> HIDE DEF rhs
    <3>1. QED
      BY <2>1, <2>2
  <2>4. QED
    BY <2>3, Zenon DEF Unfolds
<1>4. Dfs = CHOOSE f : Unfolds(f)
  BY Zenon DEF Dfs, Unfolds
<1>5. Unfolds(Dfs)
  BY <1>3, <1>4, Zenon
<1>6. ASSUME NEW a \in Visits, NEW nodes \in Lists
      PROVE  Dfs[<<a, nodes>>] =
               LET n == Head(nodes)
               IN IF nodes = <<>> THEN a
                  ELSE Dfs[<<IF n \in a.visited THEN a ELSE Leave(Dfs[<<Enter(a, n), m_children[n]>>], n),
                             Tail(nodes)>>]
  <2>1. <<a, nodes>> \in Searches /\ <<a, nodes>>[1] = a /\ <<a, nodes>>[2] = nodes
    BY DEF Searches, Lists
  <2>2. QED
    BY <1>5, <2>1, Zenon DEF Unfolds
<1> DEFINE P == {x \in Searches : Dfs[x] \in Visits /\ x[1].visited \subseteq Dfs[x].visited}
<1>7. ASSUME NEW a \in Visits, NEW nodes \in Lists
      PROVE  <<a, nodes>> \in P <=>
               Dfs[<<a, nodes>>] \in Visits /\ a.visited \subseteq Dfs[<<a, nodes>>].visited
  BY DEF Searches, Lists
<1> HIDE DEF P
<1>8. Inherits(P)
  <2> SUFFICES ASSUME NEW a \in Visits, NEW nodes \in Lists,
                      nodes # <<>> /\ Head(nodes) \in a.visited => <<a, Tail(nodes)>> \in P,
                      nodes # <<>> /\ Head(nodes) \notin a.visited =>
                        /\ <<Enter(a, Head(nodes)), m_children[Head(nodes)]>> \in P
                        /\ \A b \in Visits : Enter(a, Head(nodes)).visited \subseteq b.visited =>
                                               <<Leave(b, Head(nodes)), Tail(nodes)>> \in P
               PROVE  <<a, nodes>> \in P
    BY DEF Inherits
  <2>1. CASE nodes = <<>>
    <3>1. Dfs[<<a, nodes>>] = a
      BY <1>6, <2>1
    <3>2. QED
      BY <1>7, <3>1
  <2>2. CASE nodes # <<>> /\ Head(nodes) \in a.visited
    <3>1. Tail(nodes) \in Lists
      BY <2>2, HeadAndTail
    <3>2. Dfs[<<a, nodes>>] = Dfs[<<a, Tail(nodes)>>]
      BY <1>6, <2>2
    <3>3. QED
      BY <1>7, <2>2, <3>1, <3>2
  <2>3. CASE nodes # <<>> /\ Head(nodes) \notin a.visited
    <3> DEFINE n == Head(nodes)
               m == Dfs[<<Enter(a, n), m_children[n]>>]
    <3>1. n \in Tasks /\ Tail(nodes) \in Lists /\ m_children[n] \in Lists
      BY <2>3, HeadAndTail
    <3>2. Enter(a, n) \in Visits /\ Enter(a, n).visited = a.visited \cup {n}
      BY <3>1, EnterAndLeave
    <3>3. m \in Visits /\ Enter(a, n).visited \subseteq m.visited
      BY <1>7, <2>3, <3>1, <3>2
    <3>4. Dfs[<<a, nodes>>] = Dfs[<<Leave(m, n), Tail(nodes)>>]
      BY <1>6, <2>3
    <3> HIDE DEF m
    <3>5. Leave(m, n) \in Visits /\ Leave(m, n).visited = m.visited
      BY <3>1, <3>3, EnterAndLeave
    <3>6. <<Leave(m, n), Tail(nodes)>> \in P
      BY <2>3, <3>3
    <3>7. QED
      BY <1>7, <3>1, <3>2, <3>3, <3>4, <3>5, <3>6
  <2>4. QED
    BY <2>1, <2>2, <2>3
<1>9. \A a \in Visits, nodes \in Lists :
        Dfs[<<a, nodes>>] \in Visits /\ a.visited \subseteq Dfs[<<a, nodes>>].visited
  BY <1>7, <1>8, DfsInduction
<1>10. QED
  <2> SUFFICES ASSUME NEW a \in Visits, NEW nodes \in Lists PROVE DfsStep(a, nodes)
    OBVIOUS
  <2>1. nodes # <<>> => /\ Enter(a, Head(nodes)) \in Visits
                        /\ m_children[Head(nodes)] \in Lists
    BY HeadAndTail, EnterAndLeave
  <2>2. QED
    BY <1>6, <1>9, <2>1 DEF DfsStep

---------------------------------------------------------------------------
(* The check for cycles.                                                   *)

\* In every set of nodes one runs before the others of it.
PlanAcyclic == \A S \in (SUBSET Tasks) \ {{}} : \E n \in S : ToSet(m_parents[n]) \cap S = {}

\* A child is a node whose parent the other one is.
LEMMA ChildrenAndParents ==
  ASSUME PlanShape, LinksRight
  PROVE  /\ m_children \in [Tasks -> Lists]
         /\ \A n \in Tasks : ToSet(m_children[n]) \subseteq Tasks
         /\ \A n, c \in Tasks : c \in ToSet(m_children[n]) <=> n \in ToSet(m_parents[c])
<1>1. m_children \in [Tasks -> Lists]
  BY DEF PlanShape, Lists
<1>2. ASSUME NEW n \in Tasks PROVE ToSet(m_children[n]) \subseteq Tasks
  <2>1. m_children[n] \in Seq(Tasks)
    BY <1>1 DEF Lists
  <2>2. \A i \in DOMAIN m_children[n] : m_children[n][i] \in Tasks
    BY <2>1
  <2>3. QED
    BY <2>2 DEF ToSet
<1>3. QED
  BY <1>1, <1>2 DEF LinksRight

\* The nodes without parents are a list, and no node is visited when the search starts.
LEMMA RootsAndStart ==
  LET roots == {n \in Tasks : m_parents[n] = <<>>}
  IN /\ NotVisited \in Visits
     /\ Ascending(roots) \in Lists /\ ToSet(Ascending(roots)) = roots
<1> DEFINE roots == {n \in Tasks : m_parents[n] = <<>>}
<1>1. Ascending(roots) \in Seq(Tasks) /\ ToSet(Ascending(roots)) = roots
  <2>1. roots \in SUBSET Tasks
    OBVIOUS
  <2> HIDE DEF roots
  <2>2. QED
    BY <2>1, AscendingLists
<1>2. NotVisited \in Visits
  BY DEF NotVisited, Visits
<1>3. QED
  BY <1>1, <1>2 DEF Lists

\* Numbers given to the tasks have a largest one.
LEMMA LargestNumber ==
  ASSUME NEW f \in [Tasks -> Nat]
  PROVE  \E top \in Nat : \A t \in Tasks : f[t] <= top
<1> DEFINE G == {k \in 0..NumTasks : \E top \in Nat : \A t \in Tasks : t < k => f[t] <= top}
<1>1. NumTasks \in Nat /\ \A t \in Tasks : t \in Nat /\ t < NumTasks
  BY TaskAssumption DEF Tasks
<1>2. 0 \in G
  BY <1>1
<1>3. ASSUME NEW k \in 0..(NumTasks - 1), k \in G PROVE k + 1 \in G
  <2>1. k \in Tasks /\ k + 1 \in 0..NumTasks
    BY <1>1 DEF Tasks
  <2>2. PICK top \in Nat : \A t \in Tasks : t < k => f[t] <= top
    BY <1>3
  <2> DEFINE more == IF f[k] <= top THEN top ELSE f[k]
  <2>3. more \in Nat /\ top <= more /\ f[k] <= more
    BY <2>1, <2>2
  <2> HIDE DEF more
  <2>4. \A t \in Tasks : t < k + 1 => t < k \/ t = k
    BY <1>1
  <2>5. \A t \in Tasks : f[t] \in Nat
    OBVIOUS
  <2>6. \A t \in Tasks : t < k + 1 => f[t] <= more
    BY <2>2, <2>3, <2>4, <2>5
  <2>7. QED
    BY <2>1, <2>3, <2>6
<1>4. NumTasks \in G
  <2> HIDE DEF G
  <2>1. 0..NumTasks \subseteq G
    BY <1>1, <1>2, <1>3, CountingUp
  <2>2. QED
    BY <1>1, <2>1
<1>5. QED
  BY <1>1, <1>4

\* A plan that passes has no cycle: of a set of nodes take the one that departs last.
LEMMA CheckedIsAcyclic ==
  ASSUME PlanShape, LinksRight, IsAcyclic
  PROVE  PlanAcyclic
<1> DEFINE departure == DfsFromRoots.departure
<1>1. DfsFromRoots \in Visits
  <2>1. DfsStep(NotVisited, Ascending({n \in Tasks : m_parents[n] = <<>>}))
    BY ChildrenAndParents, RootsAndStart, DfsUnfolds
  <2>2. QED
    BY <2>1 DEF DfsStep, DfsFromRoots
<1>2. departure \in [Tasks -> Nat]
  BY <1>1 DEF Visits
<1>3. \A n \in Tasks : \A c \in ToSet(m_children[n]) : departure[n] > departure[c]
  BY DEF IsAcyclic
<1> HIDE DEF departure
<1>4. PICK top \in Nat : \A t \in Tasks : departure[t] <= top
  BY <1>2, LargestNumber
<1> SUFFICES ASSUME NEW S \in (SUBSET Tasks) \ {{}}
             PROVE  \E n \in S : ToSet(m_parents[n]) \cap S = {}
  BY Zenon DEF PlanAcyclic
<1> DEFINE below == {top - departure[t] : t \in S}
<1>5. \A t \in Tasks : departure[t] \in Nat /\ top - departure[t] \in Nat
  BY <1>2, <1>4
<1>6. below \in SUBSET Nat /\ below # {}
  <2>1. S # {} /\ S \subseteq Tasks
    BY Zenon
  <2>2. QED
    BY <1>5, <2>1
<1>7. PICK least \in below : \A k \in below : least <= k
  <2> HIDE DEF below
  <2>1. QED
    BY <1>6, LeastNumber
<1>8. PICK n \in S : \A t \in S : top - departure[n] <= top - departure[t]
  BY <1>7
<1>9. \A t \in S : ~(departure[t] > departure[n])
  BY <1>4, <1>5, <1>8
<1>10. \A t \in S : t \notin ToSet(m_parents[n])
  BY <1>3, <1>9, ChildrenAndParents
<1>11. QED
  BY <1>10

\* The nodes that a search of n alone visits: those in every set that has n and its own
\* children.
ClosedDown(D) == \A m \in D : ToSet(m_children[m]) \subseteq D
Below(n) == {m \in Tasks : \A D \in SUBSET Tasks : n \in D /\ ClosedDown(D) => m \in D}

\* They are closed under children themselves, and less for a child.
LEMMA BelowIsClosed ==
  ASSUME PlanShape, LinksRight
  PROVE  /\ \A n \in Tasks : Below(n) \in SUBSET Tasks /\ n \in Below(n) /\ ClosedDown(Below(n))
         /\ \A n \in Tasks : \A m \in Below(n) : Below(m) \subseteq Below(n)
         /\ \A n \in Tasks : \A c \in ToSet(m_children[n]) : Below(c) \subseteq Below(n)
<1>1. ASSUME NEW n \in Tasks
      PROVE  Below(n) \in SUBSET Tasks /\ n \in Below(n) /\ ClosedDown(Below(n))
  <2>1. Below(n) \in SUBSET Tasks /\ n \in Below(n)
    BY DEF Below
  <2>2. ASSUME NEW m \in Below(n), NEW c \in ToSet(m_children[m]) PROVE c \in Below(n)
    <3>1. m \in Tasks /\ c \in Tasks
      BY <2>1, ChildrenAndParents
    <3>2. QED
      BY <3>1 DEF Below, ClosedDown
  <2>3. QED
    BY <2>1, <2>2 DEF ClosedDown
<1>2. ASSUME NEW n \in Tasks, NEW m \in Below(n) PROVE Below(m) \subseteq Below(n)
  <2>1. Below(n) \in SUBSET Tasks /\ ClosedDown(Below(n))
    BY <1>1
  <2>2. QED
    BY <2>1 DEF Below
<1>3. ASSUME NEW n \in Tasks, NEW c \in ToSet(m_children[n]) PROVE c \in Below(n)
  BY <1>1 DEF ClosedDown
<1>4. QED
  BY <1>1, <1>2, <1>3

\* No node is below its own child when there are no cycles: those on the way from the one to
\* the other would be a set in which each has a parent.
LEMMA NotBelowItsChild ==
  ASSUME PlanShape, LinksRight, PlanAcyclic, NEW n \in Tasks, NEW c \in ToSet(m_children[n])
  PROVE  n \notin Below(c)
<1> SUFFICES ASSUME n \in Below(c) PROVE FALSE
  OBVIOUS
<1> DEFINE S == {x \in Below(c) : n \in Below(x)}
<1>1. /\ c \in Tasks /\ Below(c) \in SUBSET Tasks /\ c \in Below(c) /\ ClosedDown(Below(c))
      /\ n \in Below(n)
  <2>1. c \in Tasks
    BY ChildrenAndParents
  <2>2. QED
    BY <2>1, BelowIsClosed
<1>2. S \in SUBSET Tasks /\ n \in S
  BY <1>1
<1>3. PICK x \in S : ToSet(m_parents[x]) \cap S = {}
  BY <1>2 DEF PlanAcyclic
<1>4. x \in Tasks /\ x \in Below(c) /\ n \in Below(x)
  BY <1>2
<1>5. \A y \in Below(c) : x \notin ToSet(m_children[y])
  <2> SUFFICES ASSUME NEW y \in Below(c), x \in ToSet(m_children[y]) PROVE FALSE
    OBVIOUS
  <2>1. y \in Tasks
    BY <1>1
  <2>2. n \in Below(y)
    BY <1>4, <2>1, BelowIsClosed
  <2>3. y \in S /\ y \in ToSet(m_parents[x])
    BY <1>4, <2>1, <2>2, ChildrenAndParents
  <2>4. QED
    BY <1>3, <2>3
<1>6. x # c
  BY <1>1, <1>2, <1>5
<1> DEFINE D == Below(c) \ {x}
<1>7. D \in SUBSET Tasks /\ c \in D /\ ClosedDown(D)
  <2>1. \A y \in D : ToSet(m_children[y]) \subseteq D
    BY <1>1, <1>5 DEF ClosedDown
  <2>2. QED
    BY <1>1, <1>6, <2>1 DEF ClosedDown
<1>8. x \in D
  <2> HIDE DEF D
  <2>1. QED
    BY <1>4, <1>7 DEF Below
<1>9. QED
  BY <1>8

\* What dfs has reached while the nodes of K are entered and not left: a node that is left
\* departed after its children, all of which are left.
Reached(a, K) ==
  /\ K \subseteq a.visited
  /\ \A m \in a.visited \ K :
       /\ a.departure[m] < a.time
       /\ \A c \in ToSet(m_children[m]) : c \in a.visited \ K /\ a.departure[c] < a.departure[m]

\* A search of nodes that have none of K below them leaves as much of the whole list.
SearchReaches(a, nodes) ==
  \A K \in SUBSET Tasks :
    Reached(a, K) /\ (\A n \in ToSet(nodes) : Below(n) \cap K = {})
      => Reached(Dfs[<<a, nodes>>], K) /\ ToSet(nodes) \subseteq Dfs[<<a, nodes>>].visited

\* Entering a node.
LEMMA EnteredIsReached ==
  ASSUME PlanShape, LinksRight, PlanAcyclic,
         NEW a \in Visits, NEW K \in SUBSET Tasks, NEW n \in Tasks, n \notin a.visited,
         Reached(a, K), Below(n) \cap K = {}
  PROVE  /\ Reached(Enter(a, n), K \cup {n})
         /\ \A c \in ToSet(m_children[n]) : Below(c) \cap (K \cup {n}) = {}
<1>1. /\ Enter(a, n).visited = a.visited \cup {n} /\ Enter(a, n).departure = a.departure
      /\ Enter(a, n).time = a.time
  BY EnterAndLeave
<1>2. Enter(a, n).visited \ (K \cup {n}) = a.visited \ K /\ K \cup {n} \subseteq Enter(a, n).visited
  <2>1. K \subseteq a.visited
    BY DEF Reached
  <2>2. QED
    BY <1>1, <2>1
<1>3. \A c \in ToSet(m_children[n]) : Below(c) \subseteq Below(n) /\ n \notin Below(c)
  BY BelowIsClosed, NotBelowItsChild
<1>4. QED
  BY <1>1, <1>2, <1>3 DEF Reached

\* Leaving it when its children are visited.
LEMMA LeftIsReached ==
  ASSUME PlanShape, LinksRight,
         NEW m \in Visits, NEW K \in SUBSET Tasks, NEW n \in Tasks, n \notin K,
         Reached(m, K \cup {n}), ToSet(m_children[n]) \subseteq m.visited,
         \A c \in ToSet(m_children[n]) : c \notin K \cup {n}
  PROVE  Reached(Leave(m, n), K)
<1>1. /\ Leave(m, n).visited = m.visited /\ Leave(m, n).time = m.time + 1
      /\ Leave(m, n).departure[n] = m.time
      /\ \A t \in Tasks : t # n => Leave(m, n).departure[t] = m.departure[t]
  BY EnterAndLeave
<1>2. m.visited \subseteq Tasks /\ m.time \in Nat /\ \A t \in Tasks : m.departure[t] \in Nat
  BY DEF Visits
<1>3. \A x \in Tasks : ToSet(m_children[x]) \subseteq Tasks
  BY ChildrenAndParents
<1>4. K \subseteq Leave(m, n).visited
  BY <1>1 DEF Reached
<1> DEFINE b == Leave(m, n)
<1>5. ASSUME NEW x \in b.visited \ K
      PROVE  /\ b.departure[x] < b.time
             /\ \A c \in ToSet(m_children[x]) : c \in b.visited \ K /\ b.departure[c] < b.departure[x]
  <2>1. x \in m.visited /\ x \notin K /\ x \in Tasks
    BY <1>1, <1>2
  <2>2. CASE x = n
    <3>1. b.departure[x] = m.time /\ b.time = m.time + 1
      BY <1>1, <2>2
    <3>2. ASSUME NEW c \in ToSet(m_children[n])
          PROVE  c \in b.visited \ K /\ b.departure[c] < m.time
      <4>1. c \in Tasks /\ c # n /\ c \in m.visited \ (K \cup {n})
        BY <1>3, <3>2
      <4>2. m.departure[c] < m.time
        BY <4>1 DEF Reached
      <4>3. QED
        BY <1>1, <4>1, <4>2
    <3> HIDE DEF b
    <3>3. QED
      BY <1>2, <2>2, <3>1, <3>2
  <2>3. CASE x # n
    <3>1. x \in m.visited \ (K \cup {n})
      BY <2>1, <2>3
    <3>2. b.departure[x] = m.departure[x] /\ m.departure[x] < m.time /\ b.time = m.time + 1
      BY <1>1, <2>1, <2>3, <3>1 DEF Reached
    <3>3. ASSUME NEW c \in ToSet(m_children[x])
          PROVE  c \in b.visited \ K /\ b.departure[c] < b.departure[x]
      <4>1. c \in m.visited \ (K \cup {n}) /\ m.departure[c] < m.departure[x]
        BY <3>1, <3>3 DEF Reached
      <4>2. c \in Tasks /\ c # n
        BY <1>2, <4>1
      <4>3. QED
        BY <1>1, <3>2, <4>1, <4>2
    <3> HIDE DEF b
    <3>4. m.departure[x] \in Nat
      BY <1>2, <2>1
    <3>5. QED
      BY <1>2, <3>2, <3>3, <3>4
  <2>4. QED
    BY <2>2, <2>3
<1>6. QED
  BY <1>4, <1>5 DEF Reached

\* In a plan without cycles, every search does.
LEMMA SearchesReach ==
  ASSUME PlanShape, LinksRight, PlanAcyclic
  PROVE  \A a \in Visits, nodes \in Lists : SearchReaches(a, nodes)
<1> DEFINE P == {x \in Searches : SearchReaches(x[1], x[2])}
<1>1. ASSUME NEW a \in Visits, NEW nodes \in Lists
      PROVE  <<a, nodes>> \in P <=> SearchReaches(a, nodes)
  BY DEF Searches, Lists
<1> HIDE DEF P
<1>2. m_children \in [Tasks -> Lists]
  BY ChildrenAndParents
<1>3. Inherits(P)
  <2> SUFFICES ASSUME NEW a \in Visits, NEW nodes \in Lists,
                      nodes # <<>> /\ Head(nodes) \in a.visited => <<a, Tail(nodes)>> \in P,
                      nodes # <<>> /\ Head(nodes) \notin a.visited =>
                        /\ <<Enter(a, Head(nodes)), m_children[Head(nodes)]>> \in P
                        /\ \A b \in Visits : Enter(a, Head(nodes)).visited \subseteq b.visited =>
                                               <<Leave(b, Head(nodes)), Tail(nodes)>> \in P,
                      NEW K \in SUBSET Tasks, Reached(a, K),
                      \A n \in ToSet(nodes) : Below(n) \cap K = {}
               PROVE  /\ Reached(Dfs[<<a, nodes>>], K)
                      /\ ToSet(nodes) \subseteq Dfs[<<a, nodes>>].visited
    BY <1>1 DEF Inherits, SearchReaches
  <2>1. DfsStep(a, nodes)
    BY <1>2, DfsUnfolds
  <2>2. CASE nodes = <<>>
    <3>1. Dfs[<<a, nodes>>] = a /\ ToSet(nodes) = {}
      BY <2>1, <2>2 DEF DfsStep, ToSet
    <3>2. QED
      BY <3>1
  <2> DEFINE n == Head(nodes)
  <2>3. ASSUME nodes # <<>>
        PROVE  /\ n \in Tasks /\ Tail(nodes) \in Lists /\ ToSet(nodes) = {n} \cup ToSet(Tail(nodes))
               /\ Below(n) \cap K = {} /\ \A t \in ToSet(Tail(nodes)) : Below(t) \cap K = {}
    <3>1. n \in Tasks /\ Tail(nodes) \in Lists /\ ToSet(nodes) = {n} \cup ToSet(Tail(nodes))
      BY <2>3, HeadAndTail
    <3> HIDE DEF n
    <3>2. QED
      BY <3>1
  <2>4. CASE nodes # <<>> /\ n \in a.visited
    <3>1. Dfs[<<a, nodes>>] = Dfs[<<a, Tail(nodes)>>] /\ a.visited \subseteq Dfs[<<a, nodes>>].visited
      BY <2>1, <2>4 DEF DfsStep
    <3>2. SearchReaches(a, Tail(nodes))
      BY <1>1, <2>3, <2>4
    <3> HIDE DEF n
    <3>3. QED
      BY <2>3, <2>4, <3>1, <3>2 DEF SearchReaches
  <2>5. CASE nodes # <<>> /\ n \notin a.visited
    <3> DEFINE m == Dfs[<<Enter(a, n), m_children[n]>>]
    <3>1. /\ m \in Visits /\ Enter(a, n).visited \subseteq m.visited
          /\ Dfs[<<a, nodes>>] = Dfs[<<Leave(m, n), Tail(nodes)>>]
      BY <2>1, <2>5 DEF DfsStep
    <3>2. Enter(a, n) \in Visits /\ Enter(a, n).visited = a.visited \cup {n} /\ m_children[n] \in Lists
      BY <1>2, <2>3, <2>5, EnterAndLeave
    <3>3. SearchReaches(Enter(a, n), m_children[n])
      BY <1>1, <2>5, <3>2
    <3>4. /\ Reached(Enter(a, n), K \cup {n})
          /\ \A c \in ToSet(m_children[n]) : Below(c) \cap (K \cup {n}) = {}
      <4> HIDE DEF n
      <4>1. QED
        BY <2>3, <2>5, EnteredIsReached
    <3>5. Reached(m, K \cup {n}) /\ ToSet(m_children[n]) \subseteq m.visited
      <4>1. K \cup {n} \in SUBSET Tasks
        BY <2>3, <2>5
      <4>2. QED
        BY <3>3, <3>4, <4>1 DEF SearchReaches
    <3>6. <<Leave(m, n), Tail(nodes)>> \in P
      BY <2>5, <3>1
    <3>7. Leave(m, n) \in Visits /\ Leave(m, n).visited = m.visited
      <4> HIDE DEF m
      <4>1. QED
        BY <2>3, <2>5, <3>1, EnterAndLeave
    <3> HIDE DEF m, n
    <3>8. Reached(Leave(m, n), K)
      <4>1. \A c \in ToSet(m_children[n]) : c \notin K \cup {n}
        <5>1. \A c \in ToSet(m_children[n]) : c \in Below(c)
          BY <2>3, <2>5, BelowIsClosed, ChildrenAndParents
        <5>2. QED
          BY <3>4, <5>1
      <4>2. n \notin K
        BY <2>5 DEF Reached
      <4>3. QED
        BY <2>3, <2>5, <3>1, <3>5, <4>1, <4>2, LeftIsReached
    <3>9. DfsStep(Leave(m, n), Tail(nodes)) /\ SearchReaches(Leave(m, n), Tail(nodes))
      BY <1>1, <1>2, <2>3, <2>5, <3>6, <3>7, DfsUnfolds
    <3>10. Leave(m, n).visited \subseteq Dfs[<<a, nodes>>].visited
      BY <3>1, <3>9 DEF DfsStep
    <3>11. Reached(Dfs[<<a, nodes>>], K) /\ ToSet(Tail(nodes)) \subseteq Dfs[<<a, nodes>>].visited
      BY <2>3, <2>5, <3>1, <3>8, <3>9 DEF SearchReaches
    <3>12. QED
      BY <2>3, <2>5, <3>1, <3>2, <3>7, <3>10, <3>11
  <2>6. QED
    BY <2>2, <2>4, <2>5
<1>4. QED
  BY <1>1, <1>2, <1>3, DfsInduction

\* A plan without cycles passes: the search from the roots visits every node, since a set of
\* nodes that it left out would have one without parents in it, a child of a node visited or
\* a root.
LEMMA AcyclicIsChecked ==
  ASSUME PlanShape, LinksRight, PlanAcyclic
  PROVE  IsAcyclic
<1> DEFINE roots == {n \in Tasks : m_parents[n] = <<>>}
           d == DfsFromRoots
<1>1. NotVisited \in Visits /\ Ascending(roots) \in Lists /\ ToSet(Ascending(roots)) = roots
  BY RootsAndStart
<1>2. d = Dfs[<<NotVisited, Ascending(roots)>>]
  BY DEF DfsFromRoots
<1>3. Reached(NotVisited, {})
  BY DEF NotVisited, Reached
<1>4. Reached(d, {}) /\ roots \subseteq d.visited
  <2>1. SearchReaches(NotVisited, Ascending(roots))
    BY <1>1, SearchesReach
  <2>2. {} \in SUBSET Tasks /\ \A n \in ToSet(Ascending(roots)) : Below(n) \cap {} = {}
    OBVIOUS
  <2> HIDE DEF d, roots
  <2>3. QED
    BY <1>1, <1>2, <1>3, <2>1, <2>2 DEF SearchReaches
<1>5. DfsStep(NotVisited, Ascending(roots))
  BY <1>1, ChildrenAndParents, DfsUnfolds
<1>6. d \in Visits
  BY <1>2, <1>5 DEF DfsStep
<1> HIDE DEF d
<1>7. /\ \A m \in d.visited : \A c \in ToSet(m_children[m]) : c \in d.visited /\ d.departure[c] < d.departure[m]
      /\ d.visited \subseteq Tasks /\ d.departure \in [Tasks -> Nat]
  BY <1>4, <1>6 DEF Reached, Visits
<1>8. Tasks \subseteq d.visited
  <2> DEFINE S == Tasks \ d.visited
  <2> SUFFICES ASSUME S # {} PROVE FALSE
    OBVIOUS
  <2>1. S \in (SUBSET Tasks) \ {{}}
    BY Zenon
  <2>2. PICK n \in S : ToSet(m_parents[n]) \cap S = {}
    <3> HIDE DEF S
    <3>1. QED
      BY <2>1 DEF PlanAcyclic
  <2>3. m_parents[n] \in Seq(Tasks) /\ m_parents[n] # <<>>
    BY <1>4, <2>2 DEF PlanShape
  <2>4. m_parents[n][1] \in Tasks /\ m_parents[n][1] \in ToSet(m_parents[n])
    BY <2>3 DEF ToSet
  <2>5. m_parents[n][1] \in d.visited
    BY <2>2, <2>4
  <2>6. n \in ToSet(m_children[m_parents[n][1]])
    BY <2>4, ChildrenAndParents
  <2>7. QED
    BY <1>7, <2>2, <2>5, <2>6
<1>9. \A n \in Tasks : \A c \in ToSet(m_children[n]) : d.departure[n] > d.departure[c]
  <2> SUFFICES ASSUME NEW n \in Tasks, NEW c \in ToSet(m_children[n])
               PROVE  d.departure[n] > d.departure[c]
    OBVIOUS
  <2>1. c \in Tasks /\ d.departure[c] < d.departure[n]
    BY <1>7, <1>8
  <2>2. d.departure[n] \in Nat /\ d.departure[c] \in Nat
    BY <1>7, <2>1
  <2>3. QED
    BY <2>1, <2>2
<1>10. QED
  BY <1>9 DEF IsAcyclic, d

\* What the check has found out stays true of the plan.
CheckInv ==
  /\ PlanShape /\ LinksRight
  /\ phase \in {"generate", "program"} => PlanAcyclic

\* The invariant of the compiler, for any script: the links need not fit into the arrays.
LEMMA CheckInvHolds == PlanSpec => []CheckInv
<1>1. PlanInit => CheckInv
  BY PlanInvInit DEF PlanInv, CheckInv, PlanInit
<1>2. ASSUME CheckInv, [PlanNext]_vars PROVE CheckInv'
  <2>1. ASSUME NEW s \in Stmts, Insert(s) PROVE CheckInv'
    <3>1. phase' = "insert"
      BY <2>1 DEF Insert
    <3>2. QED
      BY <1>2, <2>1, <3>1, InsertStep DEF CheckInv
  <2>2. ASSUME UNCHANGED <<stmts, m_parents, m_children>>,
               \/ phase' = phase
               \/ Id = NumTasks /\ phase' = "refused"
               \/ Id = NumTasks /\ phase' \in {"generate", "program"} /\ PlanAcyclic
        PROVE  CheckInv'
    <3>1. PlanShape' /\ LinksRight'
      BY <1>2, <2>2 DEF CheckInv, PlanShape, LinksRight, DependsOn, Id, Stmt
    <3>2. PlanAcyclic' <=> PlanAcyclic
      BY <2>2 DEF PlanAcyclic
    <3>3. QED
      BY <1>2, <2>2, <3>1, <3>2 DEF CheckInv
  <2>3. ASSUME CheckPlan PROVE CheckInv'
    <3>1. IsAcyclic => PlanAcyclic
      BY <1>2, CheckedIsAcyclic DEF CheckInv
    <3>2. QED
      BY <2>2, <2>3, <3>1 DEF CheckPlan
  <2>4. ASSUME Generate PROVE CheckInv'
    <3>1. Id = NumTasks /\ PlanAcyclic
      BY <1>2, <2>4 DEF Generate, CheckInv, PlanShape
    <3>2. QED
      BY <2>2, <2>4, <3>1 DEF Generate
  <2>5. ASSUME Frame PROVE CheckInv'
    BY <2>2, <2>5 DEF Frame, planvars
  <2>6. ASSUME UNCHANGED vars PROVE CheckInv'
    BY <2>2, <2>6 DEF vars, planvars
  <2>7. QED
    BY <1>2, <2>1, <2>3, <2>4, <2>5, <2>6 DEF PlanNext
<1>3. QED
  BY <1>1, <1>2, PTL DEF PlanSpec

\* The departure times refuse the plans with a cycle and no others, wherever the cycle is and
\* whether or not a root leads to it.
THEOREM CycleCheckIsRight == PlanSpec => []AcyclicCheckRight
<1>1. CheckInv => AcyclicCheckRight
  <2> SUFFICES ASSUME CheckInv PROVE IsAcyclic <=> PlanAcyclic
    BY DEF AcyclicCheckRight, PlanAcyclic
  <2>1. QED
    BY CheckedIsAcyclic, AcyclicIsChecked DEF CheckInv
<1>2. QED
  BY CheckInvHolds, <1>1, PTL

\* When a frame is over, every system of the script has been called.
FrameRunsAll == runpc = "done" => ToSet(executed) = Tasks

\* A plan that was not refused is a graph without cycles, and of such a graph the run leaves
\* nothing out.
THEOREM EverySystemRuns == PlanSpec /\ []LinksFit => []FrameRunsAll
<1>1. ASSUME PlanInv, CheckInv, AllTasksRun, runpc = "done" PROVE ToSet(executed) = Tasks
  <2>1. phase = "program"
    BY <1>1 DEF PlanInv, GraphIsThePlan, NoFrameYet
  <2>2. PlanAcyclic /\ \A t \in Tasks : Parents(t) = ToSet(m_parents[t])
    BY <1>1, <2>1 DEF PlanInv, CheckInv, GraphIsThePlan
  <2>3. GraphAcyclic
    BY <2>2, Zenon DEF PlanAcyclic, GraphAcyclic
  <2>4. Tasks \subseteq ToSet(executed)
    BY <1>1, <2>3 DEF AllTasksRun, ToSet
  <2>5. executed \in Seq(Tasks)
    BY <1>1 DEF PlanInv, RunInv, TaskTypeOK
  <2>6. \A i \in DOMAIN executed : executed[i] \in Tasks
    BY <2>5
  <2>7. QED
    BY <2>4, <2>6 DEF ToSet
<1>2. PlanInv => AllTasksRun
  BY RunInvRunsAll DEF PlanInv
<1>3. PlanInv /\ CheckInv => FrameRunsAll
  BY <1>1, <1>2 DEF FrameRunsAll
<1>4. QED
  BY PlanInvariant, CheckInvHolds, <1>3, PTL
===========================================================================
