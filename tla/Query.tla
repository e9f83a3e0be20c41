------------------------------- MODULE Query -------------------------------
(***************************************************************************)
(* The loops fcc generates for a plan (backend/producer.cpp and            *)
(* backend/consumer.cpp), run by Stride threads on one state of the tables *)
(* with the code of block_cluster.c, data_utils.c, ht_registry.c and       *)
(* bittable.c.                                                             *)
(*                                                                         *)
(* An operator produces a stream of block clusters for its parent: the     *)
(* blocks of several columns that start at the same entity, and the set of *)
(* entities still enabled.  The tables do not change during a query, so    *)
(* what a thread produces between two points at which threads meet is a    *)
(* function of its offset, and one step.  Two threads meet where a query   *)
(* follows references: they read each other's hash tables and frontiers,   *)
(* found through the registry, between barriers.                           *)
(***************************************************************************)
EXTENDS Plan, Barrier

CONSTANTS BlockSize,   \* FDB_TABLE_BLOCK_SIZE
          Entities,    \* the ids in use
          WorldsFor    \* for each script, the states of the database it is run on

\* References lead from entities to entities.
RefsBetween(refs) == \A s \in DOMAIN refs : s \in Entities /\ refs[s] \in Entities

ASSUME QueryAssumption ==
  /\ BlockSize \in Nat \ {0} /\ Entities \subseteq Nat
  /\ \A s \in Scripts : \A w \in WorldsFor[s] : RefsBetween(w.refs)

VARIABLES world,       \* the database: who has a component, a tag, a reference; the predicates
          pc,          \* where each thread is in the generated task
          registry,    \* ht_registry: the keys of each thread that lead to something alive
          missed,      \* the look-ups that found no key, or one left by an earlier frame
          filled,      \* threads whose hash table holds the blocks of the gather's child
          temp,        \* entities with a pointer in each thread's temporary tables
          next,        \* next_frontier of each thread
          black,       \* partial_blacklist of each thread
          current,     \* current_frontier of each thread
          calls        \* history: the calls of the system

threadVars == <<barrierVars, registry, missed, filled, temp, next, black, current>>
vars == <<planVars, world, pc, threadVars, calls>>

NOBLOCK == -1        \* FDB_INVALID_BLOCK_START
GLOBAL == -1         \* in place of an entity: the argument is a global
GARBAGE == -2        \* in place of an entity: a pointer nobody has written

Block(entity) == entity \div BlockSize
BlocksOf(entities) == {Block(e) : e \in entities}
Sorted(set) ==
  IF set = {} THEN <<>>
  ELSE SelectSeq([i \in 1..(Max(set) - Min(set) + 1) |-> Min(set) + i - 1], LAMBDA x : x \in set)

---------------------------------------------------------------------------
(* Block clusters.  A column knows its type and, for each entity, whose    *)
(* component it leads to.                                                  *)

Cluster == [start |-> NOBLOCK, enabled |-> {}, columns |-> <<>>]

Own(type) == [type |-> type, of |-> [e \in Entities |-> e]]

AppendBlock(c, block, enabled, column) ==
  [start |-> block, columns |-> Append(c.columns, column),
   enabled |-> IF c.start = NOBLOCK THEN enabled ELSE c.enabled \cap enabled]

AppendGlobal(c, type) ==
  [c EXCEPT !.columns = Append(@, [type |-> type, of |-> [e \in Entities |-> GLOBAL]])]

\* Mutant: what the other cluster has disabled is forgotten.
AppendCluster_KeepsEnabled(c, other) ==
  [start |-> IF other.start = NOBLOCK THEN c.start ELSE other.start,
   enabled |-> IF other.start = NOBLOCK THEN c.enabled
               ELSE IF c.start = NOBLOCK THEN other.enabled ELSE c.enabled,
   columns |-> c.columns \o other.columns]

AppendCluster(c, other) ==
  [start |-> IF other.start = NOBLOCK THEN c.start ELSE other.start,
   enabled |-> IF other.start = NOBLOCK THEN c.enabled
               ELSE IF c.start = NOBLOCK THEN other.enabled ELSE c.enabled \cap other.enabled,
   columns |-> c.columns \o other.columns]

FilterCluster(c, other) == [c EXCEPT !.enabled = @ \cap other.enabled]

AnyEnabled(c) == c.enabled # {}

---------------------------------------------------------------------------
(* Scans and fetches.                                                      *)

\* A table iterator: the blocks of the thread, in the order of their ids.
SelectedBlocks(entities, offset) ==
  Sorted({b \in BlocksOf(entities) : IsSelected(b, offset)})

TableBlock(entities, block, column) ==
  AppendBlock(Cluster, block, {e \in entities : Block(e) = block}, column)

ScanTable(entities, column, offset) ==
  LET blocks == SelectedBlocks(entities, offset)
  IN [i \in DOMAIN blocks |-> TableBlock(entities, blocks[i], column)]

Sources == DOMAIN world.refs

\* A scan of a table of components, or of a table of references: the column of the latter
\* leads to the entities referenced.
ProduceScan(scan, offset) ==
  LET column == scan.columns[1] IN
  IF column.kind = "ID"
    THEN ScanTable(Sources, [type |-> column.type,
                             of |-> [e \in Entities |-> IF e \in Sources THEN world.refs[e] ELSE GARBAGE]],
                   offset)
    ELSE ScanTable(world.has[column.type], Own(column.type), offset)

\* A global that does not exist produces nothing.
ProduceFetch(fetch) ==
  IF fetch.columns[1].type \in world.globals
    THEN <<AppendGlobal(Cluster, fetch.columns[1].type)>> ELSE <<>>

---------------------------------------------------------------------------
(* Joins: the clusters of the left child are kept by block, the first to   *)
(* come under a block stays.                                               *)

Build(clusters) ==
  [b \in {clusters[i].start : i \in DOMAIN clusters} |->
     clusters[Min({i \in DOMAIN clusters : clusters[i].start = b})]]

Probed(build, clusters) == SelectSeq(clusters, LAMBDA c : c.start \in DOMAIN build)

JoinWith(build, clusters) ==
  LET probed == Probed(build, clusters)
      joined == [i \in DOMAIN probed |-> AppendCluster(build[probed[i].start], probed[i])]
  IN SelectSeq(joined, AnyEnabled)

LeftFilterWith(build, clusters) ==
  LET probed == Probed(build, clusters)
      filtered == [i \in DOMAIN probed |-> FilterCluster(build[probed[i].start], probed[i])]
  IN SelectSeq(filtered, AnyEnabled)

\* Every cluster of the left with every one of the right, both in the order of their keys.
CrossJoinWith(left, right) ==
  LET lefts == Sorted(DOMAIN left)
      rights == Sorted(DOMAIN right)
  IN FlattenSeq([i \in DOMAIN lefts |->
       [j \in DOMAIN rights |-> AppendCluster(left[lefts[i]], right[rights[j]])]])

---------------------------------------------------------------------------
(* Filters.                                                                *)

\* filter_bittable_exists and filter_bittable_not_exists look at the entity referenced.
FilterExists(c, tagged) == [c EXCEPT !.enabled = {e \in @ : c.columns[1].of[e] \in tagged}]
FilterNotExists(c, tagged) == [c EXCEPT !.enabled = {e \in @ : c.columns[1].of[e] \notin tagged}]

\* Mutant: both kinds of filter keep the tagged entities.
TagFiltered_Has(filter, c) ==
  IF filter.on_column THEN FilterExists(c, world.tags[filter.tag])
  ELSE [c EXCEPT !.enabled = @ \cap world.tags[filter.tag]]

TagFiltered(filter, c) ==
  LET tagged == world.tags[filter.tag] IN
  CASE filter.on_column /\ filter.op_type = "HAS" -> FilterExists(c, tagged)
    [] filter.on_column /\ filter.op_type = "HAS_NOT" -> FilterNotExists(c, tagged)
    [] ~filter.on_column /\ filter.op_type = "HAS" -> [c EXCEPT !.enabled = @ \cap tagged]
    [] OTHER -> [c EXCEPT !.enabled = @ \ tagged]

ConsumeTagFilter(filter, clusters) ==
  SelectSeq([i \in DOMAIN clusters |-> TagFiltered(filter, clusters[i])], AnyEnabled)

\* A predicate is a set of entities it holds of.
ConsumePredicateFilter(filter, clusters) ==
  SelectSeq([i \in DOMAIN clusters |->
               [clusters[i] EXCEPT !.enabled = @ \cap world.holds[filter.func]]], AnyEnabled)

---------------------------------------------------------------------------
(* What an operator produces for one thread; "gathered" is what the gather *)
(* of the plan produces at that moment.                                    *)

Produce(root, offset, gathered) ==
  LET stream[path \in Seq(Fields)] ==
        LET op == OperatorAt(root, path)
            below(child) == stream[Append(path, child)]
        IN CASE op.op = "SCAN" -> ProduceScan(op, offset)
             [] op.op = "FETCH" -> ProduceFetch(op)
             [] op.op = "JOIN" -> JoinWith(Build(below("left")), below("right"))
             [] op.op = "LEFT_FILTER_JOIN" -> LeftFilterWith(Build(below("left")), below("right"))
             [] op.op = "CROSS_JOIN" -> CrossJoinWith(Build(below("left")), Build(below("right")))
             [] op.op = "TAG_FILTER" -> ConsumeTagFilter(op, below("child"))
             [] op.op = "PREDICATE_FILTER" -> ConsumePredicateFilter(op, below("child"))
             [] op.op \in {"GATHER", "CASCADING_GATHER"} -> gathered
  IN stream[<<>>]

Root == plan.root

AllGlobals == \A i \in DOMAIN Root.columns : Root.columns[i].kind = "GLOBAL"

\* A call of the system's run method: the entity, and whose components it gets.
Call(cluster, entity) ==
  [entity |-> entity,
   args |-> [i \in DOMAIN cluster.columns |->
               <<cluster.columns[i].type, cluster.columns[i].of[entity]>>]]

CallsOn(cluster) ==
  LET enabled == Sorted(cluster.enabled)
  IN IF AllGlobals THEN <<Call(cluster, 0)>>
     ELSE [i \in DOMAIN enabled |-> Call(cluster, enabled[i])]

\* Mutant: a system on globals only runs once in every thread.
RunsIn_EveryThread(t) == TRUE

\* A system on globals only runs in the first thread.
RunsIn(t) == AllGlobals => t = 0

ConsumeForeach(t, gathered) ==
  LET clusters == IF RunsIn(t) THEN Produce(Root.child, t, gathered) ELSE <<>>
  IN calls' = calls \o FlattenSeq([i \in DOMAIN clusters |-> CallsOn(clusters[i])])

---------------------------------------------------------------------------
(* The gather of the plan, when there is one: entities are followed from   *)
(* the references to them.                                                 *)

\* Only the right side of a join, or what filters sit on, can be a gather.
GatherBelow(root) ==
  LET gather[path \in Seq(Fields)] ==
        LET op == OperatorAt(root, path)
        IN CASE Gathers(op) -> op
             [] op.op \in {"SCAN", "FETCH"} -> Invalid
             [] op.op \in {"JOIN", "LEFT_FILTER_JOIN", "CROSS_JOIN"} -> gather[Append(path, "right")]
             [] OTHER -> gather[Append(path, "child")]
  IN gather[<<>>]

TheGather == GatherBelow(Root)
HasGather == TheGather # Invalid
IsCascade == TheGather.op = "CASCADING_GATHER"

\* The hash table of a thread: its blocks of the child.
HashTable(t) == IF t \in filled THEN Build(Produce(TheGather.child, t, <<>>)) ELSE <<>>

\* copy_component_ptr: the block of the target is looked up in its owner's hash table.
TargetFound(target) ==
  LET table == HashTable(BlockOffset(Block(target)))
  IN Block(target) \in DOMAIN table /\ target \in table[Block(target)].enabled

\* Mutant: every thread follows all references.
RefsOf_All(t) == Sources

\* The references of a thread: those of its blocks.
RefsOf(t) == {s \in Sources : IsSelected(Block(s), t)}

\* gather: a pointer for each source of the thread whose target was found.
GatheredBy(t) == {s \in RefsOf(t) : TargetFound(world.refs[s])}

\* A block of the temporary tables: one column of pointers for each column of the child.
TempBlock(t, block) ==
  LET pointers == [e \in Entities |-> IF e \in temp[t] THEN world.refs[e] ELSE GARBAGE]
      child == TheGather.child.columns
  IN [start |-> block, enabled |-> {e \in temp[t] : Block(e) = block},
      columns |-> [i \in DOMAIN child |-> [type |-> child[i].type, of |-> pointers]]]

\* find_roots_and_blacklist, for the references of a thread: an entity that is referenced and
\* has no reference of its own is a root.  In whichever order the two come, the loop takes an
\* entity out or leaves it out; what other threads have blacklisted comes later.
FindRoots(t) ==
  [black |-> RefsOf(t), next |-> {world.refs[s] : s \in RefsOf(t)} \ RefsOf(t)]

\* build_fdb_bcluster_from_refs, for one block of references: the sources whose target is in
\* the frontier, if the temporary tables have the block at all.
Followed(t, block) ==
  IF block \notin BlocksOf(temp[t]) THEN {}
  ELSE {s \in RefsOf(t) : Block(s) = block /\ world.refs[s] \in current[t]}
RefsCluster(t, block) ==
  IF block \notin BlocksOf(temp[t]) THEN Cluster
  ELSE [TempBlock(t, block) EXCEPT !.enabled = Followed(t, block)]

---------------------------------------------------------------------------
(* The generated task, thread by thread.                                   *)

Labels == {"start", "child", "look up", "gather", "consume", "release", "collect", "roots",
           "wave", "merge", "done"}

Goto(t, label) == pc' = [pc EXCEPT ![t] = label]

\* The caller's p_wait, and what comes after it.
Reach(t, label) == Goto(t, label) /\ Arrive(t)

\* fdb_htregistry_insert replaces what an earlier frame left under the key.
Register(t, kinds) == registry' = [registry EXCEPT ![t] = @ \cup kinds]
LookUp(kinds) ==
  missed' = missed \cup {key \in Threads \X kinds : key[2] \notin registry[key[1]]}

\* A plan without a gather: a thread meets no other.
RunLocal(t) ==
  /\ pc[t] = "start" /\ ~HasGather
  /\ ConsumeForeach(t, <<>>)
  /\ Goto(t, "done")
  /\ UNCHANGED threadVars

RegisterHashTable(t) ==
  /\ pc[t] = "start" /\ HasGather
  /\ Register(t, {"hashtable"})
  /\ Goto(t, "child")
  /\ UNCHANGED <<barrierVars, missed, filled, temp, next, black, current, calls>>

\* The child fills the hash table, and the temporary tables are created empty.
ProduceChild(t) ==
  /\ pc[t] = "child"
  /\ filled' = filled \cup {t}
  /\ temp' = [temp EXCEPT ![t] = {}]
  /\ Reach(t, "look up")
  /\ UNCHANGED <<registry, missed, next, black, current, calls>>

LookUpHashTables(t) ==
  /\ pc[t] = "look up" /\ Passed(t)
  /\ LookUp({"hashtable"})
  /\ Goto(t, "gather")
  /\ UNCHANGED <<barrierVars, registry, filled, temp, next, black, current, calls>>

\* consume_gather, for all blocks of references.
GatherRefs(t) ==
  /\ pc[t] = "gather" /\ ~IsCascade
  /\ temp' = [temp EXCEPT ![t] = GatheredBy(t)]
  /\ Goto(t, "consume")
  /\ UNCHANGED <<barrierVars, registry, missed, filled, next, black, current, calls>>

ConsumeTemp(t) ==
  /\ pc[t] = "consume"
  /\ LET blocks == SelectedBlocks(temp[t], t)
     IN ConsumeForeach(t, [i \in DOMAIN blocks |-> TempBlock(t, blocks[i])])
  /\ Reach(t, "release")
  /\ UNCHANGED <<registry, missed, filled, temp, next, black, current>>

\* consume_cascading_gather, then the registration of the two bit tables.
CascadeRefs(t) ==
  /\ pc[t] = "gather" /\ IsCascade
  /\ temp' = [temp EXCEPT ![t] = GatheredBy(t)]
  /\ next' = [next EXCEPT ![t] = FindRoots(t).next]
  /\ black' = [black EXCEPT ![t] = FindRoots(t).black]
  /\ Register(t, {"blacklist", "next_frontier"})
  /\ Reach(t, "collect")
  /\ UNCHANGED <<missed, filled, current, calls>>

\* Mutant: the wait before the look-up is missing.
CollectFrontiers_NoWait(t) ==
  /\ pc[t] = "collect"
  /\ LookUp({"blacklist", "next_frontier"})
  /\ Reach(t, "roots")
  /\ UNCHANGED <<registry, filled, temp, next, black, current, calls>>

CollectFrontiers(t) ==
  /\ pc[t] = "collect" /\ Passed(t)
  /\ LookUp({"blacklist", "next_frontier"})
  /\ Reach(t, "roots")
  /\ UNCHANGED <<registry, filled, temp, next, black, current, calls>>

\* Mutant: only the thread's own blacklist is applied.
FilterBlacklists_Own(frontier, t) == frontier \ black[t]

\* frontiers_union and filter_blacklists
FrontiersUnion == UNION {next[u] : u \in Threads}
FilterBlacklists(frontier, t) == frontier \ UNION {black[u] : u \in Threads}

BroadcastRoots(t) ==
  /\ pc[t] = "roots" /\ Passed(t)
  /\ current' = [current EXCEPT ![t] = FilterBlacklists(FrontiersUnion, t)]
  /\ Reach(t, "wave")
  /\ UNCHANGED <<registry, missed, filled, temp, next, black, calls>>

\* Mutant: a thread leaves the loop when it has found nothing for the next round itself.
MoreToFollow_Own(t) == next[t] # {}

\* The condition of the loop.
MoreToFollow(t) == current[t] # {}

\* A round: the references of the thread that lead into the frontier, block by block; they
\* are the next frontier, which was cleared before.
Wave(t) ==
  /\ pc[t] = "wave" /\ Passed(t) /\ MoreToFollow(t)
  /\ LET blocks == Sorted(BlocksOf(RefsOf(t)))
     IN /\ next' = [next EXCEPT ![t] = UNION {Followed(t, b) : b \in Range(blocks)}]
        /\ ConsumeForeach(t, [i \in DOMAIN blocks |-> RefsCluster(t, blocks[i])])
  /\ Reach(t, "merge")
  /\ UNCHANGED <<registry, missed, filled, temp, black, current>>

MergeFrontiers(t) ==
  /\ pc[t] = "merge" /\ Passed(t)
  /\ current' = [current EXCEPT ![t] = FrontiersUnion]
  /\ Reach(t, "wave")
  /\ UNCHANGED <<registry, missed, filled, temp, next, black, calls>>

\* The hash table goes; its key in the registry stays, and leads to a dead stack frame.
Release(t) ==
  /\ \/ pc[t] = "release" /\ Passed(t)
     \/ pc[t] = "wave" /\ Passed(t) /\ ~MoreToFollow(t)
  /\ filled' = filled \ {t}
  /\ registry' = [registry EXCEPT ![t] = {}]
  /\ temp' = [temp EXCEPT ![t] = {}]
  /\ next' = [next EXCEPT ![t] = {}]
  /\ black' = [black EXCEPT ![t] = {}]
  /\ Goto(t, "done")
  /\ UNCHANGED <<barrierVars, missed, current, calls>>

Step(t) ==
  /\ status = "running"
  /\ \/ RunLocal(t) \/ RegisterHashTable(t) \/ ProduceChild(t) \/ LookUpHashTables(t)
     \/ GatherRefs(t) \/ ConsumeTemp(t)
     \/ CascadeRefs(t) \/ CollectFrontiers(t) \/ BroadcastRoots(t) \/ Wave(t) \/ MergeFrontiers(t)
     \/ Release(t)
  /\ UNCHANGED <<planVars, world>>

---------------------------------------------------------------------------
NoWorld == [has |-> <<>>, globals |-> {}, tags |-> <<>>, refs |-> <<>>, holds |-> <<>>]

\* The registry is empty in the first frame; later every key is there, and dangles.
Keys == {"hashtable", "blacklist", "next_frontier"}
Init ==
  /\ PlanInit
  /\ world = NoWorld
  /\ pc = [t \in Threads |-> "start"]
  /\ BarrierInit
  /\ registry = [t \in Threads |-> {}] /\ missed = {}
  /\ filled = {}
  /\ temp = [t \in Threads |-> {}]
  /\ next = [t \in Threads |-> {}] /\ black = [t \in Threads |-> {}]
  /\ current = [t \in Threads |-> {}]
  /\ calls = <<>>

Compile == PlanNext /\ UNCHANGED <<world, pc, threadVars, calls>>

\* fdb_task_graph_run calls the task of the query.
BeginTask ==
  /\ status = "generated"
  /\ world' \in WorldsFor[chain]
  /\ status' = "running"
  /\ UNCHANGED <<chain, script, stmt, plan, pc, threadVars, calls>>

EndTask ==
  /\ status = "running" /\ \A t \in Threads : pc[t] = "done"
  /\ status' = "done"
  /\ UNCHANGED <<chain, script, stmt, plan, world, pc, threadVars, calls>>

Next == Compile \/ BeginTask \/ (\E t \in Threads : Step(t)) \/ EndTask

\* A thread can go on unless it has ended or waits at a barrier; every step moves it on.
Ready(t) == /\ status = "running" /\ pc[t] # "done"
            /\ pc[t] \in {"look up", "release", "collect", "roots", "wave", "merge"} => Passed(t)
GoesOn(t) == Ready(t) /\ \E label \in Labels : Goto(t, label)

\* fcc and the caller of the task go on, and so does every thread: of a thread that can step,
\* fairness is stated by the label it is at, which each of its steps changes.
Spec == /\ Init /\ [][Next]_vars
        /\ WF_vars(Compile \/ BeginTask \/ EndTask) /\ \A t \in Threads : WF_pc(GoesOn(t))

---------------------------------------------------------------------------
(* What a script means, read off its calls.                                *)

CallsOf(fn) == SelectSeq(chain, LAMBDA c : c.fn = fn)
MatchTypes == CallsOf("match")[1].types
Expands == CallsOf("expand")
ExpandTypes == IF Expands = <<>> THEN <<>> ELSE Expands[1].types
ExpandAt == IF Expands = <<>> THEN Len(chain) + 1
            ELSE CHOOSE i \in DOMAIN chain : chain[i].fn = "expand"
System == CallsOf("foreach")[1].types

\* The tags asked of the entity matched (before the expand) or of the one referenced.
Asked(fn, from, to) == {chain[i].arg : i \in {i \in from..to : chain[i].fn = fn}}
TagsFit(entity, from, to) ==
  /\ \A x \in Asked("has_tag", from, to) : entity \in world.tags[x]
  /\ \A x \in Asked("has_not_tag", from, to) : entity \notin world.tags[x]

HasAll(entity, types) ==
  \A i \in DOMAIN types : IF IsGlobal(types[i]) THEN types[i] \in world.globals
                                                ELSE entity \in world.has[types[i]]

Matches(entity) ==
  /\ HasAll(entity, MatchTypes)
  /\ TagsFit(entity, 1, ExpandAt - 1)
  /\ \A f \in Asked("filter", 1, Len(chain)) : entity \in world.holds[f]
  /\ Expands # <<>> => /\ entity \in Sources
                       /\ HasAll(world.refs[entity], ExpandTypes)
                       /\ TagsFit(world.refs[entity], ExpandAt + 1, Len(chain))

\* The arguments: the entity's components and the globals, then those of the entity referenced.
ExpectedCall(entity) ==
  LET n == Len(MatchTypes)
      whose(i) == IF IsGlobal(System[i].type) THEN GLOBAL
                  ELSE IF i <= n THEN entity ELSE world.refs[entity]
  IN [entity |-> entity, args |-> [i \in DOMAIN System |-> <<System[i].type, whose(i)>>]]

OnGlobalsOnly == \A i \in DOMAIN MatchTypes : IsGlobal(MatchTypes[i])

ExpectedCalls ==
  IF OnGlobalsOnly THEN IF HasAll(0, MatchTypes) THEN {ExpectedCall(0)} ELSE {}
  ELSE {ExpectedCall(e) : e \in {e \in Entities : Matches(e)}}

\* Following the references from an entity leads to one that has none.
ReachesRoot(entity, steps) ==
  LET within[k \in 0..steps] ==
        IF k = 0 THEN Entities \ Sources
        ELSE within[k - 1] \cup {e \in Sources : world.refs[e] \in within[k - 1]}
  IN entity \in within[steps]

---------------------------------------------------------------------------
\* The types of the variables; what a thread has gathered is about entities of its own blocks.
QueryTypeOK ==
  /\ status \in {"visiting", "planning", "generating", "generated", "running", "done", "refused"}
  /\ pc \in [Threads -> Labels]
  /\ arrived \in Nat /\ last_barrier \in [Threads -> Nat]
  /\ registry \in [Threads -> SUBSET Keys] /\ missed \subseteq Threads \X Keys
  /\ filled \subseteq Threads
  /\ \A t \in Threads :
       /\ next[t] \cup current[t] \subseteq Entities
       /\ \A s \in temp[t] \cup black[t] : s \in Sources /\ BlockOffset(Block(s)) = t

\* A plan that fcc has generated code for hands the system exactly its parameters, in order:
\* the matched entity's components, globals, then those of the entity referenced, which
\* nothing writes (README: components accessed through expand must always be read-only).
PlanFitsSystem ==
  status \in {"generated", "running", "done"} =>
    /\ Len(Root.columns) = Len(System)
    /\ \A i \in DOMAIN System : LET c == Root.columns[i] IN
         /\ c.type = System[i].type
         /\ c.mode = (IF System[i].read_only THEN "READ" ELSE "READ_WRITE")
         /\ c.kind = (IF i > Len(MatchTypes) THEN "REFERENCE"
                      ELSE IF IsGlobal(c.type) THEN "GLOBAL" ELSE "COMPONENT")
         /\ c.kind = "REFERENCE" => c.mode = "READ"

\* When a task has ended, its system has run on all the entities the script describes and on
\* no other, on each once, by whichever thread, and with their components.  A query
\* that cascades leaves out those whose references lead into a cycle.
RunsOnMatches ==
  status = "done" =>
    /\ IsInjective(calls)
    /\ Range(calls) = {c \in ExpectedCalls : IsCascade => ReachesRoot(c.entity, Cardinality(Entities))}

\* No system is given a component that does not exist (README: expand matches entities whose
\* reference leads to an entity "which also have the component").
ArgumentsExist ==
  \A i \in DOMAIN calls : \A j \in DOMAIN calls[i].args :
    LET type == calls[i].args[j][1] of == calls[i].args[j][2]
    IN IF of = GLOBAL THEN type \in world.globals ELSE of \in world.has[type]

\* A system that writes what it reads from the entity referenced runs on that entity first.
TargetsFirst ==
  LET written == {System[i].type : i \in {i \in 1..Len(MatchTypes) : ~System[i].read_only}} IN
  status = "done" /\ Range(ExpandTypes) \cap written # {} =>
    \A i \in DOMAIN calls, j \in DOMAIN calls :
      calls[i].entity \in Sources /\ world.refs[calls[i].entity] = calls[j].entity => j < i

\* A thread looks for the targets of its references when all hash tables are filled, and the
\* rounds of a cascade start with the same frontier in every thread; no look-up in the
\* registry finds a key that is missing or was left by an earlier frame.
BarriersSeparate ==
  /\ missed = {}
  /\ \A t \in Threads : pc[t] = "gather" => filled = Threads
  /\ \A t, u \in Threads :
       pc[t] = "wave" /\ pc[u] = "wave" /\ last_barrier[t] = last_barrier[u]
         => current[t] = current[u]

\* A task ends, whatever the references look like.
Finishes == <>(status \in {"done", "refused"})
===========================================================================
