-------------------------------- MODULE Plan --------------------------------
(***************************************************************************)
(* How fcc turns a statement of a script into a plan: the visitor of the   *)
(* call chain (drivers/clang), the check of what it collected              *)
(* (fcc_context.cpp), the operator tree (frontend/operator.cpp), and what  *)
(* the generator still refuses (backend).                                  *)
(*                                                                         *)
(* A script is the chain of calls as it is written; the visitor meets the  *)
(* outermost, that is the last, call first.  The tree is a value: a parent *)
(* holds its children, and an operator its columns.                        *)
(***************************************************************************)
EXTENDS Integers, Sequences, SequencesExt, FiniteSets, FiniteSetsExt

CONSTANTS Scripts,     \* the chains of calls fcc may be given
          Globals      \* the types written Global<T> in a match

VARIABLES chain,       \* the chain of calls as it was written
          script,      \* the calls of it not visited yet
          stmt,        \* what the visitor has collected: fcc_stmt_t
          status,      \* what fcc does next with it
          plan         \* the tree built so far, and the entity matches not yet in it

planVars == <<chain, script, stmt, status, plan>>

---------------------------------------------------------------------------
(* The statement.  A parameter of the system is a component match: a type, *)
(* whether it is read only, and whether it is a global.                    *)

EntityMatch ==
  [from_expand |-> FALSE, ref_name |-> "", cmatches |-> <<>>,
   has_tag |-> <<>>, has_not_tag |-> <<>>,
   has_component |-> <<>>, has_not_component |-> <<>>, filter |-> <<>>]

NewStmt == [ematches |-> <<>>, system |-> <<>>, place |-> "FRAME", priority |-> 1]

Current == Len(stmt.ematches)

IsGlobal(type) == type \in Globals

\* Mutant: what the earlier entity matches took is not counted.
NumConsumed_Zero(ematches) == 0

\* Parameters of the system that earlier entity matches have taken.
NumConsumed(ematches) == FoldLeft(LAMBDA n, m : n + Len(m.cmatches), 0, Front(ematches))

\* process_match: the types of the call take that many parameters of the system, from the
\* end of those not taken yet; whether one is global is read off the call.  Indices are
\* unsigned: below zero they wrap, and the loop over them is empty.
Taken(st, types) ==
  LET last == Len(st.system) - NumConsumed(st.ematches)
      first == last - Len(types)
      own == IF first < 0 THEN <<>>
             ELSE [i \in 1..Len(types) |-> [st.system[first + i] EXCEPT !.global = IsGlobal(types[i])]]
  IN [st EXCEPT !.ematches[Len(st.ematches)].cmatches = @ \o own,
                !.system = [i \in DOMAIN @ |-> IF first >= 0 /\ i > first /\ i <= last
                                                 THEN own[i - first] ELSE @[i]]]

ProcessMatch(call) == stmt' = Taken(stmt, call.types)

\* process_expand: the entity match of the expand is complete, the next calls fill another.
ProcessExpand(call) ==
  LET expand == [stmt EXCEPT !.ematches[Current].ref_name = call.arg,
                             !.ematches[Current].from_expand = TRUE]
  IN stmt' = [Taken(expand, call.types) EXCEPT !.ematches = Append(@, EntityMatch)]

\* process_foreach: the first call visited; the system's parameters are its run method's.
ProcessForeach(call) ==
  stmt' = [stmt EXCEPT !.ematches = Append(@, EntityMatch),
                       !.system = [i \in DOMAIN call.types |->
                                     [type |-> call.types[i].type, global |-> FALSE,
                                      read_only |-> call.types[i].read_only]]]

ProcessSetPriority(call) == stmt' = [stmt EXCEPT !.priority = call.arg]
ProcessSetPostFrame == stmt' = [stmt EXCEPT !.place = "POST_FRAME"]

\* The filters: each goes to the entity match being filled, in the order it is visited.
AddToMatch(list, call) == stmt' = [stmt EXCEPT !.ematches[Current][list] = Append(@, call.arg)]
ProcessHasTag(call) == AddToMatch("has_tag", call)
ProcessHasNotTag(call) == AddToMatch("has_not_tag", call)
ProcessHasComponent(call) == AddToMatch("has_component", call)
ProcessHasNotComponent(call) == AddToMatch("has_not_component", call)
ProcessFilter(call) == AddToMatch("filter", call)

\* VisitCallExpr
VisitCall ==
  /\ status = "visiting" /\ script # <<>>
  /\ LET call == Last(script) IN
     \/ call.fn = "foreach" /\ ProcessForeach(call)
     \/ call.fn = "set_priority" /\ ProcessSetPriority(call)
     \/ call.fn = "set_post_frame" /\ ProcessSetPostFrame
     \/ call.fn = "has_tag" /\ ProcessHasTag(call)
     \/ call.fn = "has_not_tag" /\ ProcessHasNotTag(call)
     \/ call.fn = "has_component" /\ ProcessHasComponent(call)
     \/ call.fn = "has_not_component" /\ ProcessHasNotComponent(call)
     \/ call.fn = "filter" /\ ProcessFilter(call)
     \/ call.fn = "match" /\ ProcessMatch(call)
     \/ call.fn = "expand" /\ ProcessExpand(call)
  /\ script' = Front(script)
  /\ UNCHANGED <<chain, status, plan>>

\* fcc_validate, without the checks of allow_writes and allow_globals, which are always set.
NumComponents == FoldLeft(LAMBDA n, m : n + Len(m.cmatches), 0, stmt.ematches)
AllGlobal(params) == \A i \in DOMAIN params : params[i].global
WritesGlobal(params) == \E i \in DOMAIN params : params[i].global /\ ~params[i].read_only

IsValid ==
  /\ Len(stmt.ematches) \in {1, 2}
  /\ NumComponents = Len(stmt.system)
  /\ WritesGlobal(stmt.system) => AllGlobal(stmt.system)

\* A statement is checked as soon as its chain has been visited.
ValidateStmt ==
  /\ status = "visiting" /\ script = <<>>
  /\ status' = IF IsValid THEN "planning" ELSE "refused"
  /\ plan' = [plan EXCEPT !.todo = Len(stmt.ematches)]
  /\ UNCHANGED <<chain, script, stmt>>

---------------------------------------------------------------------------
(* The operators.                                                          *)

Column(kind, type, mode) == [kind |-> kind, type |-> type, mode |-> mode]
Mode(cm) == IF cm.read_only THEN "READ" ELSE "READ_WRITE"

Invalid == [op |-> "INVALID", columns |-> <<>>]
CreateScan(cm) == [op |-> "SCAN", columns |-> <<Column("COMPONENT", cm.type, Mode(cm))>>]
CreateRefScan(ref) == [op |-> "SCAN", columns |-> <<Column("ID", ref, "READ")>>]
CreateFetch(cm) == [op |-> "FETCH", columns |-> <<Column("GLOBAL", cm.type, Mode(cm))>>]

\* copy_columns from both children.
Both(left, right) == left.columns \o right.columns
CreateJoin(left, right) ==
  [op |-> "JOIN", left |-> left, right |-> right, columns |-> Both(left, right)]
CreateCrossJoin(left, right) ==
  [op |-> "CROSS_JOIN", left |-> left, right |-> right, columns |-> Both(left, right)]
CreateLeftFilterJoin(left, right) ==
  [op |-> "LEFT_FILTER_JOIN", left |-> left, right |-> right, columns |-> left.columns]

CreatePredicateFilter(child, func) ==
  [op |-> "PREDICATE_FILTER", child |-> child, func |-> func, columns |-> child.columns]
CreateTagFilter(child, tag, op_type, on_column) ==
  [op |-> "TAG_FILTER", child |-> child, tag |-> tag, op_type |-> op_type,
   on_column |-> on_column, columns |-> child.columns]
CreateComponentFilter(child, type, op_type, on_column) ==
  [op |-> "COMPONENT_FILTER", child |-> child, type |-> type, op_type |-> op_type,
   on_column |-> on_column, columns |-> child.columns]

\* What is gathered are pointers to the components of another entity.
AsReferences(columns) == [i \in DOMAIN columns |-> [columns[i] EXCEPT !.kind = "REFERENCE"]]
CreateGather(child, ref_table) ==
  [op |-> "GATHER", child |-> child, ref_table |-> ref_table,
   columns |-> AsReferences(child.columns)]
CreateCascadingGather(child, ref_table) ==
  [op |-> "CASCADING_GATHER", child |-> child, ref_table |-> ref_table,
   columns |-> AsReferences(child.columns)]
CreateForeach(child, system) ==
  [op |-> "FOREACH", child |-> child, system |-> system, columns |-> child.columns]

---------------------------------------------------------------------------
(* subplan_init                                                            *)

ApplyPredicateFilters(m, root) == FoldLeft(CreatePredicateFilter, root, m.filter)

FiltersOn(m, root, on_column) ==
  LET hasNot(r, x) == CreateTagFilter(r, x, "HAS_NOT", on_column)
      has(r, x) == CreateTagFilter(r, x, "HAS", on_column)
      hasNotComponent(r, x) == CreateComponentFilter(r, x, "HAS_NOT", on_column)
      hasComponent(r, x) == CreateComponentFilter(r, x, "HAS", on_column)
  IN FoldLeft(hasComponent,
       FoldLeft(hasNotComponent,
         FoldLeft(has, FoldLeft(hasNot, root, m.has_not_tag), m.has_tag),
         m.has_not_component),
       m.has_component)

ApplyFilters(m, root) == IF root = Invalid THEN root ELSE FiltersOn(m, root, FALSE)
ApplyFiltersReference(m, root) == FiltersOn(m, root, TRUE)

Operand(cm) == IF cm.global THEN CreateFetch(cm) ELSE CreateScan(cm)

\* The components of an entity match, from left to right; a fetch is joined with everything.
Operands(m) ==
  FoldLeft(LAMBDA root, cm : LET right == Operand(cm) IN
             IF root = Invalid THEN right
             ELSE IF "FETCH" \in {root.op, right.op} THEN CreateCrossJoin(root, right)
             ELSE CreateJoin(root, right),
           Invalid, m.cmatches)

\* Mutant: the access mode is taken from the expanded component, which is always read.
IsCascading_OfExpand(m, match) ==
  \E j \in DOMAIN m.cmatches : \E k \in DOMAIN match.cmatches :
    ~m.cmatches[j].read_only /\ m.cmatches[j].type = match.cmatches[k].type

\* A system that writes the component it reads from the referenced entity must run on that
\* entity first.
IsCascading(m, match) ==
  \E j \in DOMAIN m.cmatches : \E k \in DOMAIN match.cmatches :
    ~match.cmatches[k].read_only /\ m.cmatches[j].type = match.cmatches[k].type

\* One side of the query: the entity matched, or the one that is referenced.
LocalRoot(m, match) ==
  LET own == ApplyFilters(m, Operands(m))
      ref_scan == CreateRefScan(m.ref_name)
  IN CASE ~m.from_expand -> own
       [] m.from_expand /\ own = Invalid -> ApplyFiltersReference(m, ref_scan)
       [] OTHER -> IF IsCascading(m, match) THEN CreateCascadingGather(own, ref_scan)
                                            ELSE CreateGather(own, ref_scan)

\* The entity match is joined with what is there; its predicates see the columns of both.
WithMatch(root, m, match) ==
  LET right == LocalRoot(m, match)
      joined == IF root = Invalid THEN right
                ELSE IF m.cmatches = <<>> THEN CreateLeftFilterJoin(root, right)
                ELSE CreateJoin(root, right)
  IN ApplyPredicateFilters(m, joined)

PlanMatch ==
  /\ status = "planning" /\ plan.todo > 0
  /\ plan' = [todo |-> plan.todo - 1,
              root |-> WithMatch(plan.root, stmt.ematches[plan.todo], Last(stmt.ematches))]
  /\ UNCHANGED <<chain, script, stmt, status>>

PlanForeach ==
  /\ status = "planning" /\ plan.todo = 0
  /\ plan' = [plan EXCEPT !.root = CreateForeach(@, stmt.system)]
  /\ status' = "generating"
  /\ UNCHANGED <<chain, script, stmt>>

---------------------------------------------------------------------------
(* What the generator refuses while it writes the loops.                   *)

\* A place in a tree is the path to it from the root.
Fields == {"left", "right", "child", "ref_table"}
OperatorAt(root, path) == FoldLeft(LAMBDA op, f : op[f], root, path)

Operators(root) ==
  LET from[path \in Seq(Fields)] ==
        LET op == OperatorAt(root, path)
        IN {op} \cup UNION {from[Append(path, f)] : f \in DOMAIN op \cap Fields}
  IN from[<<>>]

HasKind(op, kind) == \E i \in DOMAIN op.columns : op.columns[i].kind = kind

\* Mutant: only a plain gather looks at the access mode.
Gathers_Plain(op) == op.op = "GATHER"

Gathers(op) == op.op \in {"GATHER", "CASCADING_GATHER"}

GatherRefused(op) ==
  Gathers(op) /\ (HasKind(op.child, "ID")
                  \/ \E i \in DOMAIN op.child.columns : op.child.columns[i].mode # "READ")
ForeachRefused(op) == op.op = "FOREACH" /\ HasKind(op, "ID")
PredicateRefused(op) == op.op = "PREDICATE_FILTER" /\ HasKind(op, "ID")
ComponentFilterRefused(op) == op.op = "COMPONENT_FILTER"
TagFilterRefused(op) == op.op = "TAG_FILTER" /\ op.on_column /\ op.columns[1].kind # "ID"

IsRefused(op) == \/ GatherRefused(op) \/ ForeachRefused(op) \/ PredicateRefused(op)
                 \/ ComponentFilterRefused(op) \/ TagFilterRefused(op)

GenerateCode ==
  /\ status = "generating"
  /\ status' = IF \E op \in Operators(plan.root) : IsRefused(op) THEN "refused" ELSE "generated"
  /\ UNCHANGED <<chain, script, stmt, plan>>

---------------------------------------------------------------------------
PlanInit ==
  /\ chain \in Scripts
  /\ script = chain
  /\ stmt = NewStmt
  /\ status = "visiting"
  /\ plan = [root |-> Invalid, todo |-> 0]

PlanNext == VisitCall \/ ValidateStmt \/ PlanMatch \/ PlanForeach \/ GenerateCode
===========================================================================
