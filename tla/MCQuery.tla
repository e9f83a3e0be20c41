------------------------------ MODULE MCQuery ------------------------------
(***************************************************************************)
(* Four entities in two blocks, one for each of two threads.  The scripts  *)
(* are the kinds of query the README describes, and those that fcc         *)
(* refuses; every script runs on every state of the tables it looks at.    *)
(***************************************************************************)
EXTENDS Query

\* The calls of a script.
Match(types) == [fn |-> "match", types |-> types, arg |-> ""]
Expand(types) == [fn |-> "expand", types |-> types, arg |-> "parent"]
Filter(fn, arg) == [fn |-> fn, types |-> <<>>, arg |-> arg]
Foreach(params) == [fn |-> "foreach", types |-> params, arg |-> ""]
R(type) == [type |-> type, read_only |-> TRUE]
W(type) == [type |-> type, read_only |-> FALSE]

HasTag == Filter("has_tag", "x")
HasNotTag == Filter("has_not_tag", "x")
Predicate == Filter("filter", "p")

Tagged == <<Match(<<"A", "B">>), HasTag, Foreach(<<W("A"), R("B")>>)>>
Filtered == <<Match(<<"A">>), HasNotTag, Predicate, Foreach(<<W("A")>>), Filter("set_priority", 2)>>
WithGlobal == <<Match(<<"A", "G">>), HasTag, Foreach(<<W("A"), R("G")>>)>>
GlobalsOnly == <<Match(<<"G", "H">>), Foreach(<<W("G"), W("H")>>), Filter("set_post_frame", "")>>
Parents == <<Match(<<"A">>), Expand(<<"B">>), Foreach(<<W("A"), R("B")>>)>>
TaggedParents == <<Match(<<"A">>), Predicate, Expand(<<"B">>), HasTag, Foreach(<<W("A"), R("B")>>)>>
AnyParent == <<Match(<<"A">>), Expand(<<>>), HasTag, Foreach(<<W("A")>>)>>
NoTaggedParent == <<Match(<<"A">>), Expand(<<>>), HasNotTag, Foreach(<<W("A")>>)>>
Cascade == <<Match(<<"A">>), Expand(<<"A">>), Foreach(<<W("A"), R("A")>>)>>
CascadeTagged == <<Match(<<"B", "A">>), HasTag, Expand(<<"A">>), Foreach(<<R("B"), W("A"), R("A")>>)>>

Refused ==
  {<<Match(<<"A">>), Foreach(<<W("A"), R("B")>>)>>,
   <<Match(<<"A">>), Expand(<<"B">>), Expand(<<"B">>), Foreach(<<W("A"), R("B"), R("B")>>)>>,
   <<Match(<<"A", "G">>), Foreach(<<W("A"), W("G")>>)>>,
   <<Match(<<"A">>), Filter("has_component", "B"), Foreach(<<W("A")>>)>>,
   <<Match(<<"A">>), Filter("has_not_component", "B"), Foreach(<<W("A")>>)>>,
   <<Match(<<"A">>), Expand(<<"B">>), Foreach(<<W("A"), W("B")>>)>>,
   <<Match(<<"A">>), Expand(<<"A">>), Foreach(<<W("A"), W("A")>>)>>}

LocalScripts == {Tagged, Filtered, WithGlobal, GlobalsOnly}
GatherScripts == {Parents, TaggedParents, AnyParent, NoTaggedParent}
CascadeScripts == {Cascade, CascadeTagged}
MCScripts == LocalScripts \cup GatherScripts \cup CascadeScripts \cup Refused

---------------------------------------------------------------------------
World(a, b, globals, tagged, refs, holds) ==
  [has |-> ("A" :> a @@ "B" :> b), globals |-> globals, tags |-> ("x" :> tagged),
   refs |-> refs, holds |-> ("p" :> holds)]

\* References from some entities to any; the chains, trees, stars and cycles of four.
AllRefs == UNION {[sources -> Entities] : sources \in SUBSET Entities}
Some == {Entities, {0, 1, 3}, {2}}
NoRefs == <<>>

LocalWorlds ==
  {World(a, b, globals, tagged, NoRefs, {0, 3}) :
     a \in SUBSET Entities, b \in Some, globals \in {{"G", "H"}, {"G"}, {}},
     tagged \in {{}, {0, 2, 3}, {1}}}

GatherWorlds ==
  {World(a, b, {}, tagged, refs, {0, 3}) :
     a \in {Entities, {0, 1, 3}}, b \in {Entities, {1, 2}}, tagged \in {{0, 2, 3}}, refs \in AllRefs}

CascadeWorldsOf(refs) ==
  {World(a, b, {}, tagged, refs, {}) :
     a \in {Entities, {1, 2, 3}}, b \in {{0, 1, 3}, {2, 3}}, tagged \in {{0, 2, 3}}}

\* Every entity referenced has the component of the expand: fcc's cascade presumes it.
CascadeWorlds ==
  UNION {{w \in CascadeWorldsOf(refs) : Range(refs) \subseteq w.has["A"]} : refs \in AllRefs}

MCWorldsFor == [s \in MCScripts |-> IF s \in CascadeScripts THEN CascadeWorlds
                                    ELSE IF s \in GatherScripts THEN GatherWorlds
                                    ELSE LocalWorlds]

\* A cascade over every state of the tables.
FreeCascade == {Cascade}
FreeWorldsFor == [s \in FreeCascade |-> UNION {CascadeWorldsOf(refs) : refs \in AllRefs}]
===========================================================================
