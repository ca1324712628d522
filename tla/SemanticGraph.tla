--------------------------- MODULE SemanticGraph ----------------------------
(***************************************************************************)
(* The graph of semantic sources and the names a query may use on it:      *)
(* src/canonic/compiler/joins.py and the name binding of                   *)
(* compiler/_helpers.py.                                                   *)
(*                                                                         *)
(* A graph maps a source to its dimensions (name, aliases, column, period  *)
(* grain), its columns with their types, its measures, its grain and its   *)
(* declared joins (alias, target, whether it fans out).  A measure is      *)
(* additive ("sum", "max", or "other" when its aggregate is not supported  *)
(* yet), "semi" or "nonadditive"; over[m] lists the dimensions a "semi" m  *)
(* may not be summed across.  The alias is the join's role name when it    *)
(* has one, the target's name otherwise.  A reference is <<role, name>>,   *)
(* with NoRole for a bare name.                                            *)
(***************************************************************************)
EXTENDS Integers, Sequences, FiniteSets, SequencesExt

CONSTANTS
    Order,     \* every source name and alias, in the code's sorted order
    NoRole

Found(at, dim) == [is |-> "found", at |-> at, dim |-> dim]
NotFound == [is |-> "none"]
Several == [is |-> "ambiguous"]

-----------------------------------------------------------------------------
(* Reachability.                                                            *)

\* A source that is not declared ends a walk.
JoinsOf(g, s) == IF s \in DOMAIN g THEN g[s].joins ELSE <<>>

\* The first join to claim an alias wins.
Claims(joins, a) ==
    CHOOSE i \in DOMAIN joins : joins[i].as = a /\ \A k \in 1..(i - 1) : joins[k].as # a
NewAliases(joins, tree) ==
    LET first == SelectSeq([i \in DOMAIN joins |-> i],
                           LAMBDA i : joins[i].as \notin DOMAIN tree /\ Claims(joins, joins[i].as) = i)
    IN  [k \in DOMAIN first |-> joins[first[k]].as]

\* The n-th alias in the queue, if there is one, is visited.
Visit(g, bfs, n) ==
    LET tree == bfs.tree
        joins == JoinsOf(g, tree[bfs.queue[n]])
    IN  IF n > Len(bfs.queue) THEN bfs
        ELSE [tree |-> [a \in DOMAIN tree \cup {joins[i].as : i \in DOMAIN joins} |->
                          IF a \in DOMAIN tree THEN tree[a] ELSE joins[Claims(joins, a)].to],
              queue |-> bfs.queue \o NewAliases(joins, tree)]

\* build_alias_tree: which source each alias reachable from owner stands for.
AliasTree(g, owner) ==
    LET bfs[n \in 0..Len(Order)] ==
          IF n = 0 THEN [tree |-> [a \in {owner} |-> owner], queue |-> <<owner>>]
          ELSE Visit(g, bfs[n - 1], n)
    IN  bfs[Len(Order)].tree

\* _reachable_from: by source name, for callers that pass no alias tree.
SourceTree(g, owner) ==
    LET targets(s) == {JoinsOf(g, s)[i].to : i \in DOMAIN JoinsOf(g, s)}
        near[n \in 0..Len(Order)] ==
          IF n = 0 THEN {owner} ELSE near[n - 1] \cup UNION {targets(s) : s \in near[n - 1]}
    IN  [s \in near[Len(Order)] |-> s]

-----------------------------------------------------------------------------
(* Names.                                                                   *)

DimensionsNamed(src, n) == {d \in src.dims : d.name = n \/ n \in d.aliases}

\* _find_dimension with an owner: the owner's own dimensions shadow the joined ones.
FindDimension(g, ref, owner, tree, qualifies) ==
    LET role == ref[1]  name == ref[2]
        own == DimensionsNamed(g[owner], name)
        joined == UNION {{<<a, d>> : d \in DimensionsNamed(g[tree[a]], name)} :
                           a \in DOMAIN tree \ {owner}}
    IN  CASE role # NoRole /\ (~qualifies \/ role \notin DOMAIN tree) -> NotFound
          [] role # NoRole /\ qualifies /\ role \in DOMAIN tree ->
               LET ds == DimensionsNamed(g[tree[role]], name)
               IN  IF ds = {} THEN NotFound ELSE Found(role, CHOOSE d \in ds : TRUE)
          [] role = NoRole /\ own # {} -> Found(owner, CHOOSE d \in own : TRUE)
          [] OTHER ->
               IF joined = {} THEN NotFound
               ELSE IF Cardinality(joined) > 1 THEN Several
               ELSE LET c == CHOOSE c \in joined : TRUE IN Found(c[1], c[2])

\* _bind_name: dimension first, then a column of the owner, then a column of any
\* source at all, in name order.
BindName(g, ref, owner, tree, qualifies) ==
    LET dim == FindDimension(g, ref, owner, tree, qualifies)
        holders == {i \in DOMAIN Order : Order[i] \in DOMAIN g /\ ref[2] \in DOMAIN g[Order[i]].cols}
        first == CHOOSE i \in holders : \A k \in holders : i <= k
    IN  CASE dim.is = "ambiguous" -> Several
          [] dim.is = "found" -> [is |-> "found", at |-> dim.at, col |-> dim.dim.col]
          [] dim.is = "none" /\ ref[2] \in DOMAIN g[owner].cols ->
               [is |-> "found", at |-> owner, col |-> ref[2]]
          [] OTHER -> IF holders = {} THEN NotFound
                      ELSE [is |-> "found", at |-> Order[first], col |-> ref[2]]

\* _qualify_columns for one column: a qualified name is a dimension of the role, a
\* physical column of the role's source, or refused; without an alias tree it
\* passes through as written.
Qualify(g, ref, owner, tree, qualifies) ==
    LET role == ref[1]
        dim == FindDimension(g, ref, owner, tree, qualifies)
    IN  CASE role = NoRole -> BindName(g, ref, owner, tree, qualifies)
          [] role # NoRole /\ ~qualifies -> [is |-> "found", at |-> role, col |-> ref[2]]
          [] OTHER ->
               IF dim.is = "found" THEN [is |-> "found", at |-> role, col |-> dim.dim.col]
               ELSE IF role \in DOMAIN tree /\ ref[2] \in DOMAIN g[tree[role]].cols
               THEN [is |-> "found", at |-> role, col |-> ref[2]]
               ELSE NotFound

-----------------------------------------------------------------------------
(* Join planning.                                                           *)

\* The aliases that a sequence of edges [as, to, fan, from] joins
Joined(owner, edges) == {owner} \cup {edges[i].as : i \in DOMAIN edges}

\* Where a path ends, and at which source
EndOf(owner, path) == IF path = <<>> THEN owner ELSE path[Len(path)].as
SourceAt(owner, path) == IF path = <<>> THEN owner ELSE path[Len(path)].to

\* The paths one join longer that come back to no alias
Longer(g, owner, target, path) ==
    LET joins == JoinsOf(g, SourceAt(owner, path))
        edge(j) == [as |-> j.as, to |-> j.to, fan |-> j.fan, from |-> EndOf(owner, path)]
    IN  IF EndOf(owner, path) = target THEN {}
        ELSE {Append(path, edge(joins[i])) : i \in {i \in DOMAIN joins : joins[i].as \notin Joined(owner, path)}}

WithLonger(g, owner, target, paths) ==
    paths \cup UNION {Longer(g, owner, target, path) : path \in paths}

\* _all_simple_paths: a simple path is no longer than there are aliases
SimplePaths(g, owner, target) ==
    LET paths[n \in 0..Len(Order)] ==
          IF n = 0 THEN {<<>>} ELSE WithLonger(g, owner, target, paths[n - 1])
    IN  {path \in paths[Len(Order)] : EndOf(owner, path) = target}

\* _filter_by_via
ThroughVia(paths, via) ==
    {p \in paths : Len(via) <= Len(p) /\ \A i \in DOMAIN via : p[i].as = via[i]}

\* The edges of a path are added in turn, but for those whose alias is joined already.
AddEdge(owner, edges, e) == IF e.as \in Joined(owner, edges) THEN edges ELSE Append(edges, e)
AddPath(owner, edges, path) ==
    LET added[k \in 0..Len(path)] ==
          IF k = 0 THEN edges ELSE AddEdge(owner, added[k - 1], path[k])
    IN  added[Len(path)]

\* plan_joins for one more target; plan is [refused, edges].
JoinTarget(g, owner, via, plan, target) ==
    LET all == SimplePaths(g, owner, target)
        paths == IF Cardinality(all) > 1 /\ via # <<>> THEN ThroughVia(all, via) ELSE all
    IN  IF plan.refused # "" \/ target \in Joined(owner, plan.edges) THEN plan
        ELSE IF paths = {} THEN [plan EXCEPT !.refused = "unreachable"]
        ELSE IF Cardinality(paths) > 1 THEN [plan EXCEPT !.refused = "ambiguous_path"]
        ELSE [plan EXCEPT !.edges = AddPath(owner, @, CHOOSE path \in paths : TRUE)]

\* Targets are taken in sorted order.
JoinNext(g, owner, targets, via, plan, target) ==
    IF target \in targets THEN JoinTarget(g, owner, via, plan, target) ELSE plan
NoJoins == [refused |-> "", edges |-> <<>>]
PlanJoins(g, owner, targets, via) ==
    LET plan[n \in 0..Len(Order)] ==
          IF n = 0 THEN NoJoins
          ELSE JoinNext(g, owner, targets, via, plan[n - 1], Order[n])
    IN  plan[Len(Order)]
=============================================================================
