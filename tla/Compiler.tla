------------------------------ MODULE Compiler ------------------------------
(***************************************************************************)
(* From a semantic query to the selects of its SQL: compiler/pipeline.py,  *)
(* leaf.py, the strategies' plan_metric, and the fusion in compose.py.     *)
(*                                                                         *)
(* A query is [metrics, dims, filters, range, context, via]: dims and      *)
(* filters are references, range the dimension of its time range or        *)
(* NoRange.  A leaf stands for one select: the aliases it scans, the       *)
(* predicates of its WHERE, the columns it groups by and aggregates.  A    *)
(* predicate is [from, of, at, col, shift]: what demanded it, on which     *)
(* alias and column, and the offsets its column is moved by.  A strategy   *)
(* asks for its leaves in the order the code plans them; an ask or a plan  *)
(* with why # "" is the error the code raises there.                       *)
(***************************************************************************)
EXTENDS Contracts

CONSTANTS NoRange, NoMetric, NoContext,
          Requests      \* <<project, queries, callers>>: what a behaviour may start with

\* Order lists every alias of the projects.
ASSUME OrderAssumption ==
    /\ Len(Order) \in Nat /\ DOMAIN Order = 1..Len(Order)
    /\ \A r \in Requests : \A s \in DOMAIN r[1].g : \A i \in DOMAIN r[1].g[s].joins :
          r[1].g[s].joins[i].as \in Range(Order)

\* What the loaders return and what is asked for are lists.
ASSUME RequestAssumption ==
    \A r \in Requests :
      /\ InShape(r[1])
      /\ \A q \in r[2] : Len(q.metrics) \in Nat /\ q.metrics = [k \in 1..Len(q.metrics) |-> q.metrics[k]]

VARIABLES
    project,   \* the project validate.py accepted
    query, caller,
    stage,     \* the stage of compile() that comes next
    authz,     \* the caller's EffectivePolicy
    bound,     \* raw_bindings: what each queried name resolved to
    planned,   \* the MetricLeaves planned so far
    related,   \* the dimensions and metrics suggested with the answer
    answer     \* [why, selects, probes]

vars == <<project, query, caller, stage, authz, bound, planned, related, answer>>

Refuse(why) == [why |-> why]
Planned(leaf) == [why |-> "", leaf |-> leaf]

\* The filters plan_leaf sees: apply_time_range adds the range's bounds to them.
FiltersOf(q) == q.filters \cup (IF q.range = NoRange THEN {} ELSE {q.range})

-----------------------------------------------------------------------------
(* Binding the names of one leaf.                                           *)

Tree(p, owner) == AliasTree(p.g, owner)
Find(p, owner, ref) == FindDimension(p.g, ref, owner, Tree(p, owner), TRUE)
Qualified(p, owner, ref) == Qualify(p.g, ref, owner, Tree(p, owner), TRUE)

\* _resolve_shifts: the offsets on one column, in nesting order
ShiftsOn(p, owner, shifts, at, col) ==
    LET hits == SelectSeq(shifts, LAMBDA s : LET f == Find(p, owner, s.time)
                                             IN  f.is = "found" /\ f.at = at /\ f.dim.col = col)
    IN  [k \in DOMAIN hits |-> hits[k].delta]

\* _bind_filters, one predicate per reference; shifts is empty for prefilters
Bind(p, owner, refs, from, shifts) ==
    [r \in refs |->
       LET b == Qualified(p, owner, r)
       IN  IF b.is # "found" THEN b
           ELSE [is |-> "found", from |-> from, of |-> r, at |-> b.at, col |-> b.col,
                 shift |-> ShiftsOn(p, owner, shifts, b.at, b.col)]]

AllFound(preds) == \A r \in DOMAIN preds : preds[r].is = "found"

\* _denied_filter_columns
DeniedColumns(p, policy) ==
    UNION {{<<s, d.col>> : d \in {d \in p.g[s].dims : ~Allowed(policy.dims, d.name)}} : s \in DOMAIN p.g}

\* _guardrail_join_sources and _enforce_guardrails read the same filters, the first
\* with the alias tree and the second without.
Mandatory(p, owner, measure) == RulesFor(p, "mandatory_filter", owner, measure, NoContext)

GuardrailAliases(p, owner, measure) ==
    UNION {{Qualified(p, owner, r) : r \in rule.refs} :
             rule \in Mandatory(p, owner, measure)}

GuardrailPredicates(p, owner, measure) ==
    UNION {{LET b == Qualify(p.g, r, owner, SourceTree(p.g, owner), FALSE)
            IN  IF b.is # "found" THEN b
                ELSE [is |-> "found", from |-> "guardrail", of |-> rule.id, at |-> b.at,
                      col |-> b.col, shift |-> <<>>] : r \in rule.refs} :
             rule \in Mandatory(p, owner, measure)}

\* _population_filter_conditions over the enclosing and the metric's own filters
PopulationPredicate(p, owner, id, n) ==
    LET b == Qualified(p, owner, <<NoRole, n>>)
    IN  IF b.is # "found" THEN b
        ELSE [is |-> "found", from |-> "population", of |-> id, at |-> b.at, col |-> b.col, shift |-> <<>>]

PopulationPredicates(p, owner, pops) ==
    UNION {{PopulationPredicate(p, owner, pop.id, n) : n \in pop.names} : pop \in pops}

\* Mutant: joined aliases are left unscoped.
TenantPredicates_OwnerOnly(p, owner, joins, who, policy) ==
    LET tree == Tree(p, owner)
    IN  IF policy.unscoped \/ who.tenants = {} THEN {}
        ELSE {[is |-> "found", from |-> "tenant", of |-> who.tenants, at |-> a,
               col |-> ScopeOf(p, tree[a]).column, shift |-> <<>>] :
                a \in {a \in {owner} : ScopeOf(p, tree[a]).is = "scoped"}}

\* _tenant_conditions: every scanned alias of a scoped source
TenantPredicates(p, owner, joins, who, policy) ==
    LET tree == Tree(p, owner)
    IN  IF policy.unscoped \/ who.tenants = {} THEN {}
        ELSE {[is |-> "found", from |-> "tenant", of |-> who.tenants, at |-> a,
               col |-> ScopeOf(p, tree[a]).column, shift |-> <<>>] :
                a \in {a \in Joined(owner, joins) : ScopeOf(p, tree[a]).is = "scoped"}}

\* An undeclared source is refused under deny, served with a warning otherwise.
TenantMissing(p, owner, joins, policy) ==
    /\ ~policy.unscoped
    /\ p.tenancy # NoPolicy
    /\ p.tenancy.undeclared = "deny"
    /\ \E a \in Joined(owner, joins) : ScopeOf(p, Tree(p, owner)[a]).is = "undeclared"

\* _tenant_literals: a tenant that is no number cannot match a numeric column.
TenantMismatch(p, owner, joins, who, policy) ==
    LET tree == Tree(p, owner)
    IN  /\ ~policy.unscoped
        /\ ~(who.tenants \subseteq who.numbers)
        /\ \E a \in Joined(owner, joins) :
             LET scope == ScopeOf(p, tree[a])
             IN  scope.is = "scoped" /\ p.g[tree[a]].cols[scope.column] = "int"

-----------------------------------------------------------------------------
(* One leaf.                                                                *)

\* Additive measures survive a fan-out by deduplicating owner rows; a leaf whose
\* builder says "refuse", or a measure that is not additive, does not.
FanRefused(p, spec, fan) ==
    fan /\ \/ spec.fans = "refuse"
           \/ spec.fans = "dedup" /\ p.g[spec.owner].measures[spec.measure] \notin Additive

\* _enforce_safety_floor: an aggregate that is not supported, or a semi-additive measure
\* that would be summed across a dimension it is not additive over.
Unsupported(p, spec, names) ==
    LET source == p.g[spec.owner]
        kind == source.measures[spec.measure]
    IN  /\ spec.fans = "dedup"
        /\ \/ kind = "other"
           \/ kind = "semi" /\ ~(source.over[spec.measure] \subseteq Range(names))

\* The rules of a leaf without a builder take effect when it groups by time.
FinalityOf(p, spec, dims) ==
    {f \in FinalityFor(p, spec.rule) :
       \E k \in DOMAIN dims : p.g[Tree(p, spec.owner)[dims[k].at]].cols[dims[k].dim.col] \in Temporal}

\* _build_finality_union, one branch: the realization replaces the owner, and joins
\* are planned afresh to the sources behind the dimensions' and predicates' aliases.  The
\* tenant predicates are the owner's, requalified like the others.
Realize(p, owner, measure, names, preds, r) ==
    LET tree == Tree(p, r.source)
        at(k) == Find(p, r.source, <<NoRole, names[k]>>)
        aliases == {at(k).at : k \in {k \in DOMAIN names : at(k).is = "found"}}
                     \cup {x.at : x \in preds}
        joins == PlanJoins(p.g, r.source, {tree[a] : a \in (aliases \cap DOMAIN tree) \ {r.source}}, <<>>)
        fan == \E k \in DOMAIN joins.edges : joins.edges[k].fan
    IN  IF measure \notin DOMAIN p.g[r.source].measures THEN Refuse("unresolved")
        ELSE IF \E k \in DOMAIN names : at(k).is # "found" THEN Refuse("unreachable")
        ELSE IF joins.refused # "" THEN Refuse(joins.refused)
        ELSE IF fan /\ p.g[r.source].measures[measure] \notin Additive THEN Refuse("fanout")
        ELSE [why |-> "", owner |-> r.source, role |-> r.role, fan |-> fan,
              preds |-> {[x EXCEPT !.at = IF @ = owner THEN r.source ELSE @] : x \in preds},
              scans |-> Joined(r.source, joins.edges)]

\* plan_leaf for one ask.  Its spec is [owner, measure, column, strategy, params, filters,
\* pops, rule, fans, fusable, reads, native]: what the strategy asks for.  First the names
\* of the leaf, all relative to its owner.
Names(p, ask) ==
    LET owner == ask.spec.owner
        shifts == ask.ctx.shifts
    IN  [shifts |-> {Find(p, owner, shifts[k].time) : k \in DOMAIN shifts},
         dims |-> [k \in DOMAIN ask.q.dims |-> Find(p, owner, ask.q.dims[k])],
         user |-> Bind(p, owner, ask.spec.filters, "user", shifts),
         pre |-> Bind(p, owner, UNION {shifts[k].pre : k \in DOMAIN shifts}, "prefilter", <<>>),
         guards |-> GuardrailAliases(p, owner, ask.spec.measure)]

\* A user filter on an alias of the tree whose column the policy hides
Denied(tree, user, hidden) == \E r \in DOMAIN user : <<tree[user[r].at], user[r].col>> \in hidden

\* The aliases that plan_joins must reach
Needed(n) ==
    {n.dims[k].at : k \in DOMAIN n.dims} \cup {n.user[r].at : r \in DOMAIN n.user}
      \cup {n.pre[r].at : r \in DOMAIN n.pre} \cup {b.at : b \in n.guards}

\* _apply_metric_scoping
MetricPredicates(p, ask) ==
    PopulationPredicates(p, ask.spec.owner, ask.ctx.pops \cup ask.spec.pops)
      \cup GuardrailPredicates(p, ask.spec.owner, ask.spec.measure)

\* The select: the union of the realizations when a finality rule applies, otherwise what
\* the builder makes of it.  What refuses a realization refuses the leaf.
EmitLeaf(p, ask, dims, joins, preds, final, realized) ==
    LET spec == ask.spec
        shifts == ask.ctx.shifts
        names == [k \in DOMAIN dims |-> dims[k].dim.name]
        fan == \E k \in DOMAIN joins : joins[k].fan
        failed == {b \in realized : b.why # ""}
    IN  IF failed # {} THEN Refuse((CHOOSE b \in failed : TRUE).why)
        ELSE IF final = {} /\ FanRefused(p, spec, fan) THEN Refuse("fanout")
        ELSE IF final = {} /\ Unsupported(p, spec, names) THEN Refuse("unsupported")
        ELSE IF spec.native # NoMetric /\ Range(names) # spec.native THEN Refuse("native_grain")
        ELSE Planned([owner |-> spec.owner, strategy |-> spec.strategy, column |-> spec.column,
                      measure |-> spec.measure, fan |-> fan, fusable |-> spec.fusable,
                      params |-> <<spec.params, [k \in DOMAIN shifts |-> <<shifts[k].time, shifts[k].delta>>]>>,
                      dims |-> [k \in DOMAIN dims |->
                                  [at |-> dims[k].at, col |-> dims[k].dim.col, name |-> names[k],
                                   shift |-> ShiftsOn(p, spec.owner, shifts, dims[k].at, dims[k].dim.col)]],
                      preds |-> preds, joins |-> joins, reads |-> spec.reads,
                      scans |-> Joined(spec.owner, joins), rules |-> final, branches |-> realized])

Realized(p, owner, measure, names, preds, final) ==
    UNION {{Realize(p, owner, measure, names, preds, r) : r \in Range(f.realizations)} : f \in final}

BuildLeaf(p, ask, dims, joins, preds, final) ==
    EmitLeaf(p, ask, dims, joins, preds, final,
             Realized(p, ask.spec.owner, ask.spec.measure, [k \in DOMAIN dims |-> dims[k].dim.name],
                      preds, final))

\* Tenant predicates come before the metric's own, which come before finality.
ScopeLeaf(p, who, policy, ask, n, joins, metric) ==
    LET owner == ask.spec.owner
    IN  IF joins.refused # "" THEN Refuse(joins.refused)
        ELSE IF TenantMissing(p, owner, joins.edges, policy) THEN Refuse("tenant")
        ELSE IF TenantMismatch(p, owner, joins.edges, who, policy) THEN Refuse("tenant_unresolved")
        ELSE IF \E b \in metric : b.is # "found" THEN Refuse("unreachable")
        ELSE BuildLeaf(p, ask, n.dims, joins.edges,
                       Range(n.user) \cup Range(n.pre) \cup metric
                         \cup TenantPredicates(p, owner, joins.edges, who, policy),
                       FinalityOf(p, ask.spec, n.dims))

JoinLeaf(p, who, policy, ask, n) ==
    LET owner == ask.spec.owner
    IN  IF \/ \E f \in n.shifts : f.is # "found"
           \/ \E k \in DOMAIN n.dims : n.dims[k].is # "found"
           \/ ~AllFound(n.user) \/ ~AllFound(n.pre)
           \/ \E r \in DOMAIN n.user : n.user[r].at \notin DOMAIN Tree(p, owner)
        THEN Refuse("unreachable")
        ELSE IF Denied(Tree(p, owner), n.user, DeniedColumns(p, policy)) THEN Refuse("denied")
        ELSE IF \E b \in n.guards : b.is # "found" THEN Refuse("unreachable")
        ELSE ScopeLeaf(p, who, policy, ask, n,
                       PlanJoins(p.g, owner, Needed(n) \ {owner}, ask.q.via), MetricPredicates(p, ask))

PlanLeaf(p, who, policy, ask) ==
    IF ask.why # "" THEN ask ELSE JoinLeaf(p, who, policy, ask, Names(p, ask))

-----------------------------------------------------------------------------
(* Strategies: what each kind of binding asks of plan_leaf.                  *)

OwnPop(b) == IF Has(b.ref, "pop") THEN {b.ref.pop} ELSE {}

Ask(b, column, strategy, q) ==
    [owner |-> b.ref.source, measure |-> Get(b.ref, "measure", NoMetric), column |-> column,
     strategy |-> strategy, params |-> <<>>, filters |-> FiltersOf(q), pops |-> OwnPop(b),
     rule |-> NoMetric, fans |-> "dedup", fusable |-> TRUE, reads |-> {}, native |-> NoMetric]

\* A request to plan one leaf, under the offsets and populations around the metric.
Leaf(q, ctx, spec) == [why |-> "", q |-> q, ctx |-> ctx, spec |-> spec]

\* simple_additive.plan_metric: the finality rule is looked up under the queried name.
PlanSingle(q, ctx, b, name) ==
    <<Leaf(q, ctx, [Ask(b, name, "single", q) EXCEPT !.rule = name])>>

\* semi_additive.plan_metric
PlanSemiAdditive(q, ctx, b, name) ==
    <<Leaf(q, ctx, [Ask(b, name, "semi_additive", q) EXCEPT
                      !.params = <<b.ref.column>>, !.fans = "refuse", !.fusable = FALSE])>>

\* recompute.plan_metric: the counted column is bound like any bare name, and
\* stands in for the measure.
PlanRecompute(p, q, ctx, b, name, pops) ==
    LET counted == BindName(p.g, <<NoRole, b.ref.column>>, b.ref.source, Tree(p, b.ref.source), TRUE)
    IN  IF counted.is # "found" THEN <<Refuse("unreachable")>>
        ELSE <<Leaf(q, ctx, [Ask(b, name, b.ref.kind, q) EXCEPT
                               !.measure = counted.col, !.params = <<b.ref.column>>, !.pops = @ \cup pops,
                               !.fans = IF b.ref.kind = "percentile" THEN "refuse" ELSE "recount",
                               !.fusable = FALSE, !.reads = {<<counted.at, counted.col>>}])>>

\* opaque.plan_metric: only at its native grain
PlanOpaque(q, ctx, b, name) ==
    <<Leaf(q, ctx, [Ask(b, name, "opaque", q) EXCEPT
                      !.fans = "asis", !.fusable = FALSE, !.native = b.ref.grain])>>

\* _split_filters: the filters that read the order columns only decide what is shown
Visibility(p, owner, filters, columns) ==
    {r \in filters : LET f == Qualified(p, owner, r)
                     IN  f.is = "found" /\ <<f.at, f.col>> \in columns}

\* cumulative.plan_metric, _order_dimensions
PlanCumulative(p, q, ctx, b, name) ==
    LET owner == b.ref.source
        order == {Find(p, owner, b.ref.order[k]) : k \in DOMAIN b.ref.order}
        grouped == {Find(p, owner, q.dims[k]) : k \in DOMAIN q.dims}
        shown == IF Has(b.ref, "history")
                 THEN Visibility(p, owner, FiltersOf(q), {<<f.at, f.dim.col>> : f \in order}) ELSE {}
    IN  IF ~(order \subseteq grouped) THEN <<Refuse("order_dimension")>>
        ELSE <<Leaf(q, ctx, [Ask(b, name, "cumulative", q) EXCEPT
                               !.params = <<b.ref.order, Has(b.ref, "history"), shown>>,
                               !.filters = @ \ shown])>>

\* rolling.plan_metric, _requested_on_column: one requested dimension on the day column
PlanRolling(p, q, ctx, b, name) ==
    LET owner == b.ref.source
        day == Find(p, owner, b.ref.order[1])
        on == {k \in DOMAIN q.dims : LET f == Find(p, owner, q.dims[k])
                                     IN  f.is = "found" /\ f.at = day.at /\ f.dim.col = day.dim.col}
        shown == Visibility(p, owner, FiltersOf(q), {<<day.at, day.dim.col>>})
    IN  IF \E k \in DOMAIN q.dims : Find(p, owner, q.dims[k]).is # "found" THEN <<Refuse("unreachable")>>
        ELSE IF Cardinality(on) # 1 THEN <<Refuse("order_dimension")>>
        ELSE <<Leaf(q, ctx, [Ask(b, name, "rolling", q) EXCEPT
                               !.params = <<shown>>, !.filters = @ \ shown, !.fusable = FALSE])>>

\* composite._plan_leaf for both components; the composite's filter narrows each
PlanComposite(p, q, ctx, b) ==
    LET part(k) ==
          LET c == b.parts[k]
          IN  CASE c.ref.kind = "distinct_count" -> PlanRecompute(p, q, ctx, c, c.metric, OwnPop(b))
                [] c.ref.kind = "single" ->
                     <<Leaf(q, ctx, [Ask(c, c.metric, "single", q) EXCEPT
                                       !.rule = c.metric, !.pops = @ \cup OwnPop(b)])>>
                [] OTHER -> <<Refuse("component_kind")>>
    IN  part(1) \o part(2)

\* conversion.plan_metric: the events of the conversion side, unfiltered by the query,
\* and the base events they are attributed to.
PlanConversion(q, ctx, b, name) ==
    LET side(k) == b.parts[k]
        measured(k) == IF side(k).ref.kind = "single" THEN side(k).ref.measure ELSE side(k).ref.column
        bare == [q EXCEPT !.dims = <<>>, !.filters = {}, !.range = NoRange]
        events == [Ask(side(2), name, "conversion_events", bare) EXCEPT
                     !.measure = measured(2), !.fans = "refuse", !.fusable = FALSE]
        leaf == [Ask(side(1), name, "conversion", q) EXCEPT
                   !.measure = measured(1), !.fans = "refuse", !.fusable = FALSE,
                   !.params = <<side(2).metric, b.ref.entity, b.ref.times>>]
    IN  IF ctx.shifts # <<>> THEN <<Refuse("conversion_under_offset")>>
        ELSE <<Leaf(bare, ctx, events), Leaf(q, ctx, leaf)>>

\* offset._prefilters: the time range, moved back, when it is on the shifted column of
\* the first leaf
Prefilters(p, q, b, owner) ==
    LET moved == Find(p, owner, b.ref.time)
        ranged == Find(p, owner, q.range)
    IN  IF q.range # NoRange /\ moved.is = "found" /\ ranged.is = "found"
           /\ <<moved.at, moved.dim.col>> = <<ranged.at, ranged.dim.col>>
        THEN {q.range} ELSE {}

\* The source of the first leaf that has one, depth first.
FirstSource(p, b) ==
    LET first[n \in 0..Len(p.bindings)] ==
          IF n = 0 THEN b
          ELSE LET above == first[n - 1] IN IF above.parts = <<>> THEN above ELSE above.parts[1]
    IN  first[Len(p.bindings)].ref.source

\* time_shift and enclosing_population around what an offset or derived metric reads
Enclose(ctx, b, shifts) ==
    [ctx EXCEPT !.shifts = @ \o shifts, !.pops = @ \cup OwnPop(b)]

\* A metric to be planned in some context; open while what it reads is not looked at
Reading(ctx, b, name) == [state |-> "open", ctx |-> ctx, b |-> b, name |-> name]

\* offset.plan_metric and derived.plan_metric plan what they read in their place, and
\* conversion.plan_metric its base metric after itself.
Unfold(p, q, r) ==
    LET within(k, ctx) == Reading(ctx, r.b.parts[k], r.b.parts[k].metric)
        shift == [time |-> r.b.ref.time, delta |-> r.b.ref.delta,
                  pre |-> Prefilters(p, q, r.b, FirstSource(p, r.b))]
        closed == [r EXCEPT !.state = "closed"]
        kind == IF r.state = "open" THEN r.b.ref.kind ELSE "closed"
    IN  CASE kind = "offset" -> <<within(1, Enclose(r.ctx, r.b, <<shift>>))>>
          [] kind = "derived" -> [k \in DOMAIN r.b.parts |-> within(k, Enclose(r.ctx, r.b, <<>>))]
          [] kind = "conversion" -> <<closed, within(1, r.ctx)>>
          [] OTHER -> <<closed>>

UnfoldAll(p, q, outer) == FlattenSeq([i \in DOMAIN outer |-> Unfold(p, q, outer[i])])
Readings(p, q, ctx, b, name) ==
    LET readings[n \in 0..Len(p.bindings)] ==
          IF n = 0 THEN <<Reading(ctx, b, name)>> ELSE UnfoldAll(p, q, readings[n - 1])
    IN  readings[Len(p.bindings)]

\* The plan_metric of the other kinds
PlanReading(p, q, ctx, b, name) ==
    LET kind == b.ref.kind
    IN  CASE kind = "conversion" -> PlanConversion(q, ctx, b, name)
          [] kind \in Composite -> PlanComposite(p, q, ctx, b)
          [] kind = "semi_additive" -> PlanSemiAdditive(q, ctx, b, name)
          [] kind \in Recompute -> PlanRecompute(p, q, ctx, b, name, {})
          [] kind = "cumulative" ->
               IF NeedsDaySpine(b.ref) THEN PlanRolling(p, q, ctx, b, name)
               ELSE PlanCumulative(p, q, ctx, b, name)
          [] kind = "opaque" -> PlanOpaque(q, ctx, b, name)
          [] kind = "single" -> PlanSingle(q, ctx, b, name)

\* pipeline._plan_metric
PlanMetric(p, q, ctx, b, name) ==
    LET readings == Readings(p, q, ctx, b, name)
    IN  FlattenSeq([i \in DOMAIN readings |->
                      PlanReading(p, q, readings[i].ctx, readings[i].b, readings[i].name)])

-----------------------------------------------------------------------------
(* Composition.                                                             *)

\* finality_key: the watermark, the realizations' sources and the result flag, and not
\* which source is the final one
FinalityKey(f) ==
    LET of(s) == {k \in DOMAIN f.realizations : f.realizations[k].source = s}
    IN  <<f.watermark, [s \in {r.source : r \in Range(f.realizations)} |-> Cardinality(of(s))], f.flag>>

\* LeafKey.fusion_key; equal conditions of different origin are told apart here.
FusionKey(leaf) ==
    <<leaf.owner, leaf.strategy, leaf.dims, leaf.preds, leaf.joins,
      {FinalityKey(f) : f \in leaf.rules}, leaf.params>>

\* Mutant: leaves with different filters share a select.
SelectKey_NoFilters(leaf) ==
    <<leaf.owner, leaf.strategy, leaf.dims, leaf.joins, leaf.params,
      IF leaf.fusable THEN <<>> ELSE <<leaf.measure, leaf.column>>>>

\* What decides the select a leaf is computed in: its own when it may not be fused
SelectKey(leaf) ==
    <<FusionKey(leaf), IF leaf.fusable THEN <<>> ELSE <<leaf.measure, leaf.column>>>>

\* _fuse: leaves of one key share the select of the first, and a column name is added once.
FirstOf(leaves, i) ==
    CHOOSE j \in 1..i : /\ SelectKey(leaves[j]) = SelectKey(leaves[i])
                        /\ \A k \in 1..(j - 1) : SelectKey(leaves[k]) # SelectKey(leaves[i])
Together(leaves, i, j) ==
    FirstOf(leaves, i) = FirstOf(leaves, j) /\ leaves[i].column = leaves[j].column
AdderOf(leaves, i) ==
    CHOOSE j \in 1..i : Together(leaves, j, i) /\ \A k \in 1..(j - 1) : ~Together(leaves, k, i)
Fuse(leaves) ==
    [i \in DOMAIN leaves |-> [select |-> leaves[FirstOf(leaves, i)],
                              measure |-> leaves[AdderOf(leaves, i)].measure]]

\* latest_period_probes: MAX of a filtered, ungrouped time dimension, from the first
\* plain leaf
Probes(p, q, leaves) ==
    LET plain == {i \in DOMAIN leaves : /\ leaves[i].strategy = "single" /\ leaves[i].branches = {}
                                        /\ leaves[i].params[2] = <<>>}
        anchor == leaves[CHOOSE i \in plain : \A j \in plain : i <= j]
        grouped == {<<anchor.dims[k].at, anchor.dims[k].col>> : k \in DOMAIN anchor.dims}
        timed == {x \in anchor.preds :
                    /\ x.from = "user"
                    /\ \E d \in p.g[Tree(p, anchor.owner)[x.at]].dims : d.col = x.col /\ d.grain # "none"}
    IN  IF plain = {} THEN {}
        ELSE {<<x.at, x.col>> : x \in {x \in timed : /\ <<x.at, x.col>> \notin grouped
                                                     /\ x.at # anchor.owner => ~anchor.fan}}

-----------------------------------------------------------------------------
(* Suggestions: _related.                                                    *)

\* reachable_dimension_names: qualified when the name is under several aliases
Reachable(p, s) ==
    LET tree == Tree(p, s)
        holders(n) == {a \in DOMAIN tree : n \in DimNames(p, tree[a])}
    IN  UNION {{<<IF Cardinality(holders(n)) > 1 THEN a ELSE NoRole, n>> : n \in DimNames(p, tree[a])} :
                 a \in DOMAIN tree}

\* _addable_everywhere looks the unqualified name up.
AddableEverywhere(p, entry, sources) ==
    \A s \in sources : Find(p, s, <<NoRole, entry[2]>>).is = "found"

\* _query_references_dimension
Referenced(q, entry) ==
    \/ entry \in Range(q.dims) \/ <<NoRole, entry[2]>> \in Range(q.dims)
    \/ <<NoRole, entry[2]>> \in FiltersOf(q)

\* metrics_for_source: the bindings that name the source themselves
MetricsOn(p, s) ==
    {p.bindings[i].metric : i \in {i \in Active(p) : /\ p.bindings[i].ref.kind \in SourceBound
                                                    /\ p.bindings[i].ref.source = s}}

Related(p, q, pol, bs) ==
    LET sources == UNION {{l.ref.source : l \in GroupedLeaves(p, bs[k])} : k \in DOMAIN bs}
    IN  [dims |-> {e \in UNION {Reachable(p, s) : s \in sources} :
                     ~Referenced(q, e) /\ Allowed(pol.dims, e[2]) /\ AddableEverywhere(p, e, sources)},
         metrics |-> {m \in UNION {MetricsOn(p, s) : s \in sources} :
                        m \notin Range(q.metrics) /\ Allowed(pol.metrics, m)}]

-----------------------------------------------------------------------------
(* compile(), stage by stage.                                                *)

NoAnswer == [why |-> "", selects |-> <<>>, probes |-> {}]

\* Nothing is planned before every metric is resolved, and a refusal drops the plan.
Fail(why) ==
    /\ stage' = "done"
    /\ answer' = [NoAnswer EXCEPT !.why = why]
    /\ planned' = <<>>

Init ==
    /\ \E r \in Requests : Accepted(r[1]) /\ project = r[1] /\ query \in r[2] /\ caller \in r[3]
    /\ stage = "principal"
    /\ authz = PolicyOf(project, caller)
    /\ bound = <<>> /\ planned = <<>>
    /\ related = [dims |-> {}, metrics |-> {}]
    /\ answer = NoAnswer

\* Stage 0: bind the principal.
BindPrincipal ==
    /\ stage = "principal"
    /\ IF /\ project.tenancy # NoPolicy /\ ~authz.unscoped /\ caller.tenants = {}
          /\ project.tenancy.missing # "allow_unscoped"
       THEN Fail("tenant_unresolved")
       ELSE stage' = "resolve" /\ UNCHANGED <<planned, answer>>
    /\ UNCHANGED <<project, query, caller, authz, bound, related>>

\* Stage 1: a denied metric is reported like an unknown one, and before ambiguity.
ResolveMetrics ==
    LET names == query.metrics
        result == [k \in DOMAIN names |->
                     IF Allowed(authz.metrics, names[k]) THEN ResolveMetric(project, names[k])
                     ELSE Unresolved(names[k])]
        all(is) == \A k \in DOMAIN names : result[k].is # is
    IN  /\ stage = "resolve"
        /\ IF names = <<>> \/ ~all("unresolved")
           THEN Fail("unresolved") /\ UNCHANGED <<bound, related>>
           ELSE IF ~all("ambiguous")
           THEN Fail("ambiguous") /\ UNCHANGED <<bound, related>>
           ELSE IF \E k \in DOMAIN query.dims : ~Allowed(authz.dims, query.dims[k][2])
           THEN Fail("unreachable") /\ UNCHANGED <<bound, related>>
           ELSE /\ stage' = "enforce" /\ bound' = result
                /\ related' = Related(project, query, authz, result)
                /\ UNCHANGED <<planned, answer>>
        /\ UNCHANGED <<project, query, caller, authz>>

\* _matched_alone: what an offset, derived or conversion metric reads, else itself
Through(b) == IF b.ref.kind \in {"offset", "derived", "conversion"} THEN Range(b.parts) ELSE {}
MatchedAlone(b) ==
    {c \in Reads(project, b, Through) : c.ref.kind \notin {"offset", "derived", "conversion"}}

Measured(b) == {l \in Leaves(project, b) : Has(l.ref, "measure")}

\* _enforce_min_trust, on every leaf; only in a context
TrustBlocks ==
    /\ query.context # NoContext
    /\ \E k \in DOMAIN bound : \E l \in Measured(bound[k]) :
         \E rule \in RulesFor(project, "min_trust", l.ref.source, l.ref.measure, query.context) :
           rule.severity = "error" /\ project.tier < rule.level

\* _enforce_required_dimension, on the source-bound metrics matched alone
DimensionBlocks ==
    \E k \in DOMAIN bound : \E b \in MatchedAlone(bound[k]) :
      /\ Has(b.ref, "source") /\ Has(b.ref, "measure")
      /\ \E rule \in RulesFor(project, "required_dimension", b.ref.source, b.ref.measure, query.context) :
           LET f == Find(project, b.ref.source, rule.dim)
           IN  /\ rule.severity = "error"
               /\ f.is = "found" =>
                    \A n \in {f.dim.name} \cup f.dim.aliases :
                      ~Referenced(query, <<IF f.at = b.ref.source THEN NoRole ELSE f.at, n>>)

\* An ambiguous required dimension raises before any rule is satisfied.
DimensionAmbiguous ==
    \E k \in DOMAIN bound : \E b \in MatchedAlone(bound[k]) :
      /\ Has(b.ref, "source") /\ Has(b.ref, "measure")
      /\ \E rule \in RulesFor(project, "required_dimension", b.ref.source, b.ref.measure, query.context) :
           Find(project, b.ref.source, rule.dim).is = "ambiguous"

Enforce ==
    /\ stage = "enforce"
    /\ IF TrustBlocks \/ DimensionBlocks THEN Fail("blocked")
       ELSE IF DimensionAmbiguous THEN Fail("ambiguous")
       ELSE stage' = "plan" /\ UNCHANGED <<planned, answer>>
    /\ UNCHANGED <<project, query, caller, authz, bound, related>>

NoEnclosing == [shifts |-> <<>>, pops |-> {}]

Asks(k) == PlanMetric(project, query, NoEnclosing, bound[k], query.metrics[k])

\* Stages 2 to 6, one metric at a time; the first refusal is the query's.
PlanNext ==
    /\ stage = "plan"
    /\ \E plans \in {LET asks == Asks(Len(planned) + 1)
                     IN  [i \in DOMAIN asks |-> PlanLeaf(project, caller, authz, asks[i])]} :
         LET refused == {i \in DOMAIN plans : plans[i].why # ""}
         IN  IF refused # {} THEN Fail(plans[CHOOSE i \in refused : \A j \in refused : i <= j].why)
             ELSE /\ planned' = Append(planned, [i \in DOMAIN plans |-> plans[i].leaf])
                  /\ stage' = IF Len(planned') = Len(bound) THEN "restrict" ELSE "plan"
                  /\ UNCHANGED answer
    /\ UNCHANGED <<project, query, caller, authz, bound, related>>

\* _enforce_restrict_source: the rule of the name the metric was asked for under
RestrictSource ==
    LET name(k, b) == IF b = bound[k] THEN query.metrics[k] ELSE b.metric
        blocks(k, b) ==
          /\ b.ref.kind \in {"single", "cumulative"}
          /\ \E rule \in RulesFor(project, "restrict_source", b.ref.source, b.ref.measure, query.context) :
               /\ rule.role = "final" /\ rule.severity = "error"
               /\ FinalityFor(project, name(k, b)) # {} /\ query.late
    IN  /\ stage = "restrict"
        /\ IF \E k \in DOMAIN bound : \E b \in MatchedAlone(bound[k]) : blocks(k, b)
           THEN Fail("blocked")
           ELSE stage' = "compose" /\ UNCHANGED <<planned, answer>>
        /\ UNCHANGED <<project, query, caller, authz, bound, related>>

Compose ==
    LET leaves == FlattenSeq(planned)
    IN  /\ stage = "compose"
        /\ stage' = "done"
        /\ answer' = [why |-> "", selects |-> Fuse(leaves), probes |-> Probes(project, query, leaves)]
        /\ UNCHANGED <<project, query, caller, authz, bound, planned, related>>

Next == BindPrincipal \/ ResolveMetrics \/ Enforce \/ PlanNext \/ RestrictSource \/ Compose

Spec == Init /\ [][Next]_vars

-----------------------------------------------------------------------------
(* Properties.                                                              *)

\* Stages, refusals and answers are among those compile() can produce.
TypeOK ==
    /\ stage \in {"principal", "resolve", "enforce", "plan", "restrict", "compose", "done"}
    /\ answer.why \in {"", "tenant_unresolved", "unresolved", "ambiguous", "unreachable", "denied",
                       "blocked", "ambiguous_path", "tenant", "fanout", "component_kind",
                       "native_grain", "order_dimension", "conversion_under_offset", "unsupported"}
    /\ Len(planned) <= Len(bound)
    /\ answer.why # "" => answer.selects = <<>> /\ planned = <<>>
    /\ stage \in {"restrict", "compose"} => Len(planned) = Len(query.metrics)

\* What validate_contracts accepts, the resolver resolves: every active name and alias
\* leads, through any nesting of ratios, offsets, derived and conversion metrics, to
\* leaves on declared sources.
AcceptedResolves ==
    stage = "principal" => \A n \in ActiveNames(project) :
      LET b == ResolveMetric(project, n)
      IN  /\ b.is = "binding"
          /\ \A l \in Leaves(project, b) : l.ref.source \in DOMAIN project.g

\* The names of a binding that validation looks up on its leaf sources and the compiler
\* also among the dimensions they join: its population's and its counted column.
CheckedNames(ref) ==
    (IF Has(ref, "pop") THEN ref.pop.names ELSE {})
      \cup (IF ref.kind \in Recompute THEN {ref.column} ELSE {})

\* No checked name is a mere column of its source and a dimension of a joined one, which
\* the compiler would prefer, and no mandatory filter names what validation never looks up.
Clear(p) ==
    /\ \A rule \in p.rules : rule.kind # "mandatory_filter"
    /\ \A i \in Active(p) : \A s \in LeafSources(p, p.bindings[i].metric) :
         \A n \in CheckedNames(p.bindings[i].ref) :
           DimensionsNamed(p.g[s], n) # {} \/ Find(p, s, <<NoRole, n>>).is = "none"

\* In a clear project a metric asked for without dimensions, filters or a context is
\* refused for what its kind needs only (a ratio of ratios, of percentiles or of
\* semi-additive metrics always is), never because a name validation let through cannot
\* be bound, and every population filter is on the leaf's own source.
AcceptedBinds ==
    stage = "done" /\ Clear(project) =>
      /\ answer.why # "" /\ query.dims = <<>> /\ FiltersOf(query) = {} /\ query.context = NoContext
           => answer.why \notin {"unreachable", "ambiguous_path", "ambiguous"}
      /\ \A k \in DOMAIN planned : \A leaf \in Range(planned[k]) : \A x \in leaf.preds :
           x.from = "population" => x.at = leaf.owner

Served == stage = "done" /\ answer.why = ""
ServedLeaves == UNION {Range(planned[k]) : k \in DOMAIN planned}

\* Every source within reach has an alias of its own in the tree.
Unshadowed(p, owner) == DOMAIN SourceTree(p.g, owner) = Range(Tree(p, owner))

\* A guardrail's predicate names a joined alias or the source behind one: the joins are
\* planned for the alias and _enforce_guardrails binds by source name, so under a join with
\* a role it names the source and not the role.
GuardrailsAreJoined ==
    Served =>
      \A leaf \in {leaf \in ServedLeaves : Unshadowed(project, leaf.owner)} :
        \A x \in {x \in leaf.preds : x.from = "guardrail"} :
          x.at \in leaf.scans \cup {Tree(project, leaf.owner)[a] : a \in leaf.scans}

NamesJoined(leaf) ==
    /\ \A k \in DOMAIN leaf.dims : leaf.dims[k].at \in leaf.scans
    /\ \A x \in leaf.preds : x.from \in {"user", "prefilter", "tenant"} => x.at \in leaf.scans
    /\ \A k \in DOMAIN leaf.joins :
         leaf.joins[k].from \in {leaf.owner} \cup {leaf.joins[l].as : l \in 1..(k - 1)}

\* Every alias a select's GROUP BY, user filters and tenant predicates name is joined, and
\* a join only hangs off an alias joined before it (plan_leaf, plan_joins).  No join is
\* planned for a population filter, and a guardrail's predicate may name a source instead:
\* AcceptedBinds and GuardrailsAreJoined say what holds of those.
NamesAreJoined == Served => \A leaf \in ServedLeaves : NamesJoined(leaf)

ScanScoped(p, who, owner, preds, a) ==
    LET scope == ScopeOf(p, Tree(p, owner)[a])
    IN  \/ scope.is = "shared"
        \/ scope.is = "undeclared" /\ p.tenancy.undeclared # "deny"
        \/ \E x \in preds : x.from = "tenant" /\ x.at = a /\ x.col = scope.column
                               /\ x.of = who.tenants

\* A realization that is declared like the owner it stands in for: in the tenancy policy,
\* and in what its branch joins.
DeclaredAlike(p, leaf, b) ==
    /\ ScopeOf(p, Tree(p, b.owner)[b.owner]) = ScopeOf(p, Tree(p, leaf.owner)[leaf.owner])
    /\ \A a \in b.scans \ {b.owner} :
         a \in leaf.scans \ {leaf.owner} /\ Tree(p, b.owner)[a] = Tree(p, leaf.owner)[a]

\* Stages 0, 2b and 5: under tenancy, every alias a select scans is shared or carries the
\* caller's tenant predicate, and one left out multiplies rows across tenants.  So does
\* every alias of a finality branch, whose predicates were planned for the owner, when its
\* realization is declared like the owner; validation does not ask for that.  Nobody is
\* served without a tenant, and no undeclared source, unless the policy says so.
EveryScanIsScoped ==
    Served /\ project.tenancy # NoPolicy /\ ~authz.unscoped =>
      \/ caller.tenants = {} /\ project.tenancy.missing = "allow_unscoped"
      \/ \A leaf \in ServedLeaves :
           /\ \A a \in leaf.scans : ScanScoped(project, caller, leaf.owner, leaf.preds, a)
           /\ \A b \in leaf.branches : DeclaredAlike(project, leaf, b) =>
                \A a \in b.scans : ScanScoped(project, caller, b.owner, b.preds, a)

\* The population filters that read something
Ids(pops) == {pop.id : pop \in {pop \in pops : pop.names # {}}}

\* A metric under the populations around it.  What an offset or derived metric reads is
\* under its own too; the base of a conversion is read once more, on its own.
Around(b, pops) == [state |-> "open", b |-> b, pops |-> pops]
Inside(r) ==
    LET own == r.pops \cup Ids(OwnPop(r.b))
        seen == [r EXCEPT !.state = "closed"]
        kind == IF r.state = "open" THEN r.b.ref.kind ELSE "closed"
    IN  CASE kind \in {"offset", "derived"} -> [k \in DOMAIN r.b.parts |-> Around(r.b.parts[k], own)]
          [] kind = "conversion" -> <<seen, Around(r.b.parts[1], r.pops)>>
          [] OTHER -> <<seen>>
AllInside(outer) == FlattenSeq([i \in DOMAIN outer |-> Inside(outer[i])])

\* The populations of the leaves of one metric: a composite's narrows both components.
PopulationsOf(r) ==
    LET own == r.pops \cup Ids(OwnPop(r.b))
        part(k) == Ids(OwnPop(r.b.parts[k]))
    IN  CASE r.b.ref.kind \in Composite -> <<own \cup part(1), own \cup part(2)>>
          [] r.b.ref.kind = "conversion" -> <<r.pops \cup part(2), r.pops \cup part(1)>>
          [] OTHER -> <<own>>

\* The populations a metric's leaves are about, in planning order: its own, its
\* components', and those of every metric it is read through.
Populations(p, b) ==
    LET within[n \in 0..Len(p.bindings)] ==
          IF n = 0 THEN <<Around(b, {})>> ELSE AllInside(within[n - 1])
        read == within[Len(p.bindings)]
    IN  FlattenSeq([i \in DOMAIN read |-> PopulationsOf(read[i])])

PopulationsIn(leaf) == {x.of : x \in {x \in leaf.preds : x.from = "population"}}

\* A population filter narrows every leaf below the metric that declares it and no
\* other (_combine_population_filters, enclosing_population).
PopulationsReachTheirLeaves ==
    Served =>
      \A k \in DOMAIN planned :
        [i \in DOMAIN planned[k] |-> PopulationsIn(planned[k][i])] = Populations(project, bound[k])

\* Finality rules the key does not tell apart have the same realizations.
RulesTellApart(p) ==
    \A f, h \in p.finality : FinalityKey(f) = FinalityKey(h) => Range(f.realizations) = Range(h.realizations)

\* Fusing leaves into one select changes no value: the shared select reads the rows,
\* groups by the columns and joins what the leaf asked for, and the column it is read
\* from aggregates the leaf's own measure (_fuse, LeafKey).  The key has the sources of a
\* finality rule but not their roles: where two rules of one watermark swap them, the
\* leaves are fused although their branches differ.
FusionKeepsEachLeaf ==
    Served =>
      \A i \in DOMAIN FlattenSeq(planned) :
        LET leaf == FlattenSeq(planned)[i]
            s == answer.selects[i]
        IN  /\ s.measure = leaf.measure
            /\ s.select.owner = leaf.owner /\ s.select.preds = leaf.preds /\ s.select.dims = leaf.dims
            /\ s.select.joins = leaf.joins /\ s.select.params = leaf.params
            /\ RulesTellApart(project) => s.select.branches = leaf.branches

\* Additivity across a fan-out: rows are only aggregated over a fanning join, of the leaf
\* or of one of its finality branches, where the builder deduplicates them or counts
\* distinct values.  An opaque leaf aggregates nothing: its rows are looked up, and a
\* filter behind a fanning join repeats them.
NothingCountedTwice ==
    Served =>
      \A leaf \in ServedLeaves :
        LET additive(s) == leaf.measure \in DOMAIN project.g[s].measures
                             /\ project.g[s].measures[leaf.measure] \in Additive
        IN  /\ (\E k \in DOMAIN leaf.joins : leaf.joins[k].fan) /\ leaf.branches = {}
                 => leaf.strategy \in {"distinct_count", "opaque"} \/ additive(leaf.owner)
            /\ \A b \in leaf.branches : b.fan => additive(b.owner)

\* Validation and compilation agree on names: every accepted name resolves, in a clear
\* project nothing accepted fails to bind, and a guardrail is enforced on something the
\* select joins (validate.py, resolver.py, pipeline.py).
AcceptedNamesBind ==
    /\ TypeOK
    /\ AcceptedResolves
    /\ AcceptedBinds
    /\ GuardrailsAreJoined

\* A select joins what it names, and nothing it scans is outside the tenant, in its
\* finality branches as in the leaf itself (leaf.py, _helpers.py).
ScansAreScoped ==
    /\ NamesAreJoined
    /\ EveryScanIsScoped

\* Every leaf aggregates the rows its metric means: under the populations around it,
\* undisturbed by the leaves it shares a select with, and no row twice
\* (leaf.py, compose.py).
LeavesKeepTheirRows ==
    /\ PopulationsReachTheirLeaves
    /\ FusionKeepsEachLeaf
    /\ NothingCountedTwice
=============================================================================
