----------------------------- MODULE Contracts ------------------------------
(***************************************************************************)
(* Metric contracts: what a project declares, which projects validate.py   *)
(* accepts and what resolver.py makes of a name.                           *)
(*                                                                         *)
(* A project p has a graph g of sources, the metric bindings in the order  *)
(* the loader reads them, guardrails, finality rules, assertions and the   *)
(* optional tenancy and role policies.  A binding is [metric, aliases,     *)
(* active, ref]; its ref holds only the fields its author set:             *)
(*   deps    the metrics it is made of: numerator and denominator, base,   *)
(*           inputs, or base and conversion metric                         *)
(*   column  collapse_dimension, distinct_on or the percentile's column    *)
(*   pop     its population filter: an id and the names it reads          *)
(***************************************************************************)
EXTENDS SemanticGraph, Naturals

CONSTANTS NoPolicy, Star

Has(ref, f) == f \in DOMAIN ref
Get(ref, f, default) == IF f \in DOMAIN ref THEN ref[f] ELSE default

-----------------------------------------------------------------------------
(* The shape of one file.                                                   *)

SourceBound == {"single", "semi_additive", "distinct_count", "percentile",
                "opaque", "cumulative"}
Composite == {"ratio", "weighted_avg"}
Recompute == {"distinct_count", "percentile"}
Temporal == {"date", "timestamp"}
Orderable == Temporal \cup {"int", "decimal", "float"}
Additive == {"sum", "max", "other"}

\* CanonicalRef._validate_shape, and the fields _validate_kind_fields ties to a kind
Required(kind) ==
    CASE kind = "single"         -> {"source", "measure"}
      [] kind \in Composite      -> {"deps"}
      [] kind = "semi_additive"  -> {"source", "measure", "column"}
      [] kind = "distinct_count" -> {"source", "column"}
      [] kind = "percentile"     -> {"source", "column", "quantile"}
      [] kind = "opaque"         -> {"source", "measure", "grain"}
      [] kind = "cumulative"     -> {"source", "measure", "order"}
      [] kind = "offset"         -> {"deps", "time", "delta"}
      [] kind = "derived"        -> {"deps"}
      [] kind = "conversion"     -> {"deps", "entity", "times"}

OwnedFields(kind) ==
    {f \in {"time", "delta", "entity", "times"} : f \in Required(kind)}

Bounded(ref) == Has(ref, "window") \/ Has(ref, "todate")
NeedsDaySpine(ref) == Bounded(ref) \/ Has(ref, "agg")

\* CanonicalRef._validate_frame
FrameOK(ref) ==
    LET set == {"window", "todate", "agg"} \cap DOMAIN ref
    IN  \/ set = {}
        \/ ref.kind = "conversion" /\ set = {"window"}
        \/ /\ ref.kind = "cumulative"
           /\ ~({"window", "todate"} \subseteq set)
           /\ Len(ref.order) = 1
           /\ Bounded(ref) => ~Has(ref, "fill") /\ ~Has(ref, "history")

ShapeOK(ref) ==
    /\ Required(ref.kind) \subseteq DOMAIN ref
    /\ {"time", "delta", "entity", "times"} \cap DOMAIN ref \subseteq OwnedFields(ref.kind)
    /\ ref.kind = "conversion" => ~Has(ref, "pop")
    /\ ref.kind = "cumulative" => ref.order # <<>> /\ IsInjective(ref.order)
    /\ Has(ref, "parts") =>
         ref.kind \in Composite /\ Len(ref.parts) >= 2 /\ IsInjective(ref.parts)
    /\ FrameOK(ref)

Active(p) == {i \in DOMAIN p.bindings : p.bindings[i].active}
NamesOf(p, i) == {p.bindings[i].metric} \cup p.bindings[i].aliases

\* The bindings are a list, and so is what each is made of: one base, a numerator and a
\* denominator, a base and a conversion metric, or any number of inputs.
InShape(p) ==
    /\ Len(p.bindings) \in Nat
    /\ \A i \in DOMAIN p.bindings :
         LET ref == p.bindings[i].ref
             deps == Get(ref, "deps", <<>>)
         IN  /\ ref.kind \in SourceBound \cup Composite \cup {"offset", "derived", "conversion"}
             /\ Len(deps) \in Nat /\ DOMAIN deps = 1..Len(deps)
             /\ ref.kind = "offset" => Len(deps) = 1
             /\ ref.kind \in Composite \cup {"conversion"} => Len(deps) = 2

\* load_metric_bindings and MetricBinding._validate_aliases
NamesUnique(p) ==
    /\ \A i \in DOMAIN p.bindings : p.bindings[i].metric \notin p.bindings[i].aliases
    /\ \A i, k \in Active(p) : i # k => NamesOf(p, i) \cap NamesOf(p, k) = {}

-----------------------------------------------------------------------------
(* One binding against the rest of the project.                             *)

Metrics(p) == {p.bindings[i].metric : i \in Active(p)}
ActiveNames(p) == UNION {NamesOf(p, i) : i \in Active(p)}
RefOf(p, m) == p.bindings[CHOOSE i \in Active(p) : p.bindings[i].metric = m].ref
Deps(ref) == Get(ref, "deps", <<>>)
DimNames(p, s) == {d.name : d \in p.g[s].dims}
Declared(p, s) == DOMAIN p.g[s].cols \cup DimNames(p, s)

HasMeasure(p, ref) ==
    ref.source \in DOMAIN p.g /\ ref.measure \in DOMAIN p.g[ref.source].measures

\* The active metrics that a metric is made of, directly and through others
DepsOf(p, m) == IF m \in Metrics(p) THEN Range(Deps(RefOf(p, m))) ELSE {}
Below(p, m) ==
    LET below[n \in 0..Len(p.bindings)] ==
          IF n = 0 THEN DepsOf(p, m)
          ELSE LET near == below[n - 1] IN near \cup UNION {DepsOf(p, d) : d \in near}
    IN  below[Len(p.bindings)]
MadeOf(p, m) == {m} \cup (Below(p, m) \cap Metrics(p))

\* _check_composite_cycle: along the active metrics, by metric name
CycleFree(p, m) == \A d \in {m} \cup Below(p, m) : d \notin Below(p, d)

\* _leaf_sources
LeafSources(p, m) ==
    {RefOf(p, d).source : d \in {d \in MadeOf(p, m) : RefOf(p, d).kind \in SourceBound}}

\* _validate_numerator_parts
PartsOK(p, ref) ==
    \A k \in DOMAIN Get(ref, "parts", <<>>) :
      LET part == ref.parts[k]
          reached == UNION {Range(AliasTree(p.g, s)) : s \in LeafSources(p, ref.deps[1])}
      IN  part \in Metrics(p) /\ RefOf(p, part).kind = "single" /\ RefOf(p, part).source \in reached

\* _validate_composite_binding
CompositeOK(p, m, ref) ==
    /\ \A d \in Range(ref.deps) :
         /\ d \in Metrics(p)
         /\ RefOf(p, d).kind \notin {"opaque", "cumulative", "offset", "derived", "conversion"}
    /\ CycleFree(p, m)
    /\ PartsOK(p, ref)

\* The source and column a time dimension stands for, from one leaf source.
TimeColumn(p, s, ref) ==
    LET tree == AliasTree(p.g, s)
        found == FindDimension(p.g, ref, s, tree, TRUE)
    IN  IF found.is = "found" THEN {<<tree[found.at], found.dim.col>>} ELSE {}

\* _offset_columns
OffsetColumns(p, m) ==
    UNION {UNION {TimeColumn(p, s, RefOf(p, d).time) : s \in LeafSources(p, d)} :
             d \in {d \in MadeOf(p, m) : RefOf(p, d).kind = "offset"}}

\* _validate_offset_binding
OffsetOK(p, m, ref) ==
    LET base == ref.deps[1]
        columns == UNION {TimeColumn(p, s, ref.time) : s \in LeafSources(p, base)}
    IN  /\ base \in Metrics(p)
        /\ CycleFree(p, m)
        /\ RefOf(p, base).kind \notin {"opaque", "conversion"}
        /\ ~(RefOf(p, base).kind = "cumulative" /\ NeedsDaySpine(RefOf(p, base)))
        /\ LeafSources(p, base) \subseteq DOMAIN p.g
        /\ \A s \in LeafSources(p, base) : TimeColumn(p, s, ref.time) # {}
        /\ \A c \in columns : p.g[c[1]].cols[c[2]] \in Temporal
        /\ OffsetColumns(p, base) \subseteq columns

\* _validate_derived_binding
DerivedOK(p, m, ref) ==
    /\ \A d \in Range(ref.deps) : d \in Metrics(p)
    /\ CycleFree(p, m)

\* SemanticSource.own_column: the column a name stands for on one source, if any
OwnColumn(p, s, n) ==
    IF n \in DimNames(p, s) THEN {d.col : d \in {d \in p.g[s].dims : d.name = n}}
    ELSE {n} \cap DOMAIN p.g[s].cols

\* _validate_conversion_binding, _counts
ConversionOK(p, ref) ==
    \A side \in {1, 2} :
      /\ ref.deps[side] \in Metrics(p)
      /\ LET of == RefOf(p, ref.deps[side])
         IN  /\ of.kind \in {"single", "distinct_count"}
             /\ of.source \in DOMAIN p.g
             /\ side = 2 /\ of.kind = "single" /\ HasMeasure(p, of) =>
                  p.g[of.source].measures[of.measure] = "sum"
             /\ side = 2 /\ of.kind = "distinct_count" => OwnColumn(p, of.source, of.column) # {}
             /\ OwnColumn(p, of.source, ref.entity[side]) # {}
             /\ OwnColumn(p, of.source, ref.times[side]) # {}
             /\ \A c \in OwnColumn(p, of.source, ref.times[side]) : p.g[of.source].cols[c] \in Temporal

\* _validate_semi_additive_binding
SemiAdditiveOK(p, ref) ==
    /\ HasMeasure(p, ref)
    /\ p.g[ref.source].measures[ref.measure] \in Additive
    /\ ref.column \in DimNames(p, ref.source)
    /\ p.g[ref.source].grain \ {ref.column} \subseteq DimNames(p, ref.source)

\* _validate_cumulative_binding, _validate_day_axis
CumulativeOK(p, ref) ==
    LET tree == AliasTree(p.g, ref.source)
        found(k) == FindDimension(p.g, ref.order[k], ref.source, tree, TRUE)
        type(k) == p.g[tree[found(k).at]].cols[found(k).dim.col]
    IN  /\ HasMeasure(p, ref)
        /\ p.g[ref.source].measures[ref.measure] \in Additive \ {"other"}
        /\ \A k \in DOMAIN ref.order :
             /\ found(k).is = "found"
             /\ type(k) \in (IF NeedsDaySpine(ref) THEN Temporal ELSE Orderable)
        /\ \A k, l \in DOMAIN ref.order : k # l =>
             <<found(k).at, found(k).dim.col>> # <<found(l).at, found(l).dim.col>>

\* Mutant: the column is not looked up.
RecomputeOK_SourceOnly(p, ref) == ref.source \in DOMAIN p.g

\* _validate_recompute_at_grain_binding
RecomputeOK(p, ref) ==
    ref.source \in DOMAIN p.g /\ ref.column \in Declared(p, ref.source)

\* _validate_opaque_binding
OpaqueOK(p, ref) == HasMeasure(p, ref) /\ ref.grain \subseteq DimNames(p, ref.source)

\* _validate_population_filter
PopulationOK(p, m, ref) ==
    Has(ref, "pop") =>
      \A s \in LeafSources(p, m) : s \in DOMAIN p.g /\ ref.pop.names \subseteq Declared(p, s)

BindingOK(p, i) ==
    LET m == p.bindings[i].metric
        ref == p.bindings[i].ref
    IN  /\ CASE ref.kind = "single"        -> HasMeasure(p, ref)
             [] ref.kind = "semi_additive" -> SemiAdditiveOK(p, ref)
             [] ref.kind \in Recompute     -> RecomputeOK(p, ref)
             [] ref.kind = "opaque"        -> OpaqueOK(p, ref)
             [] ref.kind = "cumulative"    -> CumulativeOK(p, ref)
             [] ref.kind = "offset"        -> OffsetOK(p, m, ref)
             [] ref.kind = "derived"       -> DerivedOK(p, m, ref)
             [] ref.kind = "conversion"    -> ConversionOK(p, ref)
             [] ref.kind \in Composite     -> CompositeOK(p, m, ref)
        /\ PopulationOK(p, m, ref)

-----------------------------------------------------------------------------
(* Rules and policies.                                                      *)

\* AppliesTo._validate_shape and the applies_to checks of validate_contracts;
\* rule.at is [source], [source, measure] or [metric].
RuleOK(p, rule) ==
    /\ Has(rule.at, "source") # Has(rule.at, "metric")
    /\ Has(rule.at, "source") => rule.at.source \in DOMAIN p.g
    /\ Has(rule.at, "source") /\ Has(rule.at, "measure") =>
         rule.at.measure \in DOMAIN p.g[rule.at.source].measures
    /\ Has(rule.at, "metric") => rule.at.metric \in Metrics(p)
    /\ rule.kind = "restrict_source" /\ Has(rule.at, "metric") =>
         rule.at.metric \in {f.metric : f \in p.finality}

\* Guardrail._validate_kind_fields
RuleShapeOK(rule) ==
    CASE rule.kind = "mandatory_filter"   -> Has(rule, "refs")
      [] rule.kind = "required_dimension" -> Has(rule, "dim")
      [] rule.kind = "restrict_source"    -> Has(rule, "role") /\ Has(rule, "context")
      [] rule.kind = "min_trust"          -> Has(rule, "level") /\ Has(rule, "context")

\* validate_finality_rule: exactly one final realization, every source declared
FinalityOK(p, rule) ==
    /\ rule.metric \in Metrics(p)
    /\ Range(rule.realizations) \subseteq [source : DOMAIN p.g, role : {"final", "provisional"}]
    /\ Cardinality({k \in DOMAIN rule.realizations : rule.realizations[k].role = "final"}) = 1

\* _validate_tenancy_policy, TenancyPolicy._validate_no_overlap
TenancyOK(p) ==
    p.tenancy # NoPolicy =>
      LET t == p.tenancy
      IN  /\ DOMAIN t.scoped \cap t.shared = {}
          /\ \A s \in DOMAIN t.scoped : s \in DOMAIN p.g /\ t.scoped[s] \in DOMAIN p.g[s].cols
          /\ t.undeclared = "deny" => DOMAIN p.g \subseteq DOMAIN t.scoped \cup t.shared

\* A role, its parent, its grandparent...: at most as many as there are roles.
Chain(roles, r) ==
    LET parent(x) == IF x \in DOMAIN roles /\ Has(roles[x], "inherits") THEN <<roles[x].inherits>> ELSE <<>>
        chain[n \in 0..Cardinality(DOMAIN roles)] ==
          IF n = 0 THEN <<r>> ELSE LET nearer == chain[n - 1] IN nearer \o parent(Last(nearer))
    IN  chain[Cardinality(DOMAIN roles)]

\* RolePolicy._validate_roles, _validate_role_policy
RolesOK(p) ==
    p.roles # NoPolicy =>
      LET roles == p.roles.roles
          named(r) == IF Has(roles[r], "metrics")
                      THEN (roles[r].metrics.allow \cup roles[r].metrics.deny) \ {Star} ELSE {}
      IN  /\ Has(p.roles, "default") => p.roles.default \in DOMAIN roles
          /\ \A r \in DOMAIN roles :
               /\ Range(Chain(roles, r)) \subseteq DOMAIN roles
               /\ IsInjective(Chain(roles, r))
               /\ named(r) \subseteq ActiveNames(p)

\* validate_contracts on what the loaders return
Accepted(p) ==
    /\ \A i \in DOMAIN p.bindings : ShapeOK(p.bindings[i].ref)
    /\ NamesUnique(p)
    /\ \A i \in Active(p) : BindingOK(p, i)
    /\ \A rule \in p.rules : RuleShapeOK(rule) /\ RuleOK(p, rule)
    /\ \A rule \in p.finality : FinalityOK(p, rule)
    /\ \A a \in p.assertions : a.metrics \subseteq ActiveNames(p) /\ a.values \subseteq a.metrics \cup a.dims
    /\ TenancyOK(p)
    /\ RolesOK(p)

-----------------------------------------------------------------------------
(* Resolution.                                                              *)

Unresolved(name) == [is |-> "unresolved", name |-> name]
Ambiguous(name) == [is |-> "ambiguous", name |-> name]

Matches(p, name) == {i \in Active(p) : name \in NamesOf(p, i)}

\* _resolve_binding for one name, given what the names of its components resolved to:
\* a Binding, or the first component that is none
ResolveWith(p, name, component) ==
    LET i == CHOOSE i \in Matches(p, name) : TRUE
        ref == p.bindings[i].ref
        parts == [k \in DOMAIN Deps(ref) |-> component[ref.deps[k]]]
        bad == {k \in DOMAIN parts : parts[k].is # "binding"}
    IN  IF Matches(p, name) = {} THEN Unresolved(name)
        ELSE IF Cardinality(Matches(p, name)) > 1 THEN Ambiguous(name)
        ELSE IF bad # {} THEN parts[CHOOSE k \in bad : \A l \in bad : k <= l]
        ELSE [is |-> "binding", metric |-> p.bindings[i].metric, ref |-> ref, parts |-> parts]

Unknown(names) == [m \in names |-> Unresolved(m)]
ResolveAll(p, names, component) == [m \in names |-> ResolveWith(p, m, component)]

\* _resolve_component: a name that is met again on the way down does not resolve, and
\* a way without such a name is no longer than there are bindings.
ResolveMetric(p, name) ==
    LET names == {name} \cup UNION {Range(Deps(p.bindings[i].ref)) : i \in DOMAIN p.bindings}
        resolved[n \in 0..Len(p.bindings)] ==
          IF n = 0 THEN Unknown(names) ELSE ResolveAll(p, names, resolved[n - 1])
    IN  resolved[Len(p.bindings)][name]

\* What a binding reads: itself, its Parts, their Parts...
Reads(p, b, Parts(_)) ==
    LET level[n \in 0..Len(p.bindings)] ==
          IF n = 0 THEN {b} ELSE UNION {Parts(c) : c \in level[n - 1]}
    IN  UNION {level[n] : n \in 0..Len(p.bindings)}

\* Binding.leaves: a binding without parts is its own leaf.
AllParts(b) == Range(b.parts)
Leaves(p, b) == {l \in Reads(p, b, AllParts) : l.parts = <<>>}

\* Binding.grouped_leaves: a conversion is grouped on its base side.
GroupedParts(b) == IF b.ref.kind = "conversion" THEN {b.parts[1]} ELSE Range(b.parts)
GroupedLeaves(p, b) == {l \in Reads(p, b, GroupedParts) : l.parts = <<>>}

\* _guardrail_applies; a metric-shaped rule follows the metric's own source and measure,
\* and matches nothing when the metric has none.
Applies(p, rule, source, measure) ==
    IF Has(rule.at, "source")
    THEN rule.at.source = source /\ (Has(rule.at, "measure") => rule.at.measure = measure)
    ELSE \E i \in Active(p) :
           /\ p.bindings[i].metric = rule.at.metric
           /\ p.bindings[i].ref.kind \in SourceBound
           /\ p.bindings[i].ref.source = source
           /\ Has(p.bindings[i].ref, "measure") /\ p.bindings[i].ref.measure = measure

\* guardrails_for, restrict_source_for, required_dimension_for, min_trust_for: a rule
\* with a context binds queries of that context only, except that a mandatory filter
\* is applied in every context.
RulesFor(p, kind, source, measure, context) ==
    {rule \in p.rules :
       /\ rule.kind = kind
       /\ kind # "mandatory_filter" /\ Has(rule, "context") => rule.context = context
       /\ Applies(p, rule, source, measure)}

FinalityFor(p, m) == {f \in p.finality : f.metric = m}

\* tenancy_for: the scoping column of a source, if it has one
ScopeOf(p, s) ==
    IF p.tenancy = NoPolicy \/ s \in p.tenancy.shared THEN [is |-> "shared"]
    ELSE IF s \in DOMAIN p.tenancy.scoped THEN [is |-> "scoped", column |-> p.tenancy.scoped[s]]
    ELSE [is |-> "undeclared"]

-----------------------------------------------------------------------------
(* Authorization.                                                           *)

Everything == [allow |-> {Star}, deny |-> {}]
NothingAllowed == [allow |-> {}, deny |-> {}]

\* _flatten_role: the nearest role on the inherits chain that sets the field decides.
FieldOf(roles, r, field, default) ==
    LET chain == Chain(roles, r)
        setting == SelectSeq(chain, LAMBDA x : Has(roles[x], field))
    IN  IF setting = <<>> THEN default ELSE roles[Head(setting)][field]

\* authz_for
PolicyOf(p, principal) ==
    LET declared == p.roles.roles
        named == IF principal.roles = {} /\ Has(p.roles, "default")
                 THEN {p.roles.default} ELSE principal.roles
        known == named \cap DOMAIN declared
        union(field, half) ==
          UNION {FieldOf(declared, r, field, Everything)[half] : r \in known}
    IN  IF principal.exempt \/ p.roles = NoPolicy
        THEN [metrics |-> Everything, dims |-> Everything, sql |-> TRUE,
              unscoped |-> principal.exempt, masked |-> {}]
        ELSE IF known = {}
        THEN [metrics |-> NothingAllowed, dims |-> NothingAllowed, sql |-> FALSE,
              unscoped |-> FALSE, masked |-> {}]
        ELSE [metrics |-> [allow |-> union("metrics", "allow"), deny |-> union("metrics", "deny")],
              dims |-> [allow |-> union("dims", "allow"), deny |-> union("dims", "deny")],
              sql |-> \E r \in known : FieldOf(declared, r, "sql", FALSE),
              unscoped |-> \E r \in known : FieldOf(declared, r, "unscoped", FALSE),
              masked |-> UNION {FieldOf(declared, r, "masked", {}) : r \in known}]

\* metric_allowed, dimension_allowed: deny wins
Allowed(half, name) == name \notin half.deny /\ (Star \in half.allow \/ name \in half.allow)
=============================================================================
