------------------------------- MODULE Answers -------------------------------
(***************************************************************************)
(* What a compiled query computes.  Compiler.tla decides which leaves an   *)
(* answer is composed of; here the SQL of a leaf and of the composition is *)
(* evaluated on small tables, one action per stage of the statement: the   *)
(* leaf CTEs (one builder per strategy), the grain spine that aligns them, *)
(* and the outer projection.                                               *)
(*                                                                         *)
(* A table is a set of rows, told apart by id; v is the measured column,   *)
(* day and grp are columns a query may group by, and hour tells when in    *)
(* its day a row lies.  The warehouse's own clock is UTC.  Null is SQL's   *)
(* NULL.                                                                   *)
(***************************************************************************)
EXTENDS Calendar
LOCAL INSTANCE SequencesExt

CONSTANTS Null,
          MaxSpineDays,  \* the days a spine may hold
          Instances   \* families of what is asked, and of which tables

VARIABLES asked,    \* the instance this query is about
          stage,    \* the next part of the statement to evaluate
          leaf,     \* the two leaf relations, sets of [key, val, final]
          visible,  \* what a visibility filter shows
          spine,    \* the grain spine, a set of [key, final]
          out,      \* the answer
          earlier   \* the answer to the same query asked the day before

vars == <<asked, stage, leaf, visible, spine, out, earlier>>

\* ---- SQL ----

\* SUM skips NULL and is NULL when nothing is left.
SumOf(rows) ==
    LET seen == {r \in rows : r.v # Null}
    IN  IF seen = {} THEN Null ELSE MapThenSumSet(LAMBDA r : r.v, seen)

\* ORDER BY with NULL last, the order _order_keys spells out.
Before(a, b) == a # Null /\ (b = Null \/ a < b)

\* The dimension d of a row; the requested day may be bucketed.
DimOf(row, d) ==
    IF d = "day" /\ row.day # Null THEN FloorDate(row.day, asked.bucket) ELSE row[d]
KeyOf(row) == [d \in asked.dims |-> DimOf(row, d)]

\* GROUP BY the requested dimensions; without any the aggregate is one row.
GroupBy(rows, final) ==
    IF asked.dims = {}
    THEN {[key |-> <<>>, val |-> SumOf(rows), final |-> final]}
    ELSE {[key |-> k, val |-> SumOf({r \in rows : KeyOf(r) = k}), final |-> final] :
            k \in {KeyOf(r) : r \in rows}}

\* A filter on day: lo <= day < hi.  NULL satisfies no comparison.
InRange(day, range) == day # Null /\ range.start <= day /\ day < range.end
Within(rows, range) == {r \in rows : range = Null \/ InRange(r.day, range)}

\* ---- Leaf builders: the rows a leaf aggregates ----

\* _build_simple.
Simple(rows) == GroupBy(rows, Null)

\* _from_and_joins over a fanning join: a LEFT JOIN repeats the owner's row
\* for every item, and keeps a row without one.
Joined(rows, items) ==
    UNION {LET own == {i \in items : i.owner = r.id}
           IN  IF own = {} THEN {[id |-> r.id, item |-> Null, day |-> r.day, grp |-> Null, v |-> r.v]}
               ELSE {[id |-> r.id, item |-> i.id, day |-> r.day, grp |-> i.grp, v |-> r.v] : i \in own} :
           r \in rows}
Surviving == {j \in Joined(asked.rows, asked.items) : asked.keep = Null \/ j.grp \in asked.keep}

\* _build_dedup_inner: DISTINCT ON the owner's grain keeps one joined row per
\* owner row, and nothing says which.
DistinctOn(joined) ==
    {{pick[id] : id \in DOMAIN pick} :
       pick \in {f \in [{j.id : j \in joined} -> joined] : \A id \in DOMAIN f : f[id].id = id}}

\* The partition of the ROW_NUMBER of _build_semi_additive: the grain without
\* the collapsed day, and a requested dimension on the same time axis.
SnapshotOf(row) == [ent |-> row.ent, axis |-> IF "day" \in asked.dims THEN DimOf(row, "day") ELSE Null]

\* _build_semi_additive, last and first: the rows whose rn is 1.
Ranked(rows) ==
    {r \in rows : ~ \E s \in rows : /\ SnapshotOf(s) = SnapshotOf(r)
                                    /\ IF asked.collapse = "last" THEN s.day > r.day ELSE s.day < r.day}
\* _build_semi_additive, the other collapses: an aggregate of the sums per day.
PerSnapshot(rows) ==
    LET Daily(k) == {SumOf({r \in rows : KeyOf(r) = k /\ r.day = d}) : d \in {r.day : r \in {s \in rows : KeyOf(s) = k}}} \ {Null}
        Collapse(k) == IF Daily(k) = {} THEN Null
                       ELSE IF asked.collapse = "max" THEN Max(Daily(k)) ELSE Min(Daily(k))
    IN  {[key |-> k, val |-> Collapse(k), final |-> Null] :
           k \in IF asked.dims = {} THEN {<<>>} ELSE {KeyOf(r) : r \in rows}}

\* _build_percentile_fallback: the least value whose CUME_DIST reaches the quantile.
Percentile(rows) ==
    LET Of(k) == {r \in rows : KeyOf(r) = k /\ r.v # Null}
        UpTo(k, r) == Cardinality({s \in Of(k) : s.v <= r.v})
        Reaching(k) == {r.v : r \in {s \in Of(k) : 100 * UpTo(k, s) >= asked.quantile * Cardinality(Of(k))}}
    IN  {[key |-> k, val |-> IF Reaching(k) = {} THEN Null ELSE Min(Reaching(k)), final |-> Null] :
           k \in {KeyOf(r) : r \in {s \in rows : s.v # Null}} \cup IF asked.dims = {} THEN {<<>>} ELSE {}}

\* ---- Rolling windows ----

\* Mutant: the window does not reach back before the range.
LookbackFilter_RangeOnly(rows) == Within(rows, asked.range)
\* _lookback_filters: a requested range is widened by one window at its start,
\* or to the start of the period.
LookbackFilter(rows) ==
    IF asked.range = Null THEN rows
    ELSE LET start == IF asked.window = Null THEN FloorDate(asked.range.start, asked.toDate)
                      ELSE AddToDate(asked.range.start, asked.window, -1)
         IN  Within(rows, [asked.range EXCEPT !.start = start])

\* _reach: the last day the spine is given for a last day of data.
Reach(day) ==
    IF asked.window = Null
    THEN AddToDate(FloorDate(day, asked.toDate), [count |-> 1, unit |-> asked.toDate], 1) - 1
    ELSE AddToDate(day, asked.window, 1) - 1

\* bounds_select and spine_select: every day from the first to the last one
\* reached, not past the anchor, and no more than MaxSpineDays of them.
DaySpine(daily) ==
    LET known == {r.day : r \in daily} \ {Null}
    IN  IF known = {} THEN {}
        ELSE LET hi == Min({Reach(Max(known)), asked.anchor})
             IN  Max({Min(known), hi - (MaxSpineDays - 1)}) .. hi

\* The days the ON clause of _build_windowed joins to a target day.
InWindow(day, target) ==
    /\ day # Null
    /\ day <= target
    /\ IF asked.window = Null THEN day >= FloorDate(target, asked.toDate)
       ELSE day > AddToDate(target, asked.window, -1)

\* The target days of a bucket: its last or first visible day of the spine.
Targets(daily) ==
    LET shown == {d \in DaySpine(daily) : asked.range = Null \/ InRange(d, asked.range)}
    IN  {d \in shown : LET bucket == {e \in shown : FloorDate(e, asked.bucket) = FloorDate(d, asked.bucket)}
                       IN  d = IF asked.period = "last" THEN Max(bucket) ELSE Min(bucket)}

\* _build_windowed: the target days joined to the daily rows of their windows.
Windowed(rows) ==
    LET daily == LookbackFilter(rows)
        pairs == {<<t, r>> \in Targets(daily) \X daily : InWindow(r.day, t)}
        PairKey(p) == [d \in asked.dims |-> IF d = "day" THEN FloorDate(p[1], asked.bucket) ELSE p[2][d]]
    IN  {[key |-> k, val |-> SumOf({p[2] : p \in {q \in pairs : PairKey(q) = k}}), final |-> Null] :
           k \in {PairKey(p) : p \in pairs}}

\* ---- Conversions ----

\* The base events a conversion event may belong to.
Attributable(event) ==
    {b \in asked.rows : /\ b.ent = event.ent
                        /\ b.day # Null /\ event.day # Null
                        /\ b.day <= event.day
                        /\ asked.window = Null \/ event.day <= AddToDate(b.day, asked.window, 1)}

\* The row of _build_conversions with _attribution = 1: the latest base event,
\* and among those of one time the first by the requested dimensions.
Attributed(event) ==
    LET latest == {b \in Attributable(event) : \A c \in Attributable(event) : c.day <= b.day}
        grps == {b.grp : b \in latest}
        least == {g \in grps : \A h \in grps : ~ Before(h, g)}
    IN  {KeyOf(b) : b \in {c \in latest : "grp" \in asked.dims => c.grp \in least}}

Conversions ==
    LET counted == {<<k, e>> : k \in UNION {Attributed(e) : e \in asked.second}, e \in asked.second}
        of(k) == {p[2] : p \in {q \in counted : q[1] = k /\ k \in Attributed(q[2])}}
    IN  {[key |-> k, val |-> SumOf(of(k)), final |-> Null] :
           k \in UNION {Attributed(e) : e \in asked.second} \cup IF asked.dims = {} THEN {<<>>} ELSE {}}

\* ---- Finality ----

TimeOf(row) == Midnight(row.day) + row.hour
WallClock(day) == EvaluateWatermark(asked.offset, asked.zone, Midnight(day) + asked.hour)
\* The watermark of a query asked on a day.
Watermark(day) == WallClock(day) - asked.zone
\* What the gates of the branches compare the stored column with: the watermark,
\* but on SQLite and MySQL, which keep no zone, the clock of the rule's zone.
Gate(day) == IF asked.wallClock THEN WallClock(day) ELSE Watermark(day)
\* The gate of a branch of _build_finality_union; a NULL day passes neither.
FinalGate(row) == row.day # Null /\ TimeOf(row) <= Gate(asked.asOf)
ProvisionalGate(row) == row.day # Null /\ TimeOf(row) > Gate(asked.asOf)

\* The comparisons of a query's filters with the time dimension: the column on
\* the left of the operator, or on its right.  A literal is a day's midnight.
Holds(term, row) ==
    LET a == IF term.literalFirst THEN Midnight(term.day) ELSE TimeOf(row)
        b == IF term.literalFirst THEN TimeOf(row) ELSE Midnight(term.day)
    IN  CASE term.op = "<=" -> a <= b
          [] term.op = "<" -> a < b
          [] term.op = ">=" -> a >= b
          [] term.op = ">" -> a > b
          [] term.op = "=" -> a = b
\* A filter joins its comparisons with AND or OR, or is the NOT of them.
Passes(filter, row) ==
    /\ row.day # Null
    /\ CASE filter.join = "and" -> \A t \in filter.terms : Holds(t, row)
         [] filter.join = "or" -> \E t \in filter.terms : Holds(t, row)
         [] filter.join = "not" -> \E t \in filter.terms : ~ Holds(t, row)
Filtered(rows) == {r \in rows : \A filter \in asked.filters : Passes(filter, r)}

FinalityUnion ==
    GroupBy(Filtered({r \in asked.rows : FinalGate(r)}), TRUE)
      \cup GroupBy(Filtered({r \in asked.items : ProvisionalGate(r)}), FALSE)

\* Every comparison of a filter is walked over, whatever joins it to the others;
\* a literal that is no date, or a time without its zone, is not read.
Comparisons == {t \in UNION {f.terms : f \in asked.filters} : t.readable}
Bounds(ops) == {Midnight(t.day) : t \in {u \in Comparisons : u.op \in ops}}
Uppers == Bounds({"<=", "<", "="})
Lowers == Bounds({">=", ">", "="})
\* _window_exceeds_watermark: a window that ends is judged by its end, an open
\* one by its start, both as times in UTC.  The operator is read as if the
\* column were on its left.
WindowExceedsWatermark ==
    IF Uppers # {} THEN Min(Uppers) > Watermark(asked.asOf)
    ELSE Lowers # {} /\ Max(Lowers) > Watermark(asked.asOf)

\* ---- Time shifts ----

PrefilterMargin == 3
\* _prefilters: for every offset the metric sits under, the range moved back by
\* that one alone, on the unshifted column, meant to let the warehouse prune.
Prefilter(row) ==
    asked.range # Null =>
        \A i \in DOMAIN asked.shifts :
            InRange(row.day, [start |-> AddToDate(asked.range.start, asked.shifts[i], -1) - PrefilterMargin,
                              end |-> AddToDate(asked.range.end, asked.shifts[i], -1) + PrefilterMargin])
\* _shift: the column moved by every offset, the outermost first.
Shift(day) == IF day = Null THEN Null ELSE FoldLeft(LAMBDA d, offset : AddToDate(d, offset, 1), day, asked.shifts)
\* A shifted leaf reads the moved column wherever a filter or a dimension names it.
Shifted(rows) == Within({[r EXCEPT !.day = Shift(@)] : r \in {s \in rows : Prefilter(s)}}, asked.range)

\* ---- The statement ----

\* apply_time_range: a relative range is resolved once, against as_of, before
\* any leaf is planned.
ApplyTimeRange ==
    /\ stage = "range"
    /\ asked' = [asked EXCEPT !.range =
                    IF asked.last = Null THEN @ ELSE ResolveTimeRange(asked.last, asked.current, asked.asOf)]
    /\ stage' = "leaves"
    /\ UNCHANGED <<leaf, visible, spine, out, earlier>>

Build(a, b) ==
    /\ stage = "leaves"
    /\ leaf' = <<a, b>>
    /\ stage' = "spine"
    /\ UNCHANGED <<asked, spine, out, earlier>>

ShowAll == visible' = Null
Other == Simple(Within(asked.second, asked.range))

BuildSimple == asked.kind = "simple" /\ Build(Simple(Within(asked.rows, asked.range)), Other) /\ ShowAll
BuildDeduped ==
    /\ asked.kind = "deduped"
    /\ \E base \in DistinctOn(Surviving) : Build(Simple(base), Other)
    /\ ShowAll
BuildSemiAdditive ==
    /\ asked.kind = "semi_additive"
    /\ LET rows == Within(asked.rows, asked.range)
       IN  Build(IF "day" \in asked.dims /\ asked.bucket = "day" THEN Simple(rows)
                 ELSE IF asked.collapse \in {"last", "first"} THEN Simple(Ranked(rows))
                 ELSE PerSnapshot(rows), Other)
    /\ ShowAll
BuildPercentile == asked.kind = "percentile" /\ Build(Percentile(asked.rows), Other) /\ ShowAll
BuildShifted == asked.kind = "offset" /\ Build(Simple(Shifted(asked.rows)), Other) /\ ShowAll
BuildWindowed == asked.kind = "rolling" /\ Build(Windowed(asked.rows), Other) /\ ShowAll
BuildConversions == asked.kind = "conversion" /\ Build(Conversions, Simple(asked.rows)) /\ ShowAll
BuildFinality ==
    /\ asked.kind = "finality" /\ ~ (asked.restricted /\ WindowExceedsWatermark)
    /\ Build(FinalityUnion, Simple(Filtered(asked.second)))
    /\ ShowAll
\* A restrict_source guardrail of severity error blocks the query.
BlockWindow ==
    /\ stage = "leaves" /\ asked.kind = "finality" /\ asked.restricted /\ WindowExceedsWatermark
    /\ stage' = "blocked"
    /\ UNCHANGED <<asked, leaf, visible, spine, out, earlier>>

\* With history included a filter on the order column does not reach the leaf.
RunningRows == IF asked.history = "include" THEN asked.rows ELSE Within(asked.rows, asked.range)
\* _visible_tuples: the days of the rows the visibility filter keeps.
VisibleDays == {KeyOf(r).day : r \in Within(asked.rows, asked.range)}
BuildRunning ==
    /\ asked.kind = "running"
    /\ Build(Simple(RunningRows), Other)
    /\ visible' = IF asked.history = "include" /\ asked.range # Null THEN VisibleDays ELSE Null

\* _fill_observed: every observed day at or after the partition's first one.
PartitionOf(key) == [d \in DOMAIN key \ {"day"} |-> key[d]]
Filled ==
    {k \in {[d \in asked.dims |-> IF d = "day" THEN t.key.day ELSE p.key[d]] : t, p \in leaf[1]} :
        \E first \in leaf[1] : /\ PartitionOf(first.key) = PartitionOf(k)
                               /\ ~ Before(k.day, first.key.day)}
FillKeys == IF asked.kind = "running" /\ asked.fill /\ asked.dims # {"day"} THEN Filled ELSE {}

ProjectsFinal(rel) == asked.kind = "finality" /\ rel = 1
\* _build_spine: the distinct keys of every leaf.  A leaf without is_final
\* stands on the final side.
SpineOf(rel) == {[key |-> r.key, final |-> IF ProjectsFinal(rel) THEN r.final ELSE TRUE] : r \in leaf[rel]}
BuildSpine ==
    /\ stage = "spine"
    /\ spine' = SpineOf(1) \cup SpineOf(2) \cup {[key |-> k, final |-> TRUE] : k \in FillKeys}
    /\ stage' = "project"
    /\ UNCHANGED <<asked, leaf, visible, out, earlier>>

\* Mutant: NULL keys are compared with =.
KeysMatch_PlainEquality(left, right) == left = right /\ \A d \in DOMAIN left : left[d] # Null
\* _null_safe_join_on.
KeysMatch(left, right) == left = right

\* The LEFT JOIN of a leaf to the spine.
ValueAt(rel, at) ==
    LET found == {r \in leaf[rel] : KeysMatch(at.key, r.key) /\ (ProjectsFinal(rel) => r.final = at.final)}
    IN  IF found = {} THEN Null ELSE (CHOOSE r \in found : TRUE).val

\* _accumulate_expr: a ROWS window over the spine, NULL until a value is seen.
RunningValue(at) ==
    LET frame == {s \in spine : /\ PartitionOf(s.key) = PartitionOf(at.key)
                                /\ ~ Before(at.key.day, s.key.day)}
    IN  SumOf({[id |-> s.key, v |-> ValueAt(1, s)] : s \in frame})

\* guard_division and _template; a quotient is the pair of its operands, the
\* zero put in place of one stands alone.
Divided(num, den) == IF num = Null \/ den = Null \/ den = 0 THEN Null ELSE <<num, den>>
Substituted == <<0>>
Zero(value) == IF value = Null THEN 0 ELSE value
Combined(a, b) ==
    CASE asked.combine = "direct" -> a
      [] asked.combine = "ratio_null" -> Divided(a, b)
      [] asked.combine = "ratio_zero" -> IF Divided(a, b) = Null THEN Substituted ELSE Divided(a, b)
      [] asked.combine = "rate" -> Divided(Zero(a), b)
      [] asked.combine = "count" -> IF a = Null /\ b # Null THEN 0 ELSE a
\* _zero_denominator_flag.
ZeroDenominator(b) == asked.combine \in {"ratio_null", "ratio_zero"} /\ b = 0

\* _build_visible_spine: a leaf under a visibility filter shows its visible
\* days, filled ones too; any other leaf shows all of its keys.
Shown ==
    IF visible = Null THEN {s.key : s \in spine}
    ELSE {k \in {r.key : r \in leaf[1]} \cup FillKeys : k.day \in visible} \cup {r.key : r \in leaf[2]}

Project ==
    /\ stage = "project"
    /\ out' = {[key |-> s.key, final |-> s.final, b |-> ValueAt(2, s),
                a |-> Combined(IF asked.kind = "running" THEN RunningValue(s) ELSE ValueAt(1, s), ValueAt(2, s)),
                zero |-> ZeroDenominator(ValueAt(2, s))] :
                 s \in {t \in spine : t.key \in Shown}}
    /\ stage' = "done"
    /\ UNCHANGED <<asked, leaf, visible, spine, earlier>>

\* The same query a day later: the rows are the same, the watermark may not be.
AskAgain ==
    /\ stage = "done" /\ asked.kind = "finality" /\ earlier = Null
    /\ asked' = [asked EXCEPT !.asOf = @ + 1]
    /\ earlier' = out
    /\ stage' = "range"
    /\ UNCHANGED <<leaf, visible, spine, out>>

Init ==
    /\ \E family \in Instances : asked \in family
    /\ stage = "range"
    /\ leaf = <<{}, {}>>
    /\ visible = Null
    /\ spine = {}
    /\ out = {}
    /\ earlier = Null

Next ==
    \/ ApplyTimeRange
    \/ BuildSimple \/ BuildDeduped \/ BuildSemiAdditive \/ BuildPercentile \/ BuildShifted
    \/ BuildRunning \/ BuildWindowed \/ BuildConversions \/ BuildFinality
    \/ BlockWindow
    \/ BuildSpine \/ Project \/ AskAgain

Spec == Init /\ [][Next]_vars

\* ---- Properties ----

Answered(kind) == stage = "done" /\ asked.kind = kind
Total(rows) == LET v == SumOf(rows) IN IF v = Null THEN 0 ELSE v
TotalOf(rel) == Total({[id |-> r, v |-> r.val] : r \in rel})

\* The stage, the leaves and the answer are well formed; in an answer a key
\* stands once per side of the watermark.
TypeOK ==
    /\ stage \in {"range", "leaves", "blocked", "spine", "project", "done"}
    /\ \A rel \in 1..2 : \A r \in leaf[rel] : DOMAIN r.key = asked.dims
    /\ \A r \in out : r.final \in BOOLEAN
    /\ \A r, s \in out : r.key = s.key /\ r.final = s.final => r = s

\* Whatever joined row DISTINCT ON keeps (_build_deduped), every row of the
\* owner that some joined row survives for is counted exactly once.
EachOwnerRowOnce ==
    Answered("deduped") =>
        TotalOf(leaf[1]) = Total({r \in asked.rows : \E j \in Surviving : j.id = r.id})

\* compose loses no row of a leaf, and shows it next to the other leaf's row
\* of the same key, NULL keys included.
EveryLeafRowIsShown ==
    stage = "done" /\ asked.kind \in {"simple", "deduped", "offset"} /\ asked.combine = "direct" =>
        /\ \A r \in leaf[1] : \E o \in out : o.key = r.key /\ o.a = r.val
        /\ \A r \in leaf[2] : \E o \in out : o.key = r.key /\ o.b = r.val
        /\ \A o \in out : \E rel \in 1..2 : \E r \in leaf[rel] : r.key = o.key

\* "The last n months" shows whole months: a period of the answer counts all
\* of its rows, but for the running one that include_current asks for.
PeriodsAreWhole ==
    Answered("simple") /\ asked.last # Null /\ "day" \in asked.dims =>
        \A o \in out : LET Of(rows) == {r \in rows : r.day <= asked.asOf /\ KeyOf(r) = o.key}
                       IN  o.a = SumOf(Of({r \in asked.rows : r.day # Null}))

\* A cumulative metric with its history included: the value of a visible day is
\* the sum of every row of its partition up to that day, also of rows the
\* filter hides, and every visible day of a partition with rows is shown.
RunningTotalsAreWhole ==
    Answered("running") /\ asked.history = "include" =>
        LET UpTo(k) == {r \in asked.rows : PartitionOf(KeyOf(r)) = PartitionOf(k) /\ ~ Before(k.day, KeyOf(r).day)}
        IN  /\ \A o \in out : o.a = SumOf(UpTo(o.key))
            /\ \A r \in Within(asked.rows, asked.range) : \E o \in out : o.key = KeyOf(r)

\* A semi-additive metric collapsed to its last snapshot counts every entity
\* once, with the latest value the filter lets through.
OneSnapshotPerEntity ==
    Answered("semi_additive") /\ asked.collapse = "last" /\ "day" \notin asked.dims =>
        LET rows == Within(asked.rows, asked.range)
        IN  TotalOf(leaf[1]) = Total({r \in rows : \A s \in rows : s.ent = r.ent => s.day <= r.day})

\* A shifted metric shows, for a day of the requested range, the rows that lie
\* its offsets before it.  Under one offset no prefilter takes one of them away;
\* an offset of an offset is whole without a range only, since each prefilter is
\* moved by its own offset (offset.py, _prefilters) and loses rows of the other.
ShiftKeepsItsRows ==
    Answered("offset") /\ (asked.range = Null \/ Len(asked.shifts) = 1) =>
        TotalOf(leaf[1]) = Total({r \in asked.rows : asked.range = Null \/ InRange(Shift(r.day), asked.range)})

\* A rolling metric per day: the value of a shown day is the sum over its whole
\* window, also where the window starts before the requested range, and every
\* requested day with rows of its own up to the anchor is shown.
WindowsAreWhole ==
    Answered("rolling") /\ asked.bucket = "day" =>
        /\ \A o \in leaf[1] :
               o.val = SumOf({r \in asked.rows : /\ InWindow(r.day, o.key.day)
                                                 /\ \A d \in asked.dims \ {"day"} : r[d] = o.key[d]})
        /\ \A r \in Within(asked.rows, asked.range) :
               r.day # Null /\ r.day <= asked.anchor => \E o \in out : o.key = KeyOf(r)

\* Every conversion event with a base event in reach is counted once, under a
\* key the base metric has too.
ConvertedOnce ==
    Answered("conversion") =>
        /\ TotalOf(leaf[1]) = Total({e \in asked.second : Attributable(e) # {}})
        /\ asked.dims # {} => {r.key : r \in leaf[1]} \subseteq {r.key : r \in leaf[2]}

\* Under a finality rule a day's value comes from one realization only, but for
\* the day that the watermark falls within, where the day of the business ends
\* within a day of the warehouse (finality.py, evaluate_watermark).
OneRealizationPerDay ==
    Answered("finality") /\ "day" \in asked.dims /\ asked.bucket = "day" =>
        \A r, s \in leaf[1] :
            r.key.day = s.key.day /\ r.final # s.final =>
                /\ r.key.day = DayAt(Gate(asked.asOf))
                /\ asked.zone # 0 /\ ~ asked.wallClock

\* A filter that _window_exceeds_watermark reads for what it is: a conjunction of
\* comparisons with the column on the left.
PlainFilter(filter) == filter.join = "and" /\ \A t \in filter.terms : ~ t.literalFirst

\* A query that restrict_source lets pass and that says where its window ends is
\* answered from final data alone, on the day and on the next (simple_additive.py,
\* _enforce_restrict_source).  Excepted is what the code takes for something else:
\* bounds under OR or NOT, comparisons written literal first, and gates by the wall
\* clock of a zone behind UTC, whose watermark in UTC lies past that clock.
RestrictedIsFinal ==
    /\ Answered("finality") /\ asked.restricted /\ Uppers # {}
    /\ \A filter \in asked.filters : PlainFilter(filter)
    /\ ~ (asked.wallClock /\ asked.zone < 0)
    => \A r \in leaf[1] : r.final

\* What an answer reported as final of a day that ended before the watermark it
\* reports again, unchanged, when the same query is asked the day after.
FinalStaysFinal ==
    Answered("finality") /\ earlier # Null /\ asked.bucket = "day" =>
        \A o \in earlier :
            o.final /\ o.a # Null /\ LastHour(o.key.day) <= Gate(asked.asOf - 1) =>
                \E p \in out : p.key = o.key /\ p.final /\ p.a = o.a

\* A row that an answer speaks of is counted in it once and shown, through joins,
\* snapshots, attribution and composition (the _build_* of compiler/strategies;
\* compose.py).
RowsCountOnce ==
    /\ TypeOK
    /\ EachOwnerRowOnce
    /\ EveryLeafRowIsShown
    /\ OneSnapshotPerEntity
    /\ ConvertedOnce

\* A value is computed from all the rows of the time it stands for, however the
\* request cuts, shifts or accumulates time (time_range.py; cumulative.py,
\* rolling.py, offset.py).
TimesAreWhole ==
    /\ PeriodsAreWhole
    /\ RunningTotalsAreWhole
    /\ ShiftKeepsItsRows
    /\ WindowsAreWhole

\* What is called final is, and stays so when the watermark moves (finality.py,
\* simple_additive.py).
FinalityHolds ==
    /\ OneRealizationPerDay
    /\ FinalStaysFinal
    /\ RestrictedIsFinal
==============================================================================
