------------------------------ MODULE Decompose ------------------------------
(***************************************************************************)
(* decompose (core/decompose.py, core/decompose_methods.py): why did a     *)
(* metric change between two periods.  One statement fetches the overall   *)
(* values of the leaf metrics, one more per split dimension their values   *)
(* per member; the arithmetic then attributes the change.  Meanwhile the   *)
(* warehouse is loaded and the assertion harness records its verdicts.     *)
(*                                                                         *)
(* A fact is one row of the warehouse: its day, its member of each split   *)
(* dimension, and its value of the leaf metrics n (numerator), d           *)
(* (denominator) and p (a part of n).  Under a finality rule it is a row   *)
(* of the final or of a provisional realization.                           *)
(***************************************************************************)
EXTENDS Trust, Calendar, SequencesExt

CONSTANTS Null,
          Requests,    \* what may be asked
          Warehouses,  \* the facts at the start
          Loads,       \* the facts a load may replace them by
          Inputs,      \* the trust input of each leaf metric
          Assertions,  \* the authored assertions, the bindings each covers
          Verdicts,    \* what evaluating one may say
          MaxBy        \* decompose.max_by

\* A day of the calendar.
IsDay(day) == \E m \in Months : day \in MonthStart[m] .. MonthStart[m] + MonthLengths[m] - 1
LeafNames == {"n", "d", "p"}

ASSUME DecomposeAssumption ==
    /\ \A r \in Requests : /\ IsDay(r.base) /\ IsDay(r.compare) /\ r.now \in Int
                           /\ r.grain \in {"day", "week", "month"}
                           /\ r.finality \in BOOLEAN /\ r.flagOpen \in BOOLEAN
                           /\ DOMAIN r.by = 1..Len(r.by) /\ Len(r.by) \in Nat
    /\ \A rows \in Warehouses \cup Loads : \A f \in rows : IsDay(f.day)
    /\ \A leaf \in LeafNames : Inputs[leaf].asserted \in BOOLEAN
    /\ DOMAIN Assertions = 1..Len(Assertions) /\ Len(Assertions) \in Nat
    /\ Verdicts \subseteq {"pass", "fail"}
    /\ MaxBy \in Nat

VARIABLES facts,      \* the warehouse
          loaded,     \* whether a load has replaced them
          asserting,  \* the outcomes of a running harness, or Null
          history,    \* .canonic/assertions.json
          request,    \* the request being served, or Null
          stage,      \* where it stands
          overall,    \* the overall values, leaf -> <<base, compare>>
          splits,     \* the breakdowns, in request order
          reads,      \* the rows each statement read
          tiers,      \* the trust tier of each statement
          answer,     \* what the caller got
          events      \* the answer events written

attributionVars == <<facts, loaded, asserting, history, request, stage, overall, splits, reads, tiers, answer, events>>

\* ---- Exact arithmetic ----

Gcd(a, b) == Max({k \in 1..b : a % k = 0 /\ b % k = 0})
Rat(a, b) == LET n == IF b < 0 THEN 0 - a ELSE a
                 d == IF b < 0 THEN 0 - b ELSE b
                 g == Gcd(IF n < 0 THEN 0 - n ELSE n, d)
             IN  <<n \div g, d \div g>>
Zero == <<0, 1>>
Int2(a) == <<a, 1>>
Plus(x, y) == Rat(x[1] * y[2] + y[1] * x[2], x[2] * y[2])
Neg(x) == <<0 - x[1], x[2]>>
Minus(x, y) == Plus(x, Neg(y))
Times(x, y) == Rat(x[1] * y[1], x[2] * y[2])
Over(x, y) == Rat(x[1] * y[2], x[2] * y[1])
Half(x) == Times(x, <<1, 2>>)
Larger(x, y) == LET Abs(v) == IF v < 0 THEN 0 - v ELSE v IN Abs(x[1]) * y[2] > Abs(y[1]) * x[2]
SumRat(s) == FoldSeq(Plus, Zero, s)

\* ---- Methods ----

\* _method_for: the leaves each method fetches.
Leaves(kind) ==
    CASE kind = "single" -> {"n"}
      [] kind = "ratio" -> {"n", "d"}
      [] kind = "parts" -> {"n", "d", "p"}
Decomposable == {"single", "ratio", "parts"}

Delta(pair) == Minus(Int2(pair[2]), Int2(pair[1]))
OneOver(d) == Over(Int2(1), Int2(d))
AvgInverse(v) == Half(Plus(OneOver(v.d[1]), OneOver(v.d[2])))
DeltaInverse(v) == Minus(OneOver(v.d[2]), OneOver(v.d[1]))
Mid(pair) == Half(Int2(pair[1] + pair[2]))

\* total.
Total(kind, v) ==
    IF kind = "single" THEN Delta(v.n)
    ELSE Minus(Over(Int2(v.n[2]), Int2(v.d[2])), Over(Int2(v.n[1]), Int2(v.d[1])))

\* effects: of the numerator, or of the part that is not the denominator, and
\* of the denominator, each at the midpoint of the other.
Effects(kind, v) ==
    CASE kind = "single" -> <<>>
      [] kind = "ratio" -> <<Times(Delta(v.n), AvgInverse(v)), Times(Mid(v.n), DeltaInverse(v))>>
      [] kind = "parts" -> <<Times(Delta(v.p), AvgInverse(v)), Times(Mid(v.p), DeltaInverse(v))>>

\* _row of the shift-share method: a member that has a denominator in both
\* periods, in one, or in none, which has no row.
ShiftShare(v, m) ==
    LET s0 == Over(Int2(m.d[1]), Int2(v.d[1]))
        s1 == Over(Int2(m.d[2]), Int2(v.d[2]))
        r0 == Over(Int2(m.n[1]), Int2(m.d[1]))
        r1 == Over(Int2(m.n[2]), Int2(m.d[2]))
        mix == Half(Times(Minus(s1, s0), Plus(r0, r1)))
        rate == Half(Times(Plus(s0, s1), Minus(r1, r0)))
    IN  CASE m.d[1] # 0 /\ m.d[2] # 0 -> Plus(mix, rate)
          [] m.d[1] = 0 /\ m.d[2] # 0 -> Times(s1, r1)
          [] m.d[1] # 0 /\ m.d[2] = 0 -> Neg(Times(s0, r0))
          [] OTHER -> Null

\* What a member contributes, per method.
Contribution(kind, v, m) ==
    CASE kind = "single" -> Delta(m.n)
      [] kind = "ratio" -> ShiftShare(v, m)
      [] kind = "parts" -> Times(Delta(m.p), AvgInverse(v))

\* _ranked: by magnitude, then by member, NULL last.
Ranked(rows) ==
    SetToSortSeq(rows, LAMBDA r, s : \/ Larger(r.value, s.value)
                                     \/ ~ Larger(s.value, r.value) /\ r.member # Null /\ (s.member = Null \/ r.member < s.member))

\* Mutant: what top_n cuts off is not merged into a rest.
Top_NoRest(rows, n) == SubSeq(rows, 1, IF Len(rows) < n THEN Len(rows) ELSE n)
\* _top: the rest is merged into one row of its own.
Top(rows, n) ==
    IF Len(rows) <= n THEN rows
    ELSE Append(SubSeq(rows, 1, n),
                [member |-> Null, rest |-> TRUE,
                 value |-> SumRat([i \in 1..Len(rows) - n |-> rows[n + i].value])])

\* split: the listed rows, and what they miss of the change.
Listed(kind, v, members, n) ==
    LET all == {[member |-> m, rest |-> FALSE, value |-> Contribution(kind, v, members[m])] : m \in DOMAIN members}
    IN  Top(Ranked({r \in all : r.value # Null}), n)
Explained(rows) == SumRat([i \in DOMAIN rows |-> rows[i].value])
\* What the rows of a split are measured against.
Target(kind, v) == IF kind = "parts" THEN Effects(kind, v)[1] ELSE Total(kind, v)
\* The members' own moves of the denominator, in its units.
DenominatorRows(members, n) ==
    Top(Ranked({[member |-> m, rest |-> FALSE, value |-> Delta(members[m].d)] :
                    m \in {k \in DOMAIN members : members[k].d # <<0, 0>>}}), n)
Split(kind, v, members, n) ==
    LET rows == Listed(kind, v, members, n)
    IN  [rows |-> rows, members |-> members, residual |-> Minus(Target(kind, v), Explained(rows)),
         denominators |-> IF kind = "parts" THEN DenominatorRows(members, n) ELSE <<>>]

\* ---- The statements ----

\* _resolve_period: the two periods of a request, by their first days.
Starts(r) == <<FloorDate(r.base, r.grain), FloorDate(r.compare, r.grain)>>
\* period_end: the first day after a period.
PeriodEnd(start, grain) ==
    CASE grain = "month" -> MonthStart[MonthOf(start) + 1]
      [] grain = "week" -> start + 7
      [] grain = "day" -> start + 1
\* _period_predicate: the rows a statement reads.
InPeriods(r) == {f \in facts : \E i \in 1..2 : f.day \in Starts(r)[i] .. PeriodEnd(Starts(r)[i], r.grain) - 1}
\* _period_index.
IsInPeriod(f, r, i) == FloorDate(f.day, r.grain) = Starts(r)[i]
\* The aggregates a measure of kind single compiles with.  COUNT adds up like SUM; MIN
\* and MAX stand for those that do not, AVG of a non_additive measure among them.
Aggregate(agg, leaf, rows) ==
    CASE agg = "sum" -> MapThenSumSet(LAMBDA f : f[leaf], rows)
      [] agg = "min" -> Min({f[leaf] : f \in rows})
      [] agg = "max" -> Max({f[leaf] : f \in rows})
\* A statement under a finality rule groups by is_final too.
IsProvisional(f, r) == r.finality /\ ~ f.final
\* _accumulate: the rows of the result that a period has are added up, whatever
\* aggregate each holds; NULL and a missing row count as zero.
SumIn(rows, leaf, r, i) ==
    LET own == {f \in rows : IsInPeriod(f, r, i)}
    IN  MapThenSumSet(LAMBDA side : Aggregate(r.agg, leaf, {f \in own : IsProvisional(f, r) = side}),
                      {IsProvisional(f, r) : f \in own})
\* _overall_values.
ValuesOf(rows, r) == [leaf \in LeafNames |-> <<SumIn(rows, leaf, r, 1), SumIn(rows, leaf, r, 2)>>]
\* _member_values.
MembersBy(dim, r) ==
    LET rows == InPeriods(r) IN [m \in {f[dim] : f \in rows} |-> ValuesOf({f \in rows : f[dim] = m}, r)]

\* The periods, 1 the base and 2 the compare one, that have not ended.
Open(r) == {i \in 1..2 : PeriodEnd(Starts(r)[i], r.grain) > r.now}

\* Whether open periods are looked for: trust.flag_open_periods gives the serving
\* clock, and a finality rule says itself which rows are provisional.
ChecksOpen(r) == r.flagOpen /\ ~ r.finality

\* open_periods, _latest_open: the latest period among the rows that came back has
\* not ended.
LatestOpen(r) ==
    LET seen == {FloorDate(f.day, r.grain) : f \in InPeriods(r)}
    IN  ChecksOpen(r) /\ seen # {} /\ PeriodEnd(Max(seen), r.grain) > r.now

\* finality_signal: some row of the result is provisional.
HasProvisional(r) == \E f \in InPeriods(r) : IsProvisional(f, r)

\* The trust score of a statement over the leaves of a request.
StatementTier(r) ==
    TrustFor({Inputs[leaf] : leaf \in Leaves(r.kind)}, history, {},
             {HasProvisional(r), LatestOpen(r)})

\* ---- Serving a request ----

\* No request yet.
Idle ==
    /\ request = Null /\ stage = "idle" /\ overall = Null
    /\ splits = <<>> /\ reads = <<>> /\ tiers = <<>> /\ answer = Null /\ events = <<>>

\* _check_request.
Malformed(r) ==
    \/ Len(r.by) > MaxBy
    \/ ~ IsInjective(r.by)
    \/ "period" \in ToSet(r.by)
\* _method_for: the kinds, and the components, that cannot be attributed.
Unsupported(r) == r.kind \notin Decomposable \/ (r.distinct /\ r.by # <<>>)
\* _check_reachable: the dimensions every leaf metric reaches.
Reached == {"region", "product", "channel"}
\* The checks before the first statement, in their order.
Refusal(r) ==
    IF ~ r.enabled THEN "capability_disabled"
    ELSE IF ~ r.resolves THEN "unresolved"
    ELSE IF Malformed(r) THEN "validation_failed"
    ELSE IF Unsupported(r) THEN "unsupported_measure"
    ELSE IF Starts(r)[1] = Starts(r)[2] THEN "validation_failed"
    ELSE IF ~ ToSet(r.by) \subseteq Reached THEN "unreachable"
    ELSE IF r.filtersPeriod THEN "validation_failed"
    ELSE IF ~ r.compiles THEN "guardrail_block"
    ELSE IF ChecksOpen(r) /\ Open(r) # {} /\ ~ r.allowOpen THEN "period_open"
    ELSE "none"

\* _emit_answer_event, in the finally of decompose(): a failure to write the event
\* is swallowed.
Emit(error, tier) ==
    \/ events' = Append(events, [error |-> error, tier |-> tier])
    \/ UNCHANGED events

World == <<facts, loaded, asserting, history>>
End(error, result) ==
    /\ stage' = "done"
    /\ answer' = result
    /\ Emit(error, IF result = Null THEN Null ELSE result.tier)

Receive(r) ==
    /\ stage = "idle"
    /\ request' = r
    /\ IF Refusal(r) # "none"
       THEN End(Refusal(r), Null)
       ELSE stage' = "overall" /\ UNCHANGED <<answer, events>>
    /\ UNCHANGED <<World, overall, splits, reads, tiers>>

\* check: the parts must sum to the numerator, the denominator must not be zero.
CheckFails(kind, v) ==
    CASE kind = "parts" /\ \E i \in 1..2 : v.p[i] + v.d[i] # v.n[i] -> "decomposition_inconsistent"
      [] kind \in {"ratio", "parts"} /\ 0 \in {v.d[1], v.d[2]} -> "validation_failed"
      [] OTHER -> "none"

RunOverall ==
    /\ stage = "overall"
    /\ overall' = ValuesOf(InPeriods(request), request)
    /\ reads' = Append(reads, InPeriods(request))
    /\ tiers' = Append(tiers, StatementTier(request))
    /\ IF CheckFails(request.kind, overall') # "none"
       THEN End(CheckFails(request.kind, overall'), Null)
       ELSE stage' = "splits" /\ UNCHANGED <<answer, events>>
    /\ UNCHANGED <<World, request, splits>>

RunSplit ==
    /\ stage = "splits"
    /\ Len(splits) < Len(request.by)
    /\ LET dim == request.by[Len(splits) + 1]
       IN  splits' = Append(splits, Split(request.kind, overall, MembersBy(dim, request), request.top))
    /\ reads' = Append(reads, InPeriods(request))
    /\ tiers' = Append(tiers, StatementTier(request))
    /\ UNCHANGED <<World, request, stage, overall, answer, events>>

\* Mutant: only the first statement counts.
MergedTrust_First(ts) == ts[1]
\* _merged_trust: the worst tier of the statements.
MergedTrust(ts) == Min(ToSet(ts))

Finish ==
    /\ stage = "splits"
    /\ Len(splits) = Len(request.by)
    /\ End("none", [total |-> Total(request.kind, overall), effects |-> Effects(request.kind, overall),
                    by |-> splits, tier |-> MergedTrust(tiers)])
    /\ UNCHANGED <<World, request, overall, splits, reads, tiers>>

\* A statement fails, or the caller goes away while one runs: the error of the
\* event stays empty, since a cancellation is no CanonicError.
Interrupted ==
    /\ stage \in {"overall", "splits"}
    /\ \E error \in {"query_failed", "cancelled"} :
          End(IF error = "cancelled" THEN "none" ELSE error, Null)
    /\ UNCHANGED <<World, request, overall, splits, reads, tiers>>

\* ---- What happens beside it ----

Load(new) ==
    /\ ~ loaded
    /\ facts' = new
    /\ loaded' = TRUE
    /\ UNCHANGED <<asserting, history, request, stage, overall, splits, reads, tiers, answer, events>>

StartHarness ==
    /\ asserting = Null
    /\ asserting' = <<>>
    /\ UNCHANGED <<facts, loaded, history, request, stage, overall, splits, reads, tiers, answer, events>>

\* The bindings whose record an outcome goes into: none for a candidate assertion
\* that is not executable yet, which is skipped.
Covered(assertion) == IF assertion.executable THEN assertion.bindings ELSE {}

RunAssertion(verdict) ==
    /\ asserting # Null
    /\ Len(asserting) < Len(Assertions)
    /\ asserting' = Append(asserting, [bindings |-> Covered(Assertions[Len(asserting) + 1]), verdict |-> verdict])
    /\ UNCHANGED <<facts, loaded, history, request, stage, overall, splits, reads, tiers, answer, events>>

\* A statement of the harness raises, and nothing is recorded.
HarnessFails ==
    /\ asserting # Null
    /\ Len(asserting) < Len(Assertions)
    /\ asserting' = Null
    /\ UNCHANGED <<facts, loaded, history, request, stage, overall, splits, reads, tiers, answer, events>>

RecordAssertions ==
    /\ asserting # Null
    /\ Len(asserting) = Len(Assertions)
    /\ history' = Recorded(asserting, DOMAIN history)
    /\ UNCHANGED <<facts, loaded, asserting, request, stage, overall, splits, reads, tiers, answer, events>>

AttributionInit ==
    /\ facts \in Warehouses
    /\ loaded = FALSE
    /\ asserting = Null
    /\ history = [b \in {Inputs[leaf].binding : leaf \in LeafNames} |-> "none"]
    /\ Idle

AttributionNext ==
    \/ \E r \in Requests : Receive(r)
    \/ RunOverall \/ RunSplit \/ Finish \/ Interrupted
    \/ \E new \in Loads : Load(new)
    \/ StartHarness
    \/ \E verdict \in Verdicts : RunAssertion(verdict)
    \/ HarnessFails \/ RecordAssertions

AttributionSpec == AttributionInit /\ [][AttributionNext]_attributionVars
\* ---- Properties ----

\* The fields of a state have the shapes the code gives them.
AttributionTypeOK ==
    /\ loaded \in BOOLEAN
    /\ stage \in {"idle", "overall", "splits", "done"}
    /\ \A b \in DOMAIN history : history[b] \in {"none", "pass", "fail"}
    /\ ToSet(tiers) \subseteq Tiers /\ Len(events) <= 1
    /\ Len(splits) <= MaxBy
    /\ (answer # Null) => stage = "done" /\ answer.tier \in Tiers

Answered == answer # Null
\* Every member that has a numerator in a period has a denominator in it.
WellFormedMembers(members) ==
    \A m \in DOMAIN members : \A i \in 1..2 : members[m].n[i] # 0 => members[m].d[i] # 0

\* The rows of a split, the merged rest included, explain the whole change they
\* are listed under, and the denominator's rows its whole move, whatever members
\* appear, vanish or are cut off by top_n.  That is so for leaves that add up, of a
\* split that reads the rows the overall values came from, while no member has a
\* numerator without a denominator.  MIN, MAX and AVG do not add up, though kind
\* single admits them, and a load between the statements shows in the residual.
SplitIsExact ==
    (Answered /\ request.agg = "sum") =>
        \A i \in DOMAIN splits :
           LET split == splits[i]
           IN  (reads[i + 1] = reads[1] /\ (request.kind # "ratio" \/ WellFormedMembers(split.members))) =>
                  /\ split.residual = Zero
                  /\ request.kind = "parts" => Explained(split.denominators) = Delta(overall.d)


Swapped(v) == [leaf \in DOMAIN v |-> <<v[leaf][2], v[leaf][1]>>]
\* The effects add up to the change, and asking the other way round negates each
\* of them: no period is favoured as the one the other is measured from.
EffectsAreSymmetric ==
    (Answered /\ request.kind # "single") =>
        LET effects == Effects(request.kind, overall)
            back == Effects(request.kind, Swapped(overall))
        IN  /\ SumRat(effects) = Total(request.kind, overall)
            /\ \A i \in DOMAIN effects : back[i] = Neg(effects[i])

ShownPairs ==
    {overall[leaf] : leaf \in LeafNames}
        \cup UNION {{splits[i].members[m][leaf] : m \in DOMAIN splits[i].members, leaf \in LeafNames} :
                       i \in DOMAIN splits}
\* An answer that shows a value of a period that has not ended is provisional at
\* most, also when that value came with a later statement than the first; under a
\* finality rule one that any statement found a provisional row for.  With
\* trust.flag_open_periods off open periods are not looked for.
OpenValuesAreCapped ==
    /\ Answered
    /\ \/ ChecksOpen(request) /\ \E pair \in ShownPairs : \E i \in Open(request) : pair[i] # 0
       \/ \E i \in DOMAIN reads : \E f \in reads[i] : IsProvisional(f, request)
    => answer.tier <= Provisional

\* A trusted answer rests on metrics that executable assertions cover, each of which
\* the harness has run and passed, in whatever order their verdicts were merged.
TrustedIsEarned ==
    (Answered /\ answer.tier = Trusted) =>
        \A leaf \in Leaves(request.kind) :
           LET own == {i \in 1..Len(Assertions) : Inputs[leaf].binding \in Covered(Assertions[i])}
           IN  own # {} /\ \A i \in own : asserting[i].verdict = "pass"

\* The event of a request, where it was written, reports the tier the caller was told.
EventTellsTheTier ==
    (stage = "done" /\ events # <<>>) => events[1].tier = IF Answered THEN answer.tier ELSE Null

\* The parts of an attribution add up to the change they explain, in either
\* direction (decompose_methods.py).
PartsExplainTheChange ==
    /\ SplitIsExact
    /\ EffectsAreSymmetric

\* The tier of an attribution is no better than what it rests on (decompose.py,
\* _merged_trust; scorer.py).
TierIsEarned ==
    /\ AttributionTypeOK
    /\ OpenValuesAreCapped
    /\ TrustedIsEarned
    /\ EventTellsTheTier
==============================================================================
