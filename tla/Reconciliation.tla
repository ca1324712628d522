--------------------------- MODULE Reconciliation ---------------------------
(***************************************************************************)
(* The reconciliation engine: what `canonic ingest` decides about the      *)
(* proposals of one run, given the accepted files.  Pure definitions over  *)
(* proposals (built from evidence) and facts (accepted context files).     *)
(*                                                                         *)
(* A fingerprint, a definition fingerprint and the value of the structural *)
(* fields (grain, joins, measures) are numbers; 0 means the file or the    *)
(* proposal does not carry one.                                            *)
(***************************************************************************)
EXTENDS Naturals, Sequences, SequencesExt

CONSTANTS
    Sources,         \* semantics/<connection>/<name>.yaml
    Bindings,        \* contracts/metrics/<metric>.yaml
    Assertions,      \* contracts/assertions/<id>.yaml
    BoundTo,         \* the source a binding's canonical reference names
    Needs,           \* the structural values that hold the measure it names
    MinConfidence,   \* reconcile.auto_apply.min_confidence, in tenths
    MaxProvenance    \* reconcile.auto_apply.max_provenance

VARIABLE
    project          \* canonic.yaml and the surroundings of the project; never changes

Targets == Sources \cup Bindings \cup Assertions

ASSUME ReconciliationAssumption ==
    /\ Sources \cap Bindings = {}
    /\ (Sources \cup Bindings) \cap Assertions = {}
    /\ BoundTo \in [Bindings -> Sources]
    /\ Needs \in [Bindings -> SUBSET Nat]
    /\ MinConfidence \in 0..10
    /\ MaxProvenance \in {"inferred", "human_curated", "board_approved"}

Provenances == {"inferred", "human_curated", "board_approved"}

\* "draft": a relation schema with the definitions folded in;
\* "deprecated": an additive deprecated-alternative patch;
\* "example": a trusted query drafted as an assertion;
\* "outcome": a recurring wrong_definition pattern;
\* "candidate": a binding a definition connector suggests.
Kinds == {"draft", "deprecated", "example", "outcome", "candidate"}

\* Every proposal enters at the lowest tier; the field is constant and so
\* left out.  types abstracts the column types (0: none stated), ref is the
\* deprecated alternative, scope the connection the evidence came from.
Proposals ==
    [target : Targets, kind : Kinds, fp : Nat, def : Nat, struct : Nat,
     types : Nat, conf : 0..10, modeling : BOOLEAN, llm : BOOLEAN,
     ref : Nat, scope : Nat]

Facts ==
    [on : BOOLEAN, fp : Nat, def : Nat, struct : Nat, prov : Provenances,
     frozen : BOOLEAN, refs : SUBSET Nat, human : BOOLEAN]

Absent ==
    [on |-> FALSE, fp |-> 0, def |-> 0, struct |-> 0, prov |-> "inferred",
     frozen |-> FALSE, refs |-> {}, human |-> FALSE]

-----------------------------------------------------------------------------
(* Authority, curation and equality                                         *)

Tier(prov) ==
    CASE prov = "inferred" -> 0
      [] prov = "human_curated" -> 1
      [] prov = "board_approved" -> 2

CurationRank(p) == IF p.modeling THEN 1 ELSE 0

\* A lower-tier proposal that states another type for a column.
HasTypeConflict(winner, others) ==
    winner.types # 0 /\ \E p \in others : p.types \notin {0, winner.types}

Signature(p) == IF p.fp # 0 THEN <<p.fp, p.def>> ELSE p

FingerprintsMatch(fact, p) ==
    /\ p.fp # 0 /\ p.fp = fact.fp
    /\ p.def # 0 /\ fact.def # 0 => p.def = fact.def

\* Sets a structural field of a new file, or changes one of an accepted file.
TouchesNeverField(p, fact) ==
    IF fact.on THEN p.struct # fact.struct ELSE p.struct # 0

AutoApplyEligible(p, fact) ==
    /\ project.autoApply   \* reconcile.auto_apply.enabled
    /\ p.conf >= MinConfidence
    /\ Tier("inferred") <= Tier(MaxProvenance)
    /\ ~TouchesNeverField(p, fact)

\* DiskAcceptedStore: the surfaces reconciliation reads.  Bindings are never
\* frozen, and an assertion file is not looked at.
AcceptedFact(t, files) == IF t \in Assertions THEN Absent ELSE files[t]

-----------------------------------------------------------------------------
(* The decision table                                                       *)

\* Mutant: the fingerprint is not stored.
RenderedBare(p) == [Absent EXCEPT !.on = TRUE, !.def = p.def, !.struct = p.struct]

\* The file a proposal's content renders to.
Rendered(p) ==
    [Absent EXCEPT !.on = TRUE, !.fp = IF p.target \in Sources THEN p.fp ELSE 0,
                   !.def = p.def, !.struct = p.struct]

Entry(decision, p, fact, after, auto) ==
    [decision |-> decision, target |-> p.target, kind |-> p.kind,
     base |-> fact, after |-> after, auto |-> auto,
     llm |-> p.llm, conf |-> p.conf, fp |-> p.fp, def |-> p.def]

Contradiction(p, fact) == Entry("contradiction", p, fact, fact, FALSE)
NoOp(p, fact) == Entry("no_op", p, fact, fact, FALSE)

MergeDeprecatedAlternative(p, fact) ==
    IF fact.frozen THEN Contradiction(p, fact)
    ELSE IF p.ref \in fact.refs THEN NoOp(p, fact)
    ELSE LET merged == [p EXCEPT !.struct = fact.struct] IN
         Entry("edit", p, fact, [fact EXCEPT !.refs = @ \cup {p.ref}],
               AutoApplyEligible(merged, fact))

\* A conflicting proposal is flagged, never turned into an edit.
Protected(fact) == fact.frozen \/ Tier(fact.prov) > Tier("inferred")

ReconcileOne(p, fact) ==
    CASE p.kind = "outcome" -> Contradiction(p, fact)
      [] p.kind # "outcome" /\ ~fact.on ->
           Entry("add", p, fact, Rendered(p), AutoApplyEligible(p, fact))
      [] p.kind # "outcome" /\ fact.on /\ FingerprintsMatch(fact, p) -> NoOp(p, fact)
      [] p.kind = "deprecated" /\ fact.on /\ ~FingerprintsMatch(fact, p) ->
           MergeDeprecatedAlternative(p, fact)
      [] p.kind \notin {"outcome", "deprecated"} /\ fact.on
            /\ ~FingerprintsMatch(fact, p) ->
           IF Protected(fact) THEN Contradiction(p, fact)
           ELSE Entry("edit", p, fact, Rendered(p), AutoApplyEligible(p, fact))

\* The proposals for one target, by their places in the list of all proposals;
\* candidates are resolved apart.
Group(ps, t) == {i \in DOMAIN ps : ps[i].target = t /\ ps[i].kind # "candidate"}

Agree(ps, group) == \A i, j \in group : Signature(ps[i]) = Signature(ps[j])

\* Those of the highest curation rank.
TopRanked(ps, group) ==
    {i \in group : \A j \in group : CurationRank(ps[j]) <= CurationRank(ps[i])}

\* Mutant: the first proposal of the highest rank wins.
ResolveGroupFirst(ps, group, fact) == {ReconcileOne(ps[Min(TopRanked(ps, group))], fact)}

\* A disagreeing group: modeling wins alone and without a type conflict,
\* otherwise every side is flagged.
ResolveGroup(ps, group, fact) ==
    LET winners == TopRanked(ps, group)
        losers == group \ winners
        first == ps[Min(winners)]
    IN  IF losers # {} /\ Agree(ps, winners) /\ ~HasTypeConflict(first, {ps[i] : i \in losers})
        THEN {ReconcileOne(first, fact)}
        ELSE {Contradiction(ps[i], fact) : i \in group}

DecideGroup(ps, group, fact) ==
    IF Agree(ps, group) THEN {ReconcileOne(ps[Min(group)], fact)}
                        ELSE ResolveGroup(ps, group, fact)

\* The proposals other than candidates, decided target by target.
DecideGroups(ps, files) ==
    UNION {DecideGroup(ps, Group(ps, t), AcceptedFact(t, files)) :
             t \in {u \in Targets : Group(ps, u) # {}}}

\* final_sources: what each source will hold if the run's diffs land.
FinalSource(s, entries, files) ==
    IF \E e \in entries : e.target = s /\ e.decision \in {"add", "edit"}
    THEN (CHOOSE e \in entries : e.target = s /\ e.decision \in {"add", "edit"}).after
    ELSE files[s]

\* The measure a binding is bound to exists on its source.
MeasureExists(b, fact) == fact.on /\ fact.struct \in Needs[b]

\* CandidateResolver: never changes a binding, and drops a candidate whose
\* measure the run will not leave in place.
ResolveCandidates(ps, entries, files) ==
    {LET b == ps[i].target IN
     IF files[b].on \/ ~MeasureExists(b, FinalSource(BoundTo[b], entries, files))
     THEN NoOp(ps[i], files[b])
     ELSE ReconcileOne(ps[i], Absent) :
       i \in {j \in DOMAIN ps : ps[j].kind = "candidate"}}

\* Mutant: frozen facts are pruned as well.
PruneFrozenToo(ps, files) ==
    {[decision |-> "prune", target |-> t, kind |-> "draft", base |-> files[t],
      after |-> Absent, auto |-> FALSE, llm |-> FALSE, conf |-> 10,
      fp |-> 0, def |-> 0] :
       t \in {u \in Sources \cup Bindings :
                /\ files[u].on /\ files[u].prov = "inferred"
                /\ \A i \in DOMAIN ps : ps[i].target # u}}

\* Mutant: the addressed targets are not left out.
PruneAddressedToo(ps, files) ==
    {[decision |-> "prune", target |-> t, kind |-> "draft", base |-> files[t],
      after |-> Absent, auto |-> FALSE, llm |-> FALSE, conf |-> 10,
      fp |-> 0, def |-> 0] :
       t \in {u \in Sources \cup Bindings :
                files[u].on /\ ~files[u].frozen /\ files[u].prov = "inferred"}}

\* Accepted inferred facts that no proposal of the run addressed.
PruneDisappeared(ps, files) ==
    {[decision |-> "prune", target |-> t, kind |-> "draft", base |-> files[t],
      after |-> Absent, auto |-> FALSE, llm |-> FALSE, conf |-> 10,
      fp |-> 0, def |-> 0] :
       t \in {u \in Sources \cup Bindings :
                /\ files[u].on /\ ~files[u].frozen /\ files[u].prov = "inferred"
                /\ \A i \in DOMAIN ps : ps[i].target # u}}

Reconcile(ps, files) ==
    LET decided == DecideGroups(ps, files) IN
    decided \cup ResolveCandidates(ps, decided, files) \cup PruneDisappeared(ps, files)

-----------------------------------------------------------------------------
(* Refinement, validation and emission                                      *)

Contradictions(entries, t) ==
    {e \in entries : e.target = t /\ e.decision = "contradiction"}

\* Targets with two or more contradicting sides, which the drafter may resolve.
Contested(entries) ==
    {t \in Targets : \E e, f \in Contradictions(entries, t) : e # f}

\* The drafter picks the proposal `pick` for one contested target; its entries
\* are replaced by the decision table's answer for that proposal.
Refine(entries, pick, files) ==
    (entries \ Contradictions(entries, pick.target))
        \cup {ReconcileOne(pick, AcceptedFact(pick.target, files))}

\* _materialize: the tree the gate validates.  Prunes are not proposals yet,
\* and a file of a higher tier keeps its place.
Materialized(ps, files) ==
    [t \in Targets |->
       LET mine == {i \in DOMAIN ps : ps[i].target = t}
           last == ps[Max(mine)]
       IN  IF mine = {} \/ (files[t].on /\ Tier(files[t].prov) > Tier("inferred"))
           THEN [fact |-> files[t], whole |-> TRUE]
           ELSE [fact |-> Rendered(last), whole |-> last.kind \notin {"deprecated", "outcome"}]]

\* validate_contracts: every binding parses and names a measure that exists.
ValidTree(tree) ==
    \A b \in Bindings :
        tree[b].fact.on =>
            tree[b].whole /\ MeasureExists(b, tree[BoundTo[b]].fact)

GatePasses(ps, files) ==
    \/ ps = <<>>
    \/ ValidTree(Materialized(ps, files))

\* DiffEmitter.emit: no-ops and contradictions produce no diff.
Diffs(entries) == {e \in entries : e.decision \in {"add", "edit", "prune"}}

\* write_emitted_diffs: each diff over whatever its target holds, in the order
\* of the report, where a candidate comes last.
WriteDiffs(diffs, files) ==
    [t \in Targets |->
       LET mine == {d \in diffs : d.target = t}
           last == CHOOSE d \in mine :
                       d.kind = "candidate" \/ \A e \in mine : e.kind # "candidate"
       IN  IF mine = {} THEN files[t] ELSE last.after]
=============================================================================
