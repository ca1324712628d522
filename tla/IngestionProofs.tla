--------------------------- MODULE IngestionProofs ---------------------------
(***************************************************************************)
(* Theorems about `canonic ingest` for every project: any files, any set   *)
(* of proposals the sources may state, any number of runs, with and        *)
(* without auto-apply and bootstrap.                                       *)
(***************************************************************************)
EXTENDS Ingestion, FiniteSetTheorems, WellFoundedInduction, TLAPS

-----------------------------------------------------------------------------
(* Places in a list                                                         *)

\* Every set of places has a first one.
LEMMA LeastNatural ==
    ASSUME NEW S \in SUBSET Nat, S # {}
    PROVE  \E x \in S : \A y \in S : x <= y
  <1> DEFINE R == OpToRel(<, Nat)
  <1>1. IsWellFoundedOn(R, Nat)
    BY NatLessThanWellFounded
  <1>2. \A x, y \in Nat : <<y, x>> \in R <=> y < x
    BY DEF OpToRel
  <1> HIDE DEF R
  <1>3. PICK x \in S : \A y \in S : ~(<<y, x>> \in R)
    BY <1>1, WFMin
  <1>4. \A y \in S : ~(y < x)
    BY <1>2, <1>3
  <1> QED
    BY <1>4

LEMMA MinIsIn ==
    ASSUME NEW S \in SUBSET Nat, S # {}
    PROVE  Min(S) \in S
  BY LeastNatural DEF Min

\* SetToSeq lists a finite set.
LEMMA SetToSeqLists ==
    ASSUME NEW S, IsFiniteSet(S)
    PROVE  SetToSeq(S) \in Seq(S)
  <1>1. Cardinality(S) \in Nat /\ ExistsBijection(1..Cardinality(S), S)
    BY FS_CardinalityType
  <1>2. \E f \in [1..Cardinality(S) -> S] : IsInjective(f)
    BY <1>1 DEF ExistsBijection, Bijection, Injection
  <1>3. SetToSeq(S) \in [1..Cardinality(S) -> S]
    BY <1>2 DEF SetToSeq
  <1> QED
    BY <1>1, <1>3

-----------------------------------------------------------------------------
(* The decision table                                                       *)

Decisions == {"add", "edit", "prune", "no_op", "contradiction"}

LEMMA AbsentIsFact == Absent \in Facts
  BY DEF Absent, Facts, Provenances

LEMMA RenderedIsFact ==
    ASSUME NEW p \in Proposals
    PROVE  /\ Rendered(p) \in Facts
           /\ Rendered(p).on = TRUE /\ Rendered(p).def = p.def
           /\ p.target \in Sources => Rendered(p).fp = p.fp
  BY DEF Rendered, Absent, Facts, Provenances, Proposals

LEMMA EntryIsEntry ==
    ASSUME NEW p \in Proposals, NEW fact \in Facts, NEW after \in Facts,
           NEW auto \in BOOLEAN, NEW decision \in Decisions
    PROVE  Entry(decision, p, fact, after, auto) \in Entries
  BY DEF Entry, Entries, Proposals, Decisions

\* A record of Entry has the fields it was given.
LEMMA EntryFields ==
    ASSUME NEW p, NEW fact, NEW after, NEW auto, NEW decision
    PROVE  LET e == Entry(decision, p, fact, after, auto) IN
           /\ e.decision = decision /\ e.target = p.target /\ e.kind = p.kind
           /\ e.base = fact /\ e.after = after /\ e.auto = auto
           /\ e.fp = p.fp /\ e.def = p.def
  BY DEF Entry

LEMMA NoDiffFields ==
    ASSUME NEW p, NEW fact
    PROVE  /\ Contradiction(p, fact).target = p.target /\ NoOp(p, fact).target = p.target
           /\ Contradiction(p, fact).kind = p.kind /\ NoOp(p, fact).kind = p.kind
           /\ Contradiction(p, fact).base = fact /\ NoOp(p, fact).base = fact
           /\ ~Contradiction(p, fact).auto /\ ~NoOp(p, fact).auto
           /\ Contradiction(p, fact).fp = p.fp /\ Contradiction(p, fact).def = p.def
           /\ Contradiction(p, fact).decision = "contradiction"
           /\ NoOp(p, fact).decision = "no_op"
  BY DEF Entry, Contradiction, NoOp

\* What _reconcile_one may answer: an addition where nothing is, an edit of an
\* unprotected fact that does not match, a merge into an unfrozen one, or no diff.
Decided(e, p, fact) ==
    /\ e \in Entries
    /\ e.target = p.target /\ e.kind = p.kind /\ e.base = fact
    /\ e.auto => project.autoApply
    /\ \/ e.decision = "add" /\ ~fact.on /\ e.after = Rendered(p)
       \/ /\ e.decision = "edit" /\ p.kind # "deprecated"
          /\ fact.on /\ ~FingerprintsMatch(fact, p) /\ ~fact.frozen /\ fact.prov = "inferred"
          /\ e.after = Rendered(p)
       \/ e.decision = "edit" /\ p.kind = "deprecated" /\ ~fact.frozen
       \/ e.decision \in {"no_op", "contradiction"}
    /\ p.kind = "outcome" => e.decision = "contradiction"

LEMMA TierOfInferred ==
    ASSUME NEW prov \in Provenances, ~(Tier(prov) > Tier("inferred"))
    PROVE  prov = "inferred"
  BY DEF Tier, Provenances

LEMMA AutoIsBoolean ==
    ASSUME NEW p, NEW fact
    PROVE  /\ AutoApplyEligible(p, fact) \in BOOLEAN
           /\ AutoApplyEligible(p, fact) => project.autoApply
  BY DEF AutoApplyEligible

LEMMA ReconcileOneDecides ==
    ASSUME NEW p \in Proposals, NEW fact \in Facts
    PROVE  Decided(ReconcileOne(p, fact), p, fact)
  <1> USE EntryFields, AutoIsBoolean
  <1>0. /\ p.kind \in Kinds /\ fact.prov \in Provenances /\ fact.on \in BOOLEAN
        /\ fact.frozen \in BOOLEAN
        /\ Rendered(p) \in Facts
    BY RenderedIsFact DEF Proposals, Facts
  <1>1. Contradiction(p, fact) \in Entries /\ NoOp(p, fact) \in Entries
    BY EntryIsEntry DEF Contradiction, NoOp, Decisions
  <1>2. CASE p.kind = "outcome"
    <2>1. ReconcileOne(p, fact) = Contradiction(p, fact)
      BY <1>2 DEF ReconcileOne
    <2> QED
      BY <1>1, <1>2, <2>1, NoDiffFields DEF Decided
  <1>3. CASE p.kind # "outcome" /\ ~fact.on
    <2>1. ReconcileOne(p, fact) = Entry("add", p, fact, Rendered(p), AutoApplyEligible(p, fact))
      BY <1>0, <1>3 DEF ReconcileOne
    <2>2. ReconcileOne(p, fact) \in Entries
      BY <1>0, <2>1, EntryIsEntry DEF Decisions
    <2> QED
      BY <1>3, <2>1, <2>2 DEF Decided
  <1>4. CASE p.kind # "outcome" /\ fact.on /\ FingerprintsMatch(fact, p)
    <2>1. ReconcileOne(p, fact) = NoOp(p, fact)
      BY <1>0, <1>4 DEF ReconcileOne
    <2> QED
      BY <1>1, <1>4, <2>1, NoDiffFields DEF Decided
  <1>5. CASE p.kind = "deprecated" /\ fact.on /\ ~FingerprintsMatch(fact, p)
    <2>1. ReconcileOne(p, fact) = MergeDeprecatedAlternative(p, fact)
      BY <1>0, <1>5 DEF ReconcileOne
    <2> DEFINE merged == [p EXCEPT !.struct = fact.struct]
               after == [fact EXCEPT !.refs = @ \cup {p.ref}]
    <2>2. after \in Facts
      BY DEF Facts, Proposals
    <2>3. ReconcileOne(p, fact) \in {Contradiction(p, fact), NoOp(p, fact)}
          \/ /\ ~fact.frozen
             /\ ReconcileOne(p, fact) = Entry("edit", p, fact, after, AutoApplyEligible(merged, fact))
      BY <2>1 DEF MergeDeprecatedAlternative
    <2> HIDE DEF merged, after
    <2>4. CASE ReconcileOne(p, fact) \in {Contradiction(p, fact), NoOp(p, fact)}
      BY <1>1, <1>5, <2>4, NoDiffFields DEF Decided
    <2>5. CASE /\ ~fact.frozen
               /\ ReconcileOne(p, fact) = Entry("edit", p, fact, after, AutoApplyEligible(merged, fact))
      <3>1. ReconcileOne(p, fact) \in Entries
        BY <2>2, <2>5, EntryIsEntry DEF Decisions
      <3> QED
        BY <1>5, <2>5, <3>1 DEF Decided
    <2> QED
      BY <2>3, <2>4, <2>5
  <1>6. CASE p.kind \notin {"outcome", "deprecated"} /\ fact.on /\ ~FingerprintsMatch(fact, p)
    <2>1. ReconcileOne(p, fact) =
            IF Protected(fact) THEN Contradiction(p, fact)
            ELSE Entry("edit", p, fact, Rendered(p), AutoApplyEligible(p, fact))
      BY <1>0, <1>6 DEF ReconcileOne
    <2>2. CASE Protected(fact)
      BY <1>1, <1>6, <2>1, <2>2, NoDiffFields DEF Decided
    <2>3. CASE ~Protected(fact)
      <3>1. ReconcileOne(p, fact) = Entry("edit", p, fact, Rendered(p), AutoApplyEligible(p, fact))
        BY <2>1, <2>3
      <3>2. ReconcileOne(p, fact) \in Entries
        BY <1>0, <3>1, EntryIsEntry DEF Decisions
      <3>3. ~fact.frozen /\ fact.prov = "inferred"
        BY <1>0, <2>3, TierOfInferred DEF Protected
      <3> QED
        BY <1>6, <3>1, <3>2, <3>3 DEF Decided
    <2> QED
      BY <2>2, <2>3
  <1> QED
    BY <1>0, <1>2, <1>3, <1>4, <1>5, <1>6

-----------------------------------------------------------------------------
(* Groups                                                                   *)

\* What a proposal of a project is like.
LEMMA ItemFacts ==
    ASSUME project \in Projects, NEW i \in project.items
    PROVE  /\ i \in Proposals /\ i.kind \in Kinds /\ i.target \in Targets
           /\ i.target \in Sources <=> i.kind = "draft"
           /\ i.target \in Bindings <=> i.kind \in {"deprecated", "outcome", "candidate"}
           /\ i.kind = "draft" => i.fp # 0
  <1>1. i \in Proposals /\ i.kind \in Kinds /\ i.target \in Targets
    BY IngestionAssumption DEF Proposals
  <1>2. i.target \in KindTargets(i.kind)
    BY IngestionAssumption
  <1>3. i.kind = "draft" => i.fp # 0
    BY IngestionAssumption
  <1>4. /\ i.kind = "draft" => i.target \in Sources
        /\ i.kind \in {"deprecated", "outcome", "candidate"} => i.target \in Bindings
        /\ i.kind = "example" => i.target \in Assertions
    BY <1>2 DEF KindTargets
  <1> QED
    BY <1>1, <1>3, <1>4, ReconciliationAssumption DEF Kinds

\* The proposals of the highest curation rank.
TopOf(said) == {p \in said : \A q \in said : CurationRank(q) <= CurationRank(p)}

\* One answer can be had from these proposals: they all say the same, or those of
\* the highest rank do and nobody else states other types.
Settles(said) ==
    \/ \A p, q \in said : Signature(p) = Signature(q)
    \/ /\ TopOf(said) # said
       /\ \A p, q \in TopOf(said) : Signature(p) = Signature(q)
       /\ \A p \in TopOf(said), q \in said \ TopOf(said) :
            p.types = 0 \/ q.types = 0 \/ p.types = q.types

\* p gives that answer.
Speaks(p, said) == p \in said /\ \A q \in TopOf(said) : Signature(q) = Signature(p)

\* Drafts with the same signature state the same types.
LEMMA SignaturesCoverTypes ==
    ASSUME project \in Projects, NEW p \in project.items, NEW q \in project.items,
           p.kind = "draft", q.kind = "draft", Signature(p) = Signature(q)
    PROVE  p.fp = q.fp /\ p.def = q.def /\ p.types = q.types
  <1>1. p.fp # 0 /\ q.fp # 0
    BY ItemFacts
  <1>2. p.fp = q.fp /\ p.def = q.def
    BY <1>1 DEF Signature
  <1> QED
    BY <1>2, IngestionAssumption

\* DecideGroup lets one proposal speak for its target, or flags them all.
LEMMA GroupDecides ==
    ASSUME project \in Projects, NEW ps \in Seq(project.items), NEW t \in Targets, NEW fact,
           Group(ps, t) # {}
    PROVE  LET said == {ps[i] : i \in Group(ps, t)}
               decided == DecideGroup(ps, Group(ps, t), fact)
           IN  \/ \E p \in said : /\ decided = {ReconcileOne(p, fact)}
                                  /\ t \in Sources => Settles(said) /\ Speaks(p, said)
               \/ /\ decided = {Contradiction(p, fact) : p \in said}
                  /\ t \in Sources => ~Settles(said)
  <1> DEFINE G == Group(ps, t)
             said == {ps[i] : i \in G}
             W == TopRanked(ps, G)
  <1>1. /\ G \in SUBSET Nat
        /\ \A i \in G : /\ ps[i] \in project.items /\ ps[i].target = t
                        /\ t \in Sources => ps[i].kind = "draft"
    <2>1. DOMAIN ps = 1..Len(ps) /\ Len(ps) \in Nat /\ \A i \in DOMAIN ps : ps[i] \in project.items
      OBVIOUS
    <2> QED
      BY <2>1, ItemFacts DEF Group
  <1>2. W \subseteq G /\ TopOf(said) = {ps[i] : i \in W}
    BY DEF TopRanked, TopOf
  <1>3. (G \ W # {}) <=> TopOf(said) # said
    BY DEF TopRanked, TopOf
  <1>4. Agree(ps, G) <=> \A p, q \in said : Signature(p) = Signature(q)
    BY DEF Agree
  <1>5. Agree(ps, W) <=> \A p, q \in TopOf(said) : Signature(p) = Signature(q)
    BY <1>2 DEF Agree
  <1>6. said \ TopOf(said) = {ps[i] : i \in G \ W}
    BY DEF TopRanked, TopOf
  <1>7. CASE Agree(ps, G)
    <2>1. Min(G) \in G
      BY <1>1, MinIsIn
    <2>2. Settles(said) /\ Speaks(ps[Min(G)], said)
      BY <1>2, <1>4, <1>7, <2>1 DEF Settles, Speaks
    <2>3. DecideGroup(ps, G, fact) = {ReconcileOne(ps[Min(G)], fact)}
      BY <1>7 DEF DecideGroup
    <2> QED
      BY <2>1, <2>2, <2>3
  <1>8. CASE ~Agree(ps, G)
    <2> DEFINE first == ps[Min(W)]
               lost == {ps[i] : i \in G \ W}
               wins == G \ W # {} /\ Agree(ps, W) /\ ~HasTypeConflict(first, lost)
    <2>1. DecideGroup(ps, G, fact) = IF wins THEN {ReconcileOne(first, fact)}
                                             ELSE {Contradiction(ps[i], fact) : i \in G}
      BY <1>8 DEF DecideGroup, ResolveGroup
    <2>2. W # {}
      <3>1. \A i \in G : CurationRank(ps[i]) \in {0, 1}
        BY DEF CurationRank
      <3>2. CASE \E i \in G : CurationRank(ps[i]) = 1
        BY <3>1, <3>2 DEF TopRanked
      <3>3. CASE ~\E i \in G : CurationRank(ps[i]) = 1
        BY <3>1, <3>3 DEF TopRanked
      <3> QED
        BY <3>2, <3>3
    <2>3. Min(W) \in W /\ first \in TopOf(said) /\ first \in said
      <3>1. W \in SUBSET Nat
        BY <1>1, <1>2
      <3>2. Min(W) \in W
        BY <2>2, <3>1, MinIsIn
      <3> QED
        BY <1>2, <3>2
    <2>4. lost = said \ TopOf(said)
      BY <1>6
    <2> HIDE DEF first, lost, W, G, said
    <2>5. CASE wins
      <3>1. Speaks(first, said)
        BY <1>5, <2>3, <2>5 DEF Speaks
      <3>2. ASSUME t \in Sources PROVE Settles(said)
        <4>1. \A p \in TopOf(said) : p.types = first.types
          <5>1. \A p \in said : p \in project.items /\ p.kind = "draft"
            BY <1>1, <3>2 DEF said
          <5>2. TopOf(said) \subseteq said
            BY DEF TopOf
          <5> QED
            BY <1>5, <2>3, <2>5, <5>1, <5>2, SignaturesCoverTypes
        <4>2. \A q \in lost : first.types = 0 \/ q.types = 0 \/ q.types = first.types
          BY <2>5 DEF HasTypeConflict
        <4> QED
          BY <1>3, <1>5, <2>4, <2>5, <4>1, <4>2 DEF Settles
      <3> QED
        BY <2>1, <2>3, <2>5, <3>1, <3>2 DEF G, said
    <2>6. CASE ~wins
      <3>1. ~Settles(said)
        <4>1. SUFFICES ASSUME TopOf(said) # said,
                              \A p, q \in TopOf(said) : Signature(p) = Signature(q),
                              \A p \in TopOf(said), q \in said \ TopOf(said) :
                                p.types = 0 \/ q.types = 0 \/ p.types = q.types
                       PROVE  FALSE
          BY <1>4, <1>8 DEF Settles
        <4>2. HasTypeConflict(first, lost)
          BY <1>3, <1>5, <2>6, <4>1
        <4> QED
          BY <2>3, <2>4, <4>1, <4>2 DEF HasTypeConflict
      <3>2. DecideGroup(ps, G, fact) = {Contradiction(p, fact) : p \in said}
        BY <2>1, <2>6 DEF said
      <3> QED
        BY <3>1, <3>2 DEF G, said
    <2> QED
      BY <2>5, <2>6
  <1> QED
    BY <1>7, <1>8

-----------------------------------------------------------------------------
(* What a report says                                                       *)

\* A diff of a source has its content from a proposal that may speak for the
\* source, or was picked by the model; a prune is of a source nobody mentions.
FromEvidence(d, said, refined) ==
    \/ d.decision = "prune" /\ said = {}
    \/ /\ d.decision # "prune"
       /\ \E p \in said : d.after = Rendered(p) /\ (Settles(said) => Speaks(p, said))
       /\ d.target \notin refined => Settles(said)

\* One decision, by itself (pr: the project).
SoundEntry(pr, d) ==
    /\ d \in Entries
    /\ d.auto => pr.autoApply
    /\ d.decision \in {"edit", "prune"} =>
         /\ ~d.base.frozen
         /\ d.kind # "deprecated" => d.base.prov = "inferred"
    /\ d.decision # "prune" =>
         /\ d.target \in Sources <=> d.kind = "draft"
         /\ d.target \in Bindings <=> d.kind \in {"deprecated", "outcome", "candidate"}
    /\ d.decision = "prune" => d.kind = "draft"
    /\ d.kind = "outcome" => d.decision = "contradiction"

\* Two diffs of one report.
Compatible(d, e) ==
    d.target = e.target => d = e \/ {d.kind, e.kind} = {"deprecated", "candidate"}

\* A contested target has no diff yet, but for a candidate, and no proposal may
\* speak for it.
StillContested(t, entries, ps) ==
    /\ \A d \in Diffs(entries) : d.target = t => d.kind = "candidate"
    /\ t \in Sources => ~Settles(EvidenceFor(t, ps))

SoundReport(pr, entries, ps, refined) ==
    /\ \A d \in entries : SoundEntry(pr, d)
    /\ \A d, e \in Diffs(entries) : Compatible(d, e)
    /\ \A d \in Diffs(entries) : d.target \in Sources =>
         FromEvidence(d, EvidenceFor(d.target, ps), refined)
    /\ \A t \in Contested(entries) : StillContested(t, entries, ps)

\* What a run gathers: proposals of the project, one candidate per binding.
Gathered(pr, ps) ==
    /\ ps \in Seq(pr.items)
    /\ \A i, j \in DOMAIN ps :
         ps[i].kind = "candidate" /\ ps[j].kind = "candidate" /\ ps[i].target = ps[j].target =>
           ps[i] = ps[j]

LEMMA DecidedIsSound ==
    ASSUME project \in Projects, NEW p \in project.items, NEW fact, NEW e, Decided(e, p, fact)
    PROVE  SoundEntry(project, e)
  BY ItemFacts DEF Decided, SoundEntry

\* For a source, the group is all the evidence.
LEMMA SourceGroup ==
    ASSUME project \in Projects, NEW ps \in Seq(project.items), NEW t \in Sources
    PROVE  {ps[i] : i \in Group(ps, t)} = EvidenceFor(t, ps)
  <1>1. \A i \in DOMAIN ps : ps[i].target = t => ps[i].kind # "candidate"
    BY ItemFacts
  <1> QED
    BY <1>1 DEF Group, EvidenceFor

\* The entries of one group.
LEMMA GroupEntries ==
    ASSUME project \in Projects, NEW ps \in Seq(project.items), NEW t \in Targets,
           NEW fact \in Facts, Group(ps, t) # {}
    PROVE  LET decided == DecideGroup(ps, Group(ps, t), fact) IN
           /\ \A e \in decided : SoundEntry(project, e) /\ e.target = t /\ e.kind # "candidate"
                                 /\ e.decision # "prune"
           /\ \/ \A d, e \in decided : d = e
              \/ /\ \A d \in decided : d.decision = "contradiction"
                 /\ t \in Sources => ~Settles(EvidenceFor(t, ps))
           /\ t \in Sources => \A d \in Diffs(decided) :
                FromEvidence(d, EvidenceFor(t, ps), {})
  <1> DEFINE said == {ps[i] : i \in Group(ps, t)}
             decided == DecideGroup(ps, Group(ps, t), fact)
  <1>1. \A p \in said : p \in project.items /\ p \in Proposals /\ p.target = t
                        /\ p.kind # "candidate" /\ (t \in Sources => p.kind = "draft")
    <2>1. \A i \in Group(ps, t) : ps[i] \in project.items /\ ps[i].target = t
                                 /\ ps[i].kind # "candidate"
      BY DEF Group
    <2> QED
      BY <2>1, ItemFacts
  <1>2. t \in Sources => said = EvidenceFor(t, ps)
    BY SourceGroup
  <1>3. \/ \E p \in said : /\ decided = {ReconcileOne(p, fact)}
                           /\ t \in Sources => Settles(said) /\ Speaks(p, said)
        \/ /\ decided = {Contradiction(p, fact) : p \in said}
           /\ t \in Sources => ~Settles(said)
    BY GroupDecides
  <1> HIDE DEF said, decided
  <1>4. ASSUME NEW p \in said, decided = {ReconcileOne(p, fact)},
               t \in Sources => Settles(said) /\ Speaks(p, said)
        PROVE  /\ \A e \in decided : SoundEntry(project, e) /\ e.target = t /\ e.kind # "candidate"
                                      /\ e.decision # "prune"
               /\ \A d, e \in decided : d = e
               /\ t \in Sources => \A d \in Diffs(decided) :
                    FromEvidence(d, EvidenceFor(t, ps), {})
    <2> DEFINE e == ReconcileOne(p, fact)
    <2>1. Decided(e, p, fact)
      BY <1>1, ReconcileOneDecides
    <2> HIDE DEF e
    <2>2. SoundEntry(project, e) /\ e.target = t /\ e.kind # "candidate" /\ e.decision # "prune"
      BY <1>1, <2>1, DecidedIsSound DEF Decided
    <2>3. ASSUME t \in Sources, e \in Diffs(decided)
          PROVE  FromEvidence(e, EvidenceFor(t, ps), {})
      <3>1. e.after = Rendered(p)
        BY <1>1, <2>1, <2>3 DEF Decided, Diffs
      <3> QED
        BY <1>2, <1>4, <2>2, <2>3, <3>1 DEF FromEvidence
    <2> QED
      BY <1>4, <2>2, <2>3 DEF e, Diffs
  <1>5. ASSUME decided = {Contradiction(p, fact) : p \in said}, t \in Sources => ~Settles(said)
        PROVE  /\ \A e \in decided : SoundEntry(project, e) /\ e.target = t /\ e.kind # "candidate"
                                      /\ e.decision = "contradiction"
               /\ t \in Sources => ~Settles(EvidenceFor(t, ps))
               /\ Diffs(decided) = {}
    <2>1. ASSUME NEW p \in said
          PROVE  LET e == Contradiction(p, fact) IN
                 SoundEntry(project, e) /\ e.target = t /\ e.kind # "candidate"
                   /\ e.decision = "contradiction"
      <3> DEFINE e == Contradiction(p, fact)
      <3>1. e \in Entries
        BY <1>1, EntryIsEntry DEF Contradiction, Decisions
      <3>2. /\ ~e.auto /\ e.decision = "contradiction" /\ e.target = p.target /\ e.kind = p.kind
        BY NoDiffFields
      <3> HIDE DEF e
      <3>3. SoundEntry(project, e)
        BY <1>1, <3>1, <3>2, ItemFacts DEF SoundEntry
      <3> QED
        BY <1>1, <3>2, <3>3 DEF e
    <2> QED
      BY <1>2, <1>5, <2>1 DEF Diffs
  <1> QED
    BY <1>3, <1>4, <1>5 DEF decided

LEMMA CandidateEntries ==
    ASSUME project \in Projects, NEW ps, Gathered(project, ps), NEW entries,
           files \in [Targets -> Facts]
    PROVE  LET found == ResolveCandidates(ps, entries, files) IN
           /\ \A e \in found : SoundEntry(project, e) /\ e.kind = "candidate"
                               /\ e.decision \in {"no_op", "add"}
                               /\ \E i \in DOMAIN ps : ps[i].target = e.target
           /\ \A d, e \in found : d.target = e.target => d = e
  <1> DEFINE Places == {j \in DOMAIN ps : ps[j].kind = "candidate"}
             Answer(p) ==
               IF files[p.target].on
                    \/ ~MeasureExists(p.target, FinalSource(BoundTo[p.target], entries, files))
               THEN NoOp(p, files[p.target])
               ELSE ReconcileOne(p, Absent)
  <1>1. ResolveCandidates(ps, entries, files) = {Answer(ps[i]) : i \in Places}
    BY DEF ResolveCandidates
  <1>2. ASSUME NEW i \in Places
        PROVE  /\ SoundEntry(project, Answer(ps[i])) /\ Answer(ps[i]).kind = "candidate"
               /\ Answer(ps[i]).target = ps[i].target
               /\ Answer(ps[i]).decision \in {"no_op", "add"}
    <2> DEFINE p == ps[i]
               fact == files[p.target]
    <2>1. p \in project.items /\ p.kind = "candidate"
      BY DEF Gathered
    <2>2. p \in Proposals /\ p.target \in Bindings /\ fact \in Facts
      BY <2>1, ItemFacts DEF Targets
    <2> HIDE DEF p, fact
    <2>3. CASE Answer(p) = NoOp(p, fact)
      <3>1. NoOp(p, fact) \in Entries
        BY <2>2, EntryIsEntry DEF NoOp, Decisions
      <3>2. /\ ~NoOp(p, fact).auto /\ NoOp(p, fact).decision = "no_op"
            /\ NoOp(p, fact).target = p.target /\ NoOp(p, fact).kind = p.kind
        BY NoDiffFields
      <3>3. SoundEntry(project, NoOp(p, fact))
        BY <2>1, <3>1, <3>2, ItemFacts DEF SoundEntry
      <3> QED
        BY <2>1, <2>3, <3>2, <3>3 DEF p
    <2>4. CASE Answer(p) = ReconcileOne(p, Absent)
      <3> DEFINE e == ReconcileOne(p, Absent)
      <3>1. Decided(e, p, Absent)
        BY <2>2, AbsentIsFact, ReconcileOneDecides
      <3>2. ~Absent.on
        BY DEF Absent
      <3>3. e = Entry("add", p, Absent, Rendered(p), AutoApplyEligible(p, Absent))
        BY <2>1, <3>2 DEF ReconcileOne
      <3>4. e.decision = "add"
        BY <3>3, EntryFields
      <3>5. SoundEntry(project, e)
        BY <2>1, <3>1, DecidedIsSound
      <3> HIDE DEF e
      <3>6. e.kind = "candidate" /\ e.target = p.target
        BY <2>1, <3>1 DEF Decided
      <3> QED
        BY <2>4, <3>4, <3>5, <3>6 DEF p, e
    <2> QED
      BY <2>3, <2>4 DEF p, fact
  <1>3. ASSUME NEW i \in Places, NEW j \in Places, ps[i].target = ps[j].target
        PROVE  Answer(ps[i]) = Answer(ps[j])
    <2>1. ps[i] = ps[j]
      BY <1>3 DEF Gathered
    <2> HIDE DEF Answer
    <2> QED
      BY <2>1
  <1> HIDE DEF Answer
  <1> QED
    BY <1>1, <1>2, <1>3

LEMMA PruneEntries ==
    ASSUME NEW ps, files \in [Targets -> Facts]
    PROVE  LET found == PruneDisappeared(ps, files) IN
           /\ \A e \in found : /\ SoundEntry(project, e) /\ e.decision = "prune"
                               /\ e.kind = "draft"
                               /\ \A i \in DOMAIN ps : ps[i].target # e.target
           /\ \A d, e \in found : d.target = e.target => d = e
  <1> DEFINE Prune(t) ==
               [decision |-> "prune", target |-> t, kind |-> "draft", base |-> files[t],
                after |-> Absent, auto |-> FALSE, llm |-> FALSE, conf |-> 10,
                fp |-> 0, def |-> 0]
             Gone == {u \in Sources \cup Bindings :
                        /\ files[u].on /\ ~files[u].frozen /\ files[u].prov = "inferred"
                        /\ \A i \in DOMAIN ps : ps[i].target # u}
  <1>1. PruneDisappeared(ps, files) = {Prune(t) : t \in Gone}
    BY DEF PruneDisappeared
  <1>2. ASSUME NEW t \in Gone
        PROVE  SoundEntry(project, Prune(t)) /\ Prune(t).decision = "prune" /\ Prune(t).kind = "draft"
               /\ Prune(t).target = t /\ \A i \in DOMAIN ps : ps[i].target # t
    <2>1. t \in Targets /\ files[t] \in Facts
      BY DEF Targets
    <2>2. Prune(t) \in Entries
      BY <2>1, AbsentIsFact DEF Entries, Kinds
    <2>3. /\ ~Prune(t).auto /\ Prune(t).decision = "prune" /\ Prune(t).kind = "draft"
          /\ Prune(t).base = files[t] /\ Prune(t).target = t
      OBVIOUS
    <2> HIDE DEF Prune
    <2> QED
      BY <2>2, <2>3 DEF SoundEntry
  <1> HIDE DEF Prune
  <1> QED
    BY <1>1, <1>2

LEMMA AcceptedIsFact ==
    ASSUME NEW store \in [Targets -> Facts], NEW t \in Targets
    PROVE  /\ AcceptedFact(t, store) \in Facts
           /\ t \notin Assertions => AcceptedFact(t, store) = store[t]
           /\ t \in Sources => AcceptedFact(t, store) = store[t]
  BY AbsentIsFact, ReconciliationAssumption DEF AcceptedFact

\* ReconciliationEngine.reconcile writes a sound report.
LEMMA ReconcileIsSound ==
    ASSUME project \in Projects, NEW ps, Gathered(project, ps), files \in [Targets -> Facts]
    PROVE  SoundReport(project, Reconcile(ps, files), ps, {})
  <1> DEFINE Of(t) == DecideGroup(ps, Group(ps, t), AcceptedFact(t, files))
             Addressed == {u \in Targets : Group(ps, u) # {}}
             G == DecideGroups(ps, files)
             C == ResolveCandidates(ps, G, files)
             P == PruneDisappeared(ps, files)
             all == G \cup C \cup P
  <1>0. ps \in Seq(project.items)
    BY DEF Gathered
  <1>1. Reconcile(ps, files) = all
    BY DEF Reconcile
  <1>2. \A e : e \in G <=> \E t \in Addressed : e \in Of(t)
    BY DEF DecideGroups
  <1>3. ASSUME NEW t \in Addressed
        PROVE  /\ \A e \in Of(t) : SoundEntry(project, e) /\ e.target = t /\ e.kind # "candidate"
                                   /\ e.decision # "prune"
               /\ \/ \A d, e \in Of(t) : d = e
                  \/ /\ \A d \in Of(t) : d.decision = "contradiction"
                     /\ t \in Sources => ~Settles(EvidenceFor(t, ps))
               /\ t \in Sources => \A d \in Diffs(Of(t)) :
                    FromEvidence(d, EvidenceFor(t, ps), {})
               /\ \E i \in DOMAIN ps : ps[i].target = t
    <2>1. AcceptedFact(t, files) \in Facts
      BY AcceptedIsFact
    <2>2. \E i \in DOMAIN ps : ps[i].target = t
      BY DEF Group
    <2> QED
      BY <1>0, <2>1, <2>2, GroupEntries
  <1>4. /\ \A e \in C : SoundEntry(project, e) /\ e.kind = "candidate" /\ e.decision \in {"no_op", "add"}
                       /\ \E i \in DOMAIN ps : ps[i].target = e.target
        /\ \A d, e \in C : d.target = e.target => d = e
    BY CandidateEntries
  <1>5. /\ \A e \in P : /\ SoundEntry(project, e) /\ e.decision = "prune"
                        /\ e.kind = "draft"
                        /\ \A i \in DOMAIN ps : ps[i].target # e.target
        /\ \A d, e \in P : d.target = e.target => d = e
    BY PruneEntries
  <1> HIDE DEF Of, G, C, P, Addressed
  <1>6. \A e \in G : e.target \in Addressed /\ e \in Of(e.target) /\ e.kind # "candidate"
                     /\ SoundEntry(project, e) /\ e.decision # "prune"
    BY <1>2, <1>3
  <1>7. \A d \in all : SoundEntry(project, d)
    BY <1>4, <1>5, <1>6
  <1>8. ASSUME NEW d \in Diffs(all), NEW e \in Diffs(all) PROVE Compatible(d, e)
    <2> SUFFICES ASSUME d.target = e.target
                 PROVE  d = e \/ {d.kind, e.kind} = {"deprecated", "candidate"}
      BY DEF Compatible
    <2>0. /\ d \in all /\ d.decision \in {"add", "edit", "prune"}
          /\ e \in all /\ e.decision \in {"add", "edit", "prune"}
      BY DEF Diffs
    <2>1. CASE d \in P \/ e \in P
      <3>1. d \in P /\ e \in P
        BY <1>3, <1>4, <1>5, <1>6, <2>0, <2>1
      <3> QED
        BY <1>5, <3>1
    <2>2. CASE d \in G /\ e \in G
      BY <1>3, <1>6, <2>0, <2>2
    <2>3. CASE d \in C /\ e \in C
      BY <1>4, <2>3
    <2>4. ASSUME NEW a \in G, NEW b \in C, a.target = b.target,
                 a.decision \in {"add", "edit", "prune"}
          PROVE  a.kind = "deprecated" /\ b.kind = "candidate"
      <3>1. b.kind = "candidate" /\ b.target \in Bindings
        BY <1>4, <2>4 DEF SoundEntry
      <3>2. a.kind \in {"deprecated", "outcome", "candidate"} /\ a.kind # "candidate"
            /\ a.kind # "outcome"
        BY <1>6, <2>4, <3>1 DEF SoundEntry
      <3> QED
        BY <3>1, <3>2
    <2>5. CASE (d \in G /\ e \in C) \/ (d \in C /\ e \in G)
      <3>1. \/ d.kind = "deprecated" /\ e.kind = "candidate"
            \/ e.kind = "deprecated" /\ d.kind = "candidate"
        BY <2>0, <2>4, <2>5
      <3> QED
        BY <3>1
    <2> QED
      BY <2>0, <2>1, <2>2, <2>3, <2>5
  <1>9. ASSUME NEW d \in Diffs(all), d.target \in Sources
        PROVE  FromEvidence(d, EvidenceFor(d.target, ps), {})
    <2>0. d \in all /\ d.decision \in {"add", "edit", "prune"}
      BY DEF Diffs
    <2>1. CASE d \in G
      <3>1. d \in Diffs(Of(d.target))
        BY <1>6, <2>0, <2>1 DEF Diffs
      <3> QED
        BY <1>3, <1>6, <1>9, <2>1, <3>1
    <2>2. CASE d \in C
      <3>1. d.target \notin Sources
        BY <1>4, <2>0, <2>2 DEF SoundEntry
      <3> QED
        BY <1>9, <3>1
    <2>3. CASE d \in P
      <3>1. EvidenceFor(d.target, ps) = {}
        BY <1>5, <2>3 DEF EvidenceFor
      <3> QED
        BY <1>5, <2>3, <3>1 DEF FromEvidence
    <2> QED
      BY <2>0, <2>1, <2>2, <2>3
  <1>10. ASSUME NEW t \in Contested(all) PROVE StillContested(t, all, ps)
    <2>1. PICK e \in all, f \in all : /\ e # f /\ e.target = t /\ f.target = t
                                     /\ e.decision = "contradiction"
                                     /\ f.decision = "contradiction"
      BY DEF Contested, Contradictions
    <2>2. e \in G /\ f \in G
      BY <1>4, <1>5, <2>1
    <2>3. t \in Addressed /\ e \in Of(t) /\ f \in Of(t)
      BY <1>6, <2>1, <2>2
    <2>4. /\ \A d \in Of(t) : d.decision = "contradiction"
          /\ t \in Sources => ~Settles(EvidenceFor(t, ps))
          /\ \E i \in DOMAIN ps : ps[i].target = t
      BY <1>3, <2>1, <2>3
    <2>5. ASSUME NEW d \in Diffs(all), d.target = t PROVE d.kind = "candidate"
      BY <1>4, <1>5, <1>6, <2>4, <2>5 DEF Diffs
    <2> QED
      BY <2>4, <2>5 DEF StillContested
  <1> QED
    BY <1>1, <1>7, <1>8, <1>9, <1>10 DEF SoundReport

\* So does ReconciliationEngine.refine, with the picked target on record.
LEMMA RefineIsSound ==
    ASSUME project \in Projects, NEW ps \in Seq(project.items), NEW store \in [Targets -> Facts],
           NEW entries, NEW refined, SoundReport(project, entries, ps, refined),
           NEW i \in DOMAIN ps, ps[i].kind # "candidate", ps[i].target \in Contested(entries)
    PROVE  SoundReport(project, Refine(entries, ps[i], store), ps, refined \cup {ps[i].target})
  <1> DEFINE p == ps[i]
             t == p.target
             fact == AcceptedFact(t, store)
             new == ReconcileOne(p, fact)
             E == Refine(entries, p, store)
  <1>1. p \in project.items /\ p \in Proposals /\ t \in Targets /\ fact \in Facts
    BY ItemFacts, AcceptedIsFact
  <1>2. Decided(new, p, fact)
    BY <1>1, ReconcileOneDecides
  <1>3. SoundEntry(project, new) /\ new.target = t /\ new.kind = p.kind
    BY <1>1, <1>2, DecidedIsSound DEF Decided
  <1>4. StillContested(t, entries, ps)
    BY DEF SoundReport
  <1>5. E = (entries \ Contradictions(entries, t)) \cup {new}
    BY DEF Refine
  <1>6. p \in EvidenceFor(t, ps)
    BY DEF EvidenceFor
  <1> HIDE DEF new, E
  <1>7. Diffs(E) \subseteq Diffs(entries) \cup {new}
    BY <1>5 DEF Diffs
  <1>8. \A d \in E : SoundEntry(project, d)
    BY <1>3, <1>5 DEF SoundReport
  <1>9. ASSUME NEW d \in Diffs(entries), d.target = t, new \in Diffs(E)
        PROVE  {d.kind, new.kind} = {"deprecated", "candidate"}
    <2>1. d.kind = "candidate" /\ d \in entries /\ d.decision \in {"add", "edit", "prune"}
      BY <1>4, <1>9 DEF StillContested, Diffs
    <2>2. t \in Bindings
      BY <1>9, <2>1 DEF SoundReport, SoundEntry
    <2>3. p.kind \in {"deprecated", "outcome"}
      BY <1>1, <2>2, ItemFacts
    <2>4. new.kind = "deprecated"
      BY <1>3, <1>9, <2>3 DEF SoundEntry, Diffs
    <2> QED
      BY <2>1, <2>4
  <1>10. ASSUME NEW d \in Diffs(E), NEW e \in Diffs(E), d.target = e.target
         PROVE  d = e \/ {d.kind, e.kind} = {"deprecated", "candidate"}
    <2>1. CASE d \in Diffs(entries) /\ e \in Diffs(entries)
      BY <1>10, <2>1 DEF SoundReport, Compatible
    <2>2. CASE d \in Diffs(entries) /\ e = new
      BY <1>3, <1>9, <1>10, <2>2
    <2>3. CASE d = new /\ e \in Diffs(entries)
      <3>1. {e.kind, new.kind} = {"deprecated", "candidate"}
        BY <1>3, <1>9, <1>10, <2>3
      <3> QED
        BY <2>3, <3>1
    <2>4. CASE d = new /\ e = new
      BY <2>4
    <2> QED
      BY <1>7, <2>1, <2>2, <2>3, <2>4
  <1>11. ASSUME NEW d \in Diffs(E), d.target \in Sources
         PROVE  FromEvidence(d, EvidenceFor(d.target, ps), refined \cup {t})
    <2>1. CASE d \in Diffs(entries)
      <3>1. FromEvidence(d, EvidenceFor(d.target, ps), refined)
        BY <1>11, <2>1 DEF SoundReport
      <3> QED
        BY <3>1 DEF FromEvidence
    <2>2. CASE d = new
      <3>1. p.kind = "draft" /\ t \in Sources
        BY <1>1, <1>3, <1>11, <2>2, ItemFacts
      <3>2. ~Settles(EvidenceFor(t, ps))
        BY <1>4, <3>1 DEF StillContested
      <3>3. new.after = Rendered(p) /\ new.decision # "prune"
        BY <1>2, <1>11, <2>2, <3>1 DEF Decided, Diffs
      <3> QED
        BY <1>3, <1>6, <2>2, <3>2, <3>3 DEF FromEvidence
    <2> QED
      BY <1>7, <2>1, <2>2
  <1>12. ASSUME NEW u \in Contested(E) PROVE StillContested(u, E, ps)
    <2>1. PICK e \in E, f \in E : /\ e # f /\ e.target = u /\ f.target = u
                                 /\ e.decision = "contradiction" /\ f.decision = "contradiction"
                                 /\ u \in Targets
      BY DEF Contested, Contradictions
    <2>2. u # t
      BY <1>5, <2>1 DEF Contradictions
    <2>3. e \in entries /\ f \in entries
      BY <1>3, <1>5, <2>1, <2>2
    <2>4. u \in Contested(entries)
      BY <2>1, <2>3 DEF Contested, Contradictions
    <2>5. StillContested(u, entries, ps)
      BY <2>4 DEF SoundReport
    <2> QED
      BY <1>3, <1>7, <2>2, <2>5 DEF StillContested
  <1> QED
    BY <1>8, <1>10, <1>11, <1>12 DEF SoundReport, Compatible, E

\* Build gathers proposals of the project, one candidate per binding.
LEMMA BuildGathers ==
    ASSUME project \in Projects, NEW items \in SUBSET project.items
    PROVE  Gathered(project, Build(items))
  <1> DEFINE stated == {i \in items : i.kind = "candidate"}
             A == {i \in items : i.kind # "candidate"}
             C == Candidates(items)
             a == SetToSeq(A)
             c == SetToSeq(C)
             pick(t) == CHOOSE i \in stated : i.target = t
             bound == {i.target : i \in stated}
  <1>0. C = {pick(t) : t \in bound}
    BY DEF Candidates
  <1>1. \A t \in bound : pick(t) \in stated /\ pick(t).target = t
    OBVIOUS
  <1> HIDE DEF pick
  <1>2. C \subseteq stated /\ \A i, j \in C : i.target = j.target => i = j
    BY <1>0, <1>1
  <1>3. IsFiniteSet(project.items)
    BY IngestionAssumption
  <1>4. IsFiniteSet(A) /\ IsFiniteSet(C)
    BY <1>2, <1>3, FS_Subset
  <1>5. a \in Seq(A) /\ c \in Seq(C)
    BY <1>4, SetToSeqLists
  <1>6. Build(items) = a \o c
    BY DEF Build
  <1> HIDE DEF a, c, C
  <1>7. a \o c \in Seq(project.items)
    BY <1>2, <1>5
  <1>8. \A i \in DOMAIN (a \o c) : (a \o c)[i].kind = "candidate" => (a \o c)[i] \in C
    BY <1>5
  <1> QED
    BY <1>2, <1>6, <1>7, <1>8 DEF Gathered

\* A source whose file matches whatever may speak for it gets no diff.
LEMMA NothingNew ==
    ASSUME project \in Projects, NEW ps, Gathered(project, ps), files \in [Targets -> Facts],
           NEW t \in Sources, files[t].on, EvidenceFor(t, ps) # {},
           \A p \in EvidenceFor(t, ps) :
             Speaks(p, EvidenceFor(t, ps)) /\ Settles(EvidenceFor(t, ps)) =>
               FingerprintsMatch(files[t], p)
    PROVE  \A d \in Diffs(Reconcile(ps, files)) : d.target # t
  <1> DEFINE said == EvidenceFor(t, ps)
             fact == files[t]
             Of == DecideGroup(ps, Group(ps, t), fact)
  <1>1. ps \in Seq(project.items) /\ t \in Targets /\ fact \in Facts /\ fact = AcceptedFact(t, files)
    BY AcceptedIsFact DEF Gathered, Targets
  <1>2. {ps[i] : i \in Group(ps, t)} = said /\ Group(ps, t) # {}
    BY <1>1, SourceGroup
  <1>3. Diffs(Of) = {}
    <2> DEFINE heard == {ps[i] : i \in Group(ps, t)}
    <2>0. \/ \E p \in heard : /\ Of = {ReconcileOne(p, fact)}
                              /\ Settles(heard) /\ Speaks(p, heard)
          \/ Of = {Contradiction(p, fact) : p \in heard}
      BY <1>1, <1>2, GroupDecides
    <2>1. \/ \E p \in said : /\ Of = {ReconcileOne(p, fact)}
                             /\ Settles(said) /\ Speaks(p, said)
          \/ Of = {Contradiction(p, fact) : p \in said}
      BY <1>2, <2>0
    <2>2. CASE Of = {Contradiction(p, fact) : p \in said}
      BY <2>2, NoDiffFields DEF Diffs
    <2>3. ASSUME NEW p \in said, Of = {ReconcileOne(p, fact)}, Settles(said), Speaks(p, said)
          PROVE  Diffs(Of) = {}
      <3>1. FingerprintsMatch(fact, p)
        BY <2>3
      <3>2. p \in Proposals /\ p.kind = "draft"
        BY <1>1, ItemFacts DEF EvidenceFor
      <3>3. ReconcileOne(p, fact) = NoOp(p, fact)
        BY <3>1, <3>2 DEF ReconcileOne
      <3> QED
        BY <2>3, <3>3, NoDiffFields DEF Diffs
    <2> QED
      BY <2>1, <2>2, <2>3
  <1> HIDE DEF Of, said, fact
  <1> SUFFICES ASSUME NEW d \in Diffs(Reconcile(ps, files)), d.target = t
               PROVE  FALSE
    OBVIOUS
  <1> DEFINE G == DecideGroups(ps, files)
  <1>4. d.decision \in {"add", "edit", "prune"}
        /\ (d \in G \/ d \in ResolveCandidates(ps, G, files) \/ d \in PruneDisappeared(ps, files))
    BY DEF Reconcile, Diffs
  <1>5. CASE d \in G
    <2>1. PICK u \in Targets : /\ Group(ps, u) # {}
                               /\ d \in DecideGroup(ps, Group(ps, u), AcceptedFact(u, files))
      BY <1>5 DEF DecideGroups
    <2>2. AcceptedFact(u, files) \in Facts
      BY AcceptedIsFact
    <2>3. d.target = u
      BY <1>1, <2>1, <2>2, GroupEntries
    <2>4. d \in Of
      BY <1>1, <2>1, <2>3 DEF Of
    <2> QED
      BY <1>3, <1>4, <2>4 DEF Diffs
  <1>6. CASE d \in ResolveCandidates(ps, G, files)
    <2> HIDE DEF G
    <2>1. SoundEntry(project, d) /\ d.kind = "candidate" /\ d.decision \in {"no_op", "add"}
      BY <1>6, CandidateEntries
    <2> QED
      BY <2>1 DEF SoundEntry
  <1>7. CASE d \in PruneDisappeared(ps, files)
    <2>1. \A i \in DOMAIN ps : ps[i].target # t
      BY <1>7, PruneEntries
    <2> QED
      BY <2>1 DEF EvidenceFor, said
  <1> QED
    BY <1>4, <1>5, <1>6, <1>7

-----------------------------------------------------------------------------
(* The inductive invariant                                                  *)

Answered == {"pending", "accepted", "rejected", "frozen", "curated"}

Stages == {"idle", "gathered", "reconciled", "refused", "valid", "persisted", "refreshed"}

RunShapes(pr) ==
    [diffs : SUBSET Entries, ps : Seq(pr.items), refined : SUBSET Targets,
     status : UNION {[D -> Answered] : D \in SUBSET Entries}]

JobShapes(pr) ==
    [pc : Stages, first : BOOLEAN, ps : Seq(pr.items), entries : SUBSET Entries,
     refined : SUBSET Targets, store : [Targets -> Facts]]

\* TypeOK, with the shape of a whole run.
Shape ==
    /\ project \in Projects
    /\ world \subseteq project.items
    /\ files \in [Targets -> Facts]
    /\ runs \in Seq(RunShapes(project)) /\ Len(runs) <= project.maxRuns
    /\ \A k \in DOMAIN runs : runs[k].status \in [runs[k].diffs -> Answered]
    /\ job \in JobShapes(project)
    /\ wrote \in [Targets -> 0..project.maxRuns]
    /\ settled \in [Targets -> SUBSET project.items]

\* A persisted run holds nothing but diffs, and is sound about its evidence.
SoundRun(pr, r) ==
    /\ Gathered(pr, r.ps)
    /\ SoundReport(pr, r.diffs, r.ps, r.refined)
    /\ Diffs(r.diffs) = r.diffs

Reports ==
    /\ Gathered(project, job.ps)
    /\ SoundReport(project, job.entries, job.ps, job.refined)
    /\ \A k \in DOMAIN runs : SoundRun(project, runs[k])

\* What the process is about to apply is what it persisted last: nobody else
\* appends a run meanwhile.
LastRun ==
    job.pc \in {"persisted", "refreshed"} =>
        Len(runs) > 0 /\ runs[Len(runs)].diffs = Diffs(job.entries)

\* The file fact of target t holds what run k proposed for it.
CameFrom(t, fact, k, rs) ==
    k # 0 => /\ k \in DOMAIN rs
             /\ \E d \in rs[k].diffs :
                  /\ d.target = t
                  /\ fact.on = d.after.on
                  /\ fact.fp = d.after.fp /\ fact.struct = d.after.struct

Written == \A t \in Targets : CameFrom(t, files[t], wrote[t], runs)

\* A file settled on this evidence still says what its spokesman said.
SaysStill(fact, said) ==
    said # {} =>
        /\ fact.on
        /\ \E p \in said :
             /\ fact.fp = p.fp
             /\ p.def # 0 => fact.def = p.def
             /\ Settles(said) => Speaks(p, said)

SettledStays == \A t \in Sources : SaysStill(files[t], settled[t])

IngestionInv == Shape /\ Reports /\ LastRun /\ Written /\ SettledStays

LEMMA IdleIsSound ==
    ASSUME project \in Projects
    PROVE  /\ Idle \in JobShapes(project) /\ Idle.pc = "idle"
           /\ Gathered(project, Idle.ps)
           /\ SoundReport(project, Idle.entries, Idle.ps, Idle.refined)
  <1>1. Idle \in JobShapes(project) /\ Idle.pc = "idle"
    BY AbsentIsFact DEF Idle, JobShapes, Stages
  <1>2. Idle.ps = <<>> /\ Idle.entries = {}
    BY DEF Idle
  <1>3. Gathered(project, <<>>)
    BY DEF Gathered
  <1>4. Diffs({}) = {} /\ Contested({}) = {}
    BY DEF Diffs, Contested, Contradictions
  <1>5. SoundReport(project, {}, <<>>, Idle.refined)
    BY <1>4 DEF SoundReport
  <1> QED
    BY <1>1, <1>2, <1>3, <1>5

LEMMA InitInv == Init => IngestionInv
  <1> SUFFICES ASSUME Init PROVE IngestionInv
    OBVIOUS
  <1>1. /\ project \in Projects /\ project.tree \in [Targets -> Facts]
        /\ project.maxRuns \in Nat
    BY IngestionAssumption DEF Init
  <1>2. runs = <<>> /\ DOMAIN runs = {} /\ job = Idle /\ Len(runs) = 0
    BY DEF Init
  <1>3. Shape
    BY <1>1, <1>2, IdleIsSound DEF Init, Shape
  <1>4. Reports /\ LastRun
    BY <1>1, <1>2, IdleIsSound DEF Reports, LastRun
  <1>5. Written
    BY DEF Init, Written, CameFrom
  <1>6. SettledStays
    BY DEF Init, SettledStays, SaysStill, Targets
  <1> QED
    BY <1>3, <1>4, <1>5, <1>6 DEF IngestionInv

\* Steps that leave the files and the runs alone.
LEMMA JobStep ==
    ASSUME IngestionInv, UNCHANGED <<project, files, runs, wrote, settled>>,
           world' \subseteq project.items, job' \in JobShapes(project),
           Gathered(project, job'.ps),
           SoundReport(project, job'.entries, job'.ps, job'.refined),
           job'.pc \in {"persisted", "refreshed"} => job' = job
    PROVE  IngestionInv'
  <1>1. Shape'
    BY DEF IngestionInv, Shape
  <1>2. Reports'
    BY DEF IngestionInv, Reports
  <1>3. LastRun'
    BY DEF IngestionInv, LastRun
  <1>4. Written' /\ SettledStays'
    BY DEF IngestionInv, Written, SettledStays
  <1> QED
    BY <1>1, <1>2, <1>3, <1>4 DEF IngestionInv

LEMMA ReportIsEntries ==
    ASSUME NEW pr, NEW entries, NEW ps, NEW refined, SoundReport(pr, entries, ps, refined)
    PROVE  entries \in SUBSET Entries
  BY DEF SoundReport, SoundEntry

LEMMA GatherStep ==
    ASSUME IngestionInv, Gather \/ GatherBootstrap
    PROVE  IngestionInv'
  <1>1. PICK items \in SUBSET world :
          job' \in [pc : {"gathered"}, first : BOOLEAN, ps : {Build(items)},
                   entries : {{}}, refined : {{}}, store : [Targets -> Facts]]
    <2>1. CASE Gather
      <3>1. PICK scope : job' = [Idle EXCEPT !.pc = "gathered",
                                   !.ps = Build({i \in world : scope \in {0, i.scope}})]
        BY <2>1 DEF Gather
      <3> QED
        BY <3>1, AbsentIsFact DEF Idle
    <2>2. CASE GatherBootstrap
      BY <2>2, AbsentIsFact DEF GatherBootstrap, Idle
    <2> QED
      BY <2>1, <2>2
  <1>2. project \in Projects /\ items \in SUBSET project.items
    BY DEF IngestionInv, Shape
  <1>3. Gathered(project, Build(items))
    BY <1>2, BuildGathers
  <1>4. /\ job'.pc = "gathered" /\ job'.ps = Build(items) /\ job'.entries = {}
        /\ job' \in JobShapes(project)
    BY <1>1, <1>3 DEF JobShapes, Stages, Gathered
  <1>5. Diffs({}) = {} /\ Contested({}) = {}
    BY DEF Diffs, Contested, Contradictions
  <1>6. SoundReport(project, {}, job'.ps, job'.refined)
    BY <1>5 DEF SoundReport
  <1>7. UNCHANGED <<project, files, runs, wrote, settled>> /\ world' \subseteq project.items
    BY DEF Gather, GatherBootstrap, IngestionInv, Shape
  <1> QED
    BY <1>3, <1>4, <1>6, <1>7, JobStep

LEMMA DecideStep ==
    ASSUME IngestionInv, ReconcileStep \/ RefineStep
    PROVE  IngestionInv'
  <1>1. /\ project \in Projects /\ files \in [Targets -> Facts] /\ job \in JobShapes(project)
        /\ Gathered(project, job.ps) /\ SoundReport(project, job.entries, job.ps, job.refined)
        /\ job.ps \in Seq(project.items)
    BY DEF IngestionInv, Shape, Reports, Gathered
  <1>2. UNCHANGED <<project, files, runs, wrote, settled>> /\ world' \subseteq project.items
    BY DEF ReconcileStep, RefineStep, IngestionInv, Shape
  <1>3. CASE ReconcileStep
    <2> DEFINE E == Reconcile(job.ps, files)
    <2>1. SoundReport(project, E, job.ps, {})
      BY <1>1, ReconcileIsSound
    <2>2. E \in SUBSET Entries
      BY <2>1, ReportIsEntries
    <2>3. job' = [job EXCEPT !.pc = "reconciled", !.store = files, !.entries = E]
      BY <1>3 DEF ReconcileStep
    <2> HIDE DEF E
    <2>4. /\ job' \in JobShapes(project) /\ job'.pc = "reconciled" /\ job'.entries = E
          /\ job'.ps = job.ps /\ job'.refined = job.refined
      BY <1>1, <2>2, <2>3 DEF JobShapes, Stages
    <2>5. SoundReport(project, E, job.ps, job.refined)
      BY <2>1 DEF SoundReport, FromEvidence
    <2> QED
      BY <1>1, <1>2, <2>4, <2>5, JobStep
  <1>4. CASE RefineStep
    <2>1. PICK i \in Winners :
            job' = [job EXCEPT !.entries = Refine(job.entries, job.ps[i], job.store),
                               !.refined = @ \cup {job.ps[i].target}]
      BY <1>4 DEF RefineStep
    <2> DEFINE E == Refine(job.entries, job.ps[i], job.store)
               R == job.refined \cup {job.ps[i].target}
    <2>2. /\ i \in DOMAIN job.ps /\ job.ps[i].kind # "candidate"
          /\ job.ps[i].target \in Contested(job.entries)
      BY DEF Winners
    <2>3. SoundReport(project, E, job.ps, R)
      <3>1. job.store \in [Targets -> Facts]
        BY <1>1 DEF JobShapes
      <3> QED
        BY <1>1, <2>2, <3>1, RefineIsSound
    <2>4. E \in SUBSET Entries
      BY <2>3, ReportIsEntries
    <2>5. job.ps[i].target \in Targets
      BY <1>1, <2>2, ItemFacts
    <2> HIDE DEF E
    <2>6. /\ job' \in JobShapes(project) /\ job'.pc = job.pc /\ job'.entries = E
          /\ job'.ps = job.ps /\ job'.refined = R
      BY <1>1, <2>1, <2>4, <2>5 DEF JobShapes, E
    <2>7. job.pc = "reconciled"
      BY <1>4 DEF RefineStep
    <2> QED
      BY <1>1, <1>2, <2>3, <2>6, <2>7, JobStep
  <1> QED
    BY <1>3, <1>4

\* Steps that touch neither the runs nor the process.
LEMMA FileStep ==
    ASSUME IngestionInv, UNCHANGED <<project, world, runs, job>>,
           files' \in [Targets -> Facts], wrote' \in [Targets -> 0..project.maxRuns],
           settled' \in [Targets -> SUBSET project.items],
           \A t \in Targets : CameFrom(t, files'[t], wrote'[t], runs),
           \A t \in Sources : SaysStill(files'[t], settled'[t])
    PROVE  IngestionInv'
  <1>1. Shape'
    BY DEF IngestionInv, Shape
  <1>2. Reports'
    BY DEF IngestionInv, Reports
  <1>3. LastRun'
    BY DEF IngestionInv, LastRun
  <1>4. Written' /\ SettledStays'
    BY DEF IngestionInv, Written, SettledStays
  <1> QED
    BY <1>1, <1>2, <1>3, <1>4 DEF IngestionInv

LEMMA HandEditStep ==
    ASSUME IngestionInv, HandEdit
    PROVE  IngestionInv'
  <1>1. PICK t \in Targets :
          /\ \/ /\ t \in Sources /\ files[t].on /\ ~files[t].frozen
                /\ files' = [files EXCEPT ![t].frozen = TRUE]
             \/ /\ t \in Bindings /\ ~files[t].on /\ MeasureExists(t, files[BoundTo[t]])
                /\ files' = [files EXCEPT ![t] =
                     [Absent EXCEPT !.on = TRUE, !.prov = "human_curated", !.human = TRUE]]
             \/ /\ t \in Assertions /\ files[t].on /\ ~files[t].human
                /\ files' = [files EXCEPT ![t].human = TRUE]
          /\ settled' = [settled EXCEPT ![t] = {}]
          /\ wrote' = [wrote EXCEPT ![t] = IF t \in Bindings THEN 0 ELSE @]
    BY DEF HandEdit
  <1>2. /\ files \in [Targets -> Facts] /\ wrote \in [Targets -> 0..project.maxRuns]
        /\ settled \in [Targets -> SUBSET project.items] /\ Sources \subseteq Targets
        /\ project.maxRuns \in Nat
        /\ \A u \in Targets : CameFrom(u, files[u], wrote[u], runs)
        /\ \A u \in Sources : SaysStill(files[u], settled[u])
    BY IngestionAssumption DEF IngestionInv, Shape, Written, SettledStays, Targets
  <1>3. UNCHANGED <<project, world, runs, job>>
    BY DEF HandEdit
  <1>4. PICK new \in Facts :
          /\ files' = [files EXCEPT ![t] = new]
          /\ t \in Bindings \/ (/\ new.on = files[t].on /\ new.fp = files[t].fp
                                 /\ new.struct = files[t].struct)
    <2>1. CASE files' = [files EXCEPT ![t].frozen = TRUE]
      <3> DEFINE new == [files[t] EXCEPT !.frozen = TRUE]
      <3>1. new \in Facts /\ new.on = files[t].on /\ new.fp = files[t].fp
            /\ new.struct = files[t].struct
        BY <1>2 DEF Facts
      <3> QED
        BY <2>1, <3>1
    <2>2. CASE files' = [files EXCEPT ![t].human = TRUE]
      <3> DEFINE new == [files[t] EXCEPT !.human = TRUE]
      <3>1. new \in Facts /\ new.on = files[t].on /\ new.fp = files[t].fp
            /\ new.struct = files[t].struct
        BY <1>2 DEF Facts
      <3> QED
        BY <2>2, <3>1
    <2>3. CASE /\ t \in Bindings
               /\ files' = [files EXCEPT ![t] =
                    [Absent EXCEPT !.on = TRUE, !.prov = "human_curated", !.human = TRUE]]
      <3>1. [Absent EXCEPT !.on = TRUE, !.prov = "human_curated", !.human = TRUE] \in Facts
        BY DEF Absent, Facts, Provenances
      <3> QED
        BY <2>3, <3>1
    <2> QED
      BY <1>1, <2>1, <2>2, <2>3
  <1>5. /\ files' \in [Targets -> Facts] /\ wrote' \in [Targets -> 0..project.maxRuns]
        /\ settled' \in [Targets -> SUBSET project.items]
    BY <1>1, <1>2, <1>4
  <1>6. ASSUME NEW u \in Targets PROVE CameFrom(u, files'[u], wrote'[u], runs)
    <2>1. CASE u # t
      BY <1>1, <1>2, <1>4, <2>1
    <2>2. CASE u = t /\ t \in Bindings
      BY <1>1, <1>2, <2>2 DEF CameFrom
    <2>3. CASE u = t /\ t \notin Bindings
      <3>1. wrote'[u] = wrote[u]
        BY <1>1, <1>2, <2>3
      <3>2. /\ files'[u].on = files[u].on /\ files'[u].fp = files[u].fp
            /\ files'[u].struct = files[u].struct
        BY <1>2, <1>4, <2>3
      <3>3. CameFrom(u, files[u], wrote[u], runs)
        BY <1>2
      <3> QED
        BY <3>1, <3>2, <3>3 DEF CameFrom
    <2> QED
      BY <2>1, <2>2, <2>3
  <1>7. ASSUME NEW u \in Sources PROVE SaysStill(files'[u], settled'[u])
    <2>1. CASE u # t
      BY <1>1, <1>2, <1>4, <2>1
    <2>2. CASE u = t
      BY <1>1, <1>2, <2>2 DEF SaysStill
    <2> QED
      BY <2>1, <2>2
  <1> QED
    BY <1>3, <1>5, <1>6, <1>7, FileStep

\* The evidence for a target, from what a run gathered.
LEMMA EvidenceIsItems ==
    ASSUME NEW pr, NEW ps \in Seq(pr.items), NEW t
    PROVE  /\ EvidenceFor(t, ps) \in SUBSET pr.items
           /\ \A p \in EvidenceFor(t, ps) : p.target = t
  BY DEF EvidenceFor

\* A file written from a sound diff says what the diff's spokesman said.
LEMMA WriteSettles ==
    ASSUME project \in Projects, NEW diffs, NEW ps \in Seq(project.items), NEW refined,
           SoundReport(project, diffs, ps, refined),
           NEW d \in Diffs(diffs), d.target \in Sources, NEW fact,
           fact.on = d.after.on, fact.fp = d.after.fp, fact.def = d.after.def
    PROVE  SaysStill(fact, EvidenceFor(d.target, ps))
  <1> DEFINE said == EvidenceFor(d.target, ps)
  <1>1. FromEvidence(d, said, refined)
    BY DEF SoundReport
  <1>2. \A p \in said : p \in Proposals /\ p.target \in Sources
    BY EvidenceIsItems, ItemFacts
  <1> HIDE DEF said
  <1>3. CASE said = {}
    BY <1>3 DEF SaysStill, said
  <1>4. CASE said # {}
    <2>1. PICK p \in said : d.after = Rendered(p) /\ (Settles(said) => Speaks(p, said))
      BY <1>1, <1>4 DEF FromEvidence
    <2>2. d.after.on = TRUE /\ d.after.fp = p.fp /\ d.after.def = p.def
      BY <1>2, <2>1, RenderedIsFact
    <2> QED
      BY <2>1, <2>2 DEF SaysStill, said
  <1> QED
    BY <1>3, <1>4

LEMMA AnnotatedFields ==
    ASSUME NEW t, NEW after \in Facts, NEW answer
    PROVE  /\ Annotated(t, after, answer) \in Facts
           /\ Annotated(t, after, answer).on = after.on
           /\ Annotated(t, after, answer).fp = after.fp
           /\ Annotated(t, after, answer).def = after.def
           /\ Annotated(t, after, answer).struct = after.struct
  BY DEF Annotated, Facts, Provenances

LEMMA ResolveStep ==
    ASSUME IngestionInv, Resolve
    PROVE  IngestionInv'
  <1>1. PICK k \in DOMAIN runs, d \in UNION {runs[j].diffs : j \in DOMAIN runs},
             answer \in {"accepted", "rejected", "frozen", "curated"} :
          /\ d \in runs[k].diffs
          /\ runs' = [runs EXCEPT ![k].status[d] = answer]
          /\ IF answer = "rejected"
             THEN UNCHANGED <<project, files, wrote, settled>>
             ELSE /\ files' = [files EXCEPT ![d.target] = Annotated(d.target, d.after, answer)]
                  /\ wrote' = [wrote EXCEPT ![d.target] = k]
                  /\ settled' = [settled EXCEPT ![d.target] = EvidenceFor(d.target, runs[k].ps)]
    BY ZenonT(30) DEF Resolve
  <1>2. UNCHANGED <<project, world, job>>
    BY DEF Resolve
  <1>3. /\ project \in Projects /\ project.maxRuns \in Nat /\ Len(runs) <= project.maxRuns
        /\ files \in [Targets -> Facts] /\ wrote \in [Targets -> 0..project.maxRuns]
        /\ settled \in [Targets -> SUBSET project.items]
        /\ runs \in Seq(RunShapes(project))
        /\ \A j \in DOMAIN runs : runs[j].status \in [runs[j].diffs -> Answered]
        /\ \A j \in DOMAIN runs : SoundRun(project, runs[j])
    BY IngestionAssumption DEF IngestionInv, Shape, Reports
  <1>4. k \in 1..Len(runs) /\ Len(runs) \in Nat /\ k \in 0..project.maxRuns /\ k # 0
    BY <1>3
  <1>5. /\ runs[k] \in RunShapes(project) /\ runs[k].diffs \in SUBSET Entries
        /\ runs[k].ps \in Seq(project.items)
        /\ SoundReport(project, runs[k].diffs, runs[k].ps, runs[k].refined)
        /\ d \in Diffs(runs[k].diffs)
    <2>1. runs[k] \in RunShapes(project)
      BY <1>3
    <2>2. runs[k].diffs \in SUBSET Entries /\ runs[k].ps \in Seq(project.items)
      BY <2>1 DEF RunShapes
    <2>3. SoundRun(project, runs[k])
      BY <1>3
    <2> QED
      BY <1>1, <2>1, <2>2, <2>3 DEF SoundRun
  <1>6. d \in Entries /\ d.target \in Targets /\ d.after \in Facts
    BY <1>1, <1>5 DEF Entries
  <1> DEFINE status == [runs[k].status EXCEPT ![d] = answer]
             new == [runs[k] EXCEPT !.status = status]
  <1>7. runs' = [runs EXCEPT ![k] = new]
    BY <1>1
  <1>8. status \in [runs[k].diffs -> Answered]
    BY <1>3 DEF Answered
  <1> HIDE DEF status
  <1>9. /\ new \in RunShapes(project) /\ new.status = status
        /\ new.diffs = runs[k].diffs /\ new.ps = runs[k].ps /\ new.refined = runs[k].refined
    <2>1. status \in UNION {[D -> Answered] : D \in SUBSET Entries}
      BY <1>5, <1>8
    <2> QED
      BY <1>5, <2>1 DEF RunShapes
  <1> HIDE DEF new
  <1>10. /\ runs' \in Seq(RunShapes(project)) /\ Len(runs') = Len(runs)
         /\ DOMAIN runs' = DOMAIN runs
         /\ \A j \in DOMAIN runs : /\ runs'[j].diffs = runs[j].diffs /\ runs'[j].ps = runs[j].ps
                                    /\ runs'[j].refined = runs[j].refined
                                    /\ runs'[j].status \in [runs'[j].diffs -> Answered]
    BY <1>3, <1>7, <1>8, <1>9
  <1>11. /\ files' \in [Targets -> Facts] /\ wrote' \in [Targets -> 0..project.maxRuns]
         /\ settled' \in [Targets -> SUBSET project.items]
    <2>1. Annotated(d.target, d.after, answer) \in Facts
      BY <1>6, AnnotatedFields
    <2>2. EvidenceFor(d.target, runs[k].ps) \in SUBSET project.items
      BY <1>5, EvidenceIsItems
    <2> QED
      BY <1>1, <1>3, <1>4, <1>6, <2>1, <2>2
  <1>12. Shape'
    BY <1>2, <1>3, <1>10, <1>11 DEF IngestionInv, Shape
  <1>13. Reports'
    <2>1. \A j \in DOMAIN runs' : SoundRun(project, runs'[j])
      BY <1>3, <1>10 DEF SoundRun
    <2> QED
      BY <1>2, <2>1 DEF IngestionInv, Reports
  <1>14. LastRun'
    <2>1. job.pc \in {"persisted", "refreshed"} => Len(runs) \in DOMAIN runs
      BY <1>3, <1>4
    <2> QED
      BY <1>2, <1>10, <2>1 DEF IngestionInv, LastRun
  <1>15. ASSUME NEW t \in Targets PROVE CameFrom(t, files'[t], wrote'[t], runs')
    <2>1. CameFrom(t, files[t], wrote[t], runs)
      BY DEF IngestionInv, Written
    <2>2. CASE answer = "rejected" \/ t # d.target
      <3>1. files'[t] = files[t] /\ wrote'[t] = wrote[t]
        BY <1>1, <1>3, <2>2
      <3> QED
        BY <1>10, <2>1, <3>1 DEF CameFrom
    <2>3. CASE answer # "rejected" /\ t = d.target
      <3>1. files'[t] = Annotated(d.target, d.after, answer) /\ wrote'[t] = k
        BY <1>1, <1>3, <1>6, <2>3
      <3>2. /\ files'[t].on = d.after.on /\ files'[t].fp = d.after.fp
            /\ files'[t].struct = d.after.struct
        BY <1>6, <3>1, AnnotatedFields
      <3>3. k \in DOMAIN runs' /\ d \in runs'[k].diffs
        BY <1>1, <1>10
      <3> QED
        BY <2>3, <3>1, <3>2, <3>3 DEF CameFrom
    <2> QED
      BY <2>2, <2>3
  <1>16. ASSUME NEW t \in Sources PROVE SaysStill(files'[t], settled'[t])
    <2>1. t \in Targets /\ SaysStill(files[t], settled[t])
      BY DEF IngestionInv, SettledStays, Targets
    <2>2. CASE answer = "rejected" \/ t # d.target
      BY <1>1, <1>3, <2>1, <2>2
    <2>3. CASE answer # "rejected" /\ t = d.target
      <3>1. /\ files'[t] = Annotated(d.target, d.after, answer)
            /\ settled'[t] = EvidenceFor(d.target, runs[k].ps)
        BY <1>1, <1>3, <1>6, <2>3
      <3>2. /\ files'[t].on = d.after.on /\ files'[t].fp = d.after.fp
            /\ files'[t].def = d.after.def
        BY <1>6, <3>1, AnnotatedFields
      <3>3. d.target \in Sources
        BY <2>3
      <3>4. SaysStill(files'[t], EvidenceFor(d.target, runs[k].ps))
        BY <1>3, <1>5, <3>2, <3>3, WriteSettles
      <3> QED
        BY <3>1, <3>4
    <2> QED
      BY <2>2, <2>3
  <1> QED
    BY <1>12, <1>13, <1>14, <1>15, <1>16 DEF IngestionInv, Written, SettledStays

LEMMA PersistStep ==
    ASSUME IngestionInv, Persist
    PROVE  IngestionInv'
  <1> DEFINE D == Diffs(job.entries)
             status == [d \in D |-> "pending"]
             r == [diffs |-> D, ps |-> job.ps, refined |-> job.refined, status |-> status]
  <1>1. /\ runs' = Append(runs, r) /\ Len(runs) < project.maxRuns
        /\ job' = [job EXCEPT !.pc = "persisted"]
        /\ UNCHANGED <<project, world, files, wrote, settled>>
    BY DEF Persist
  <1>2. /\ project \in Projects /\ project.maxRuns \in Nat /\ job \in JobShapes(project)
        /\ Gathered(project, job.ps) /\ SoundReport(project, job.entries, job.ps, job.refined)
        /\ runs \in Seq(RunShapes(project))
        /\ \A j \in DOMAIN runs : runs[j].status \in [runs[j].diffs -> Answered]
        /\ \A j \in DOMAIN runs : SoundRun(project, runs[j])
    BY IngestionAssumption DEF IngestionInv, Shape, Reports
  <1>3. D \in SUBSET Entries /\ Diffs(D) = D /\ Contested(D) = {}
    BY <1>2 DEF JobShapes, Diffs, Contested, Contradictions
  <1>4. status \in [D -> Answered]
    BY DEF Answered
  <1>5. SoundReport(project, D, job.ps, job.refined)
    <2>1. D \subseteq job.entries
      BY DEF Diffs
    <2> HIDE DEF D
    <2> QED
      BY <1>2, <1>3, <2>1 DEF SoundReport, D
  <1> HIDE DEF D, status
  <1>6. r \in RunShapes(project)
    <2>1. status \in UNION {[E -> Answered] : E \in SUBSET Entries}
      BY <1>3, <1>4
    <2> QED
      BY <1>2, <1>3, <2>1 DEF RunShapes, JobShapes
  <1>7. SoundRun(project, r) /\ r.diffs = D /\ r.status = status
    BY <1>2, <1>3, <1>5 DEF SoundRun
  <1> HIDE DEF r
  <1>8. /\ runs' \in Seq(RunShapes(project)) /\ Len(runs') = Len(runs) + 1
        /\ Len(runs) \in Nat /\ DOMAIN runs' = 1..Len(runs) + 1 /\ DOMAIN runs = 1..Len(runs)
        /\ runs'[Len(runs)+1] = r /\ \A j \in DOMAIN runs : runs'[j] = runs[j]
    BY <1>1, <1>2, <1>6
  <1>9. /\ job' \in JobShapes(project) /\ job'.ps = job.ps /\ job'.entries = job.entries
        /\ job'.refined = job.refined
    BY <1>1, <1>2 DEF JobShapes, Stages
  <1>10. Shape'
    <2>1. \A j \in DOMAIN runs' : runs'[j].status \in [runs'[j].diffs -> Answered]
      BY <1>2, <1>4, <1>7, <1>8
    <2>2. Len(runs') <= project.maxRuns
      BY <1>1, <1>2, <1>8
    <2> QED
      BY <1>1, <1>8, <1>9, <2>1, <2>2 DEF IngestionInv, Shape
  <1>11. Reports'
    <2>1. \A j \in DOMAIN runs' : SoundRun(project, runs'[j])
      BY <1>2, <1>7, <1>8
    <2> QED
      BY <1>1, <1>2, <1>9, <2>1 DEF Reports
  <1>12. LastRun'
    BY <1>7, <1>8, <1>9 DEF LastRun, D
  <1>13. Written'
    BY <1>1, <1>8 DEF IngestionInv, Written, CameFrom
  <1>14. SettledStays'
    BY <1>1 DEF IngestionInv, SettledStays
  <1> QED
    BY <1>10, <1>11, <1>12, <1>13, <1>14 DEF IngestionInv

\* What _refresh_no_ops may change of a file: the definition fingerprint, where
\* there was none.
LEMMA RefreshFacts ==
    ASSUME IngestionInv, Refresh, NEW t \in Targets
    PROVE  /\ files'[t] \in Facts
           /\ \/ files'[t] = files[t]
              \/ \E f \in Nat : files[t].def = 0 /\ files'[t] = [files[t] EXCEPT !.def = f]
  <1> DEFINE fresh == {e \in job.entries : /\ e.target = t /\ e.decision = "no_op"
                                           /\ t \in Sources /\ files[t].on
                                           /\ files[t].def = 0 /\ e.def # 0}
             one == CHOOSE e \in fresh : TRUE
  <1>1. files[t] \in Facts /\ job.entries \in SUBSET Entries
    BY DEF IngestionInv, Shape, JobShapes
  <1>2. files'[t] = IF fresh = {} THEN files[t] ELSE [files[t] EXCEPT !.def = one.def]
    BY DEF Refresh
  <1>3. CASE fresh = {}
    BY <1>1, <1>2, <1>3
  <1>4. CASE fresh # {}
    <2>1. one \in fresh
      BY <1>4
    <2>2. one \in Entries /\ files[t].def = 0
      BY <1>1, <2>1
    <2> HIDE DEF fresh, one
    <2>3. one.def \in Nat
      BY <2>2 DEF Entries
    <2>4. files'[t] = [files[t] EXCEPT !.def = one.def]
      BY <1>2, <1>4
    <2>5. files'[t] \in Facts
      BY <1>1, <2>3, <2>4 DEF Facts
    <2> QED
      BY <2>2, <2>3, <2>4, <2>5
  <1> QED
    BY <1>3, <1>4

LEMMA RefreshStep ==
    ASSUME IngestionInv, Refresh
    PROVE  IngestionInv'
  <1>1. /\ job.pc = "persisted" /\ job' = [job EXCEPT !.pc = "refreshed"]
        /\ UNCHANGED <<project, world, runs, wrote, settled>>
        /\ DOMAIN files' = Targets
    BY DEF Refresh
  <1>2. /\ files \in [Targets -> Facts] /\ job \in JobShapes(project) /\ Sources \subseteq Targets
    BY DEF IngestionInv, Shape, Targets
  <1>3. ASSUME NEW t \in Targets
        PROVE  /\ files'[t] \in Facts /\ files'[t].on = files[t].on /\ files'[t].fp = files[t].fp
               /\ files'[t].struct = files[t].struct
               /\ files[t].def # 0 => files'[t].def = files[t].def
    <2>1. files[t] \in Facts
      BY <1>2
    <2>2. CASE files'[t] = files[t]
      BY <2>1, <2>2
    <2>3. ASSUME NEW f \in Nat, files[t].def = 0, files'[t] = [files[t] EXCEPT !.def = f]
          PROVE  /\ files'[t].on = files[t].on /\ files'[t].fp = files[t].fp
                 /\ files'[t].struct = files[t].struct
      BY <2>1, <2>3 DEF Facts
    <2> QED
      BY <2>2, <2>3, RefreshFacts
  <1>4. files' \in [Targets -> Facts]
    <2>1. files' = [t \in Targets |-> files'[t]]
      BY DEF Refresh
    <2> QED
      BY <1>3, <2>1
  <1>5. /\ job' \in JobShapes(project) /\ job'.ps = job.ps /\ job'.entries = job.entries
        /\ job'.refined = job.refined
    BY <1>1, <1>2 DEF JobShapes, Stages
  <1>6. Shape'
    BY <1>1, <1>4, <1>5 DEF IngestionInv, Shape
  <1>7. Reports'
    BY <1>1, <1>5 DEF IngestionInv, Reports
  <1>8. LastRun'
    BY <1>1, <1>5 DEF IngestionInv, LastRun
  <1>9. Written'
    BY <1>1, <1>3 DEF IngestionInv, Written, CameFrom
  <1>10. SettledStays'
    <2> SUFFICES ASSUME NEW t \in Sources PROVE SaysStill(files'[t], settled[t])
      BY <1>1 DEF SettledStays
    <2>1. SaysStill(files[t], settled[t]) /\ t \in Targets
      BY <1>2 DEF IngestionInv, SettledStays
    <2> QED
      BY <1>3, <2>1 DEF SaysStill
  <1> QED
    BY <1>6, <1>7, <1>8, <1>9, <1>10 DEF IngestionInv

\* write_emitted_diffs leaves every target as it was or as one of the diffs says.
LEMMA WrittenDiff ==
    ASSUME NEW diffs, NEW tree, NEW t \in Targets
    PROVE  \/ /\ t \notin {d.target : d \in diffs}
              /\ WriteDiffs(diffs, tree)[t] = tree[t]
           \/ \E d \in diffs : d.target = t /\ WriteDiffs(diffs, tree)[t] = d.after
  <1> DEFINE mine == {d \in diffs : d.target = t}
             last == CHOOSE d \in mine :
                         d.kind = "candidate" \/ \A e \in mine : e.kind # "candidate"
  <1>1. WriteDiffs(diffs, tree)[t] = IF mine = {} THEN tree[t] ELSE last.after
    BY DEF WriteDiffs
  <1>2. CASE mine = {}
    BY <1>1, <1>2
  <1>3. CASE mine # {}
    <2>1. \E d \in mine : d.kind = "candidate" \/ \A e \in mine : e.kind # "candidate"
      BY <1>3
    <2>2. last \in mine
      BY <2>1
    <2> HIDE DEF last
    <2> QED
      BY <1>1, <1>3, <2>2
  <1> QED
    BY <1>2, <1>3

LEMMA SelfApplyStep ==
    ASSUME IngestionInv, WriteSelfApplied
    PROVE  IngestionInv'
  <1> DEFINE written == {d.target : d \in SelfApplied}
  <1>1. /\ job.pc = "refreshed" /\ job' = Idle /\ UNCHANGED <<project, world, runs>>
        /\ files' = WriteDiffs(SelfApplied, files)
        /\ wrote' = [t \in Targets |-> IF t \in written THEN Len(runs) ELSE wrote[t]]
        /\ settled' = [t \in Targets |-> IF t \in written THEN EvidenceFor(t, job.ps)
                                                          ELSE settled[t]]
    BY DEF WriteSelfApplied
  <1>2. /\ project \in Projects /\ project.maxRuns \in Nat /\ job \in JobShapes(project)
        /\ job.ps \in Seq(project.items) /\ job.entries \in SUBSET Entries
        /\ SoundReport(project, job.entries, job.ps, job.refined)
        /\ runs \in Seq(RunShapes(project)) /\ Len(runs) <= project.maxRuns
        /\ files \in [Targets -> Facts] /\ wrote \in [Targets -> 0..project.maxRuns]
        /\ settled \in [Targets -> SUBSET project.items] /\ Sources \subseteq Targets
    BY IngestionAssumption DEF IngestionInv, Shape, Reports, JobShapes, Targets
  <1>3. /\ Len(runs) \in DOMAIN runs /\ Len(runs) # 0 /\ Len(runs) \in 0..project.maxRuns
        /\ runs[Len(runs)].diffs = Diffs(job.entries)
    BY <1>1, <1>2 DEF IngestionInv, LastRun
  <1>4. \A d \in SelfApplied : d \in Diffs(job.entries) /\ d \in Entries /\ d.after \in Facts
    BY <1>2 DEF SelfApplied, Diffs, Entries
  <1>5. ASSUME NEW t \in Targets
        PROVE  \/ /\ files'[t] = files[t] /\ wrote'[t] = wrote[t] /\ settled'[t] = settled[t]
               \/ /\ wrote'[t] = Len(runs) /\ settled'[t] = EvidenceFor(t, job.ps)
                  /\ \E d \in Diffs(job.entries) :
                       d.target = t /\ d.after \in Facts /\ files'[t] = d.after
    <2>1. CASE t \notin written /\ files'[t] = files[t]
      BY <1>1, <2>1
    <2>2. ASSUME NEW d \in SelfApplied, d.target = t, files'[t] = d.after
          PROVE  /\ wrote'[t] = Len(runs) /\ settled'[t] = EvidenceFor(t, job.ps)
                 /\ d \in Diffs(job.entries) /\ d.after \in Facts
      BY <1>1, <1>4, <2>2
    <2> QED
      BY <1>1, <2>1, <2>2, WrittenDiff
  <1>6. DOMAIN files' = Targets /\ files' = [t \in Targets |-> files'[t]]
    BY <1>1 DEF WriteDiffs
  <1>7. /\ files' \in [Targets -> Facts] /\ wrote' \in [Targets -> 0..project.maxRuns]
        /\ settled' \in [Targets -> SUBSET project.items]
    <2>1. \A t \in Targets : files'[t] \in Facts
      BY <1>2, <1>5
    <2>2. \A t \in Targets : EvidenceFor(t, job.ps) \in SUBSET project.items
      BY <1>2, EvidenceIsItems
    <2> QED
      BY <1>1, <1>2, <1>3, <1>6, <2>1, <2>2
  <1>8. Shape'
    BY <1>1, <1>2, <1>7, IdleIsSound DEF IngestionInv, Shape
  <1>9. Reports'
    BY <1>1, <1>2, IdleIsSound DEF IngestionInv, Reports
  <1>10. LastRun'
    BY <1>1, <1>2, IdleIsSound DEF LastRun
  <1>11. ASSUME NEW t \in Targets PROVE CameFrom(t, files'[t], wrote'[t], runs)
    <2>1. CameFrom(t, files[t], wrote[t], runs)
      BY DEF IngestionInv, Written
    <2> QED
      BY <1>3, <1>5, <2>1 DEF CameFrom
  <1>12. ASSUME NEW t \in Sources PROVE SaysStill(files'[t], settled'[t])
    <2>1. SaysStill(files[t], settled[t]) /\ t \in Targets
      BY <1>2 DEF IngestionInv, SettledStays
    <2>2. ASSUME NEW d \in Diffs(job.entries), d.target = t, files'[t] = d.after,
                 settled'[t] = EvidenceFor(t, job.ps)
          PROVE  SaysStill(files'[t], settled'[t])
      <3>1. SaysStill(d.after, EvidenceFor(d.target, job.ps))
        BY <1>2, <2>2, WriteSettles
      <3> QED
        BY <2>2, <3>1
    <2> QED
      BY <1>5, <2>1, <2>2
  <1> QED
    BY <1>1, <1>8, <1>9, <1>10, <1>11, <1>12 DEF IngestionInv, Written, SettledStays

LEMMA InvStep == IngestionInv /\ [Next]_vars => IngestionInv'
  <1> SUFFICES ASSUME IngestionInv, [Next]_vars PROVE IngestionInv'
    OBVIOUS
  <1>0. /\ project \in Projects /\ world \subseteq project.items /\ job \in JobShapes(project)
        /\ Gathered(project, job.ps) /\ SoundReport(project, job.entries, job.ps, job.refined)
    BY DEF IngestionInv, Shape, Reports
  <1>1. CASE ChangeWorld
    <2>1. UNCHANGED <<project, files, runs, job, wrote, settled>> /\ world' \subseteq project.items
      BY <1>0, <1>1 DEF ChangeWorld
    <2> QED
      BY <1>0, <2>1, JobStep
  <1>2. CASE HandEdit
    BY <1>2, HandEditStep
  <1>3. CASE Resolve
    BY <1>3, ResolveStep
  <1>4. CASE Gather \/ GatherBootstrap
    BY <1>4, GatherStep
  <1>5. CASE ReconcileStep \/ RefineStep
    BY <1>5, DecideStep
  <1>6. CASE Validate
    <2>1. /\ UNCHANGED <<project, world, files, runs, wrote, settled>>
          /\ \E pc \in {"valid", "refused"} : job' = [job EXCEPT !.pc = pc]
      BY <1>6 DEF Validate
    <2>2. /\ job' \in JobShapes(project) /\ job'.pc \in {"valid", "refused"}
          /\ job'.ps = job.ps /\ job'.entries = job.entries /\ job'.refined = job.refined
      BY <1>0, <2>1 DEF JobShapes, Stages
    <2> QED
      BY <1>0, <2>1, <2>2, JobStep
  <1>7. CASE Persist
    BY <1>7, PersistStep
  <1>8. CASE Refresh
    BY <1>8, RefreshStep
  <1>9. CASE WriteSelfApplied
    BY <1>9, SelfApplyStep
  <1>10. CASE EndIngest
    <2>1. UNCHANGED <<project, world, files, runs, wrote, settled>> /\ job' = Idle
      BY <1>10 DEF EndIngest
    <2> QED
      BY <1>0, <2>1, IdleIsSound, JobStep
  <1>11. CASE UNCHANGED vars
    BY <1>0, <1>11, JobStep DEF vars
  <1> QED
    BY <1>1, <1>2, <1>3, <1>4, <1>5, <1>6, <1>7, <1>8, <1>9, <1>10, <1>11 DEF Next

LEMMA InvHolds == Spec => []IngestionInv
  BY InitInv, InvStep, PTL DEF Spec

-----------------------------------------------------------------------------
(* What the decisions were made against                                     *)

\* The file matches whatever may speak for the source.
UpToDate(fact, said) ==
    /\ fact.on /\ said # {}
    /\ \A p \in said : Speaks(p, said) /\ Settles(said) => FingerprintsMatch(fact, p)

\* A diff was decided against the store the run loaded; a source that is up to
\* date there has none, unless the model was asked.
JudgedBy(d, store, ps, refined) ==
    /\ d.target \notin Assertions =>
         /\ d.decision = "add" => ~store[d.target].on
         /\ d.decision \in {"edit", "prune"} => d.base = store[d.target]
    /\ d.target \in Sources /\ d.target \notin refined =>
         ~UpToDate(store[d.target], EvidenceFor(d.target, ps))

Judged == \A d \in Diffs(job.entries) : JudgedBy(d, job.store, job.ps, job.refined)

\* The decision table answers about the fact it was given.
LEMMA DecidedBase ==
    ASSUME NEW p \in Proposals, NEW fact \in Facts, NEW e, e = ReconcileOne(p, fact)
    PROVE  e.base = fact /\ (e.decision = "add" => ~fact.on)
  <1>1. Decided(e, p, fact)
    BY ReconcileOneDecides
  <1> QED
    BY <1>1 DEF Decided

LEMMA GroupBase ==
    ASSUME project \in Projects, NEW ps \in Seq(project.items), NEW t \in Targets,
           NEW fact \in Facts, Group(ps, t) # {},
           NEW d \in DecideGroup(ps, Group(ps, t), fact)
    PROVE  d.base = fact /\ (d.decision = "add" => ~fact.on)
  <1> DEFINE said == {ps[i] : i \in Group(ps, t)}
             decided == DecideGroup(ps, Group(ps, t), fact)
  <1>1. \A p \in said : p \in Proposals
    BY ItemFacts DEF Group
  <1>2. \/ \E p \in said : decided = {ReconcileOne(p, fact)}
        \/ decided = {Contradiction(p, fact) : p \in said}
    BY GroupDecides, ZenonT(60)
  <1>3. d \in decided
    OBVIOUS
  <1> HIDE DEF said, decided
  <1>4. CASE \E p \in said : decided = {ReconcileOne(p, fact)}
    BY <1>1, <1>3, <1>4, DecidedBase
  <1>5. CASE decided = {Contradiction(p, fact) : p \in said}
    <2>1. PICK p \in said : d = Contradiction(p, fact)
      BY <1>3, <1>5
    <2> QED
      BY <2>1, NoDiffFields
  <1> QED
    BY <1>2, <1>4, <1>5

LEMMA CandidateBase ==
    ASSUME NEW ps, NEW entries, NEW d \in ResolveCandidates(ps, entries, files),
           d.decision = "add"
    PROVE  ~files[d.target].on
  <1> DEFINE Answer(p) ==
               IF files[p.target].on
                    \/ ~MeasureExists(p.target, FinalSource(BoundTo[p.target], entries, files))
               THEN NoOp(p, files[p.target])
               ELSE ReconcileOne(p, Absent)
  <1>1. PICK i \in {j \in DOMAIN ps : ps[j].kind = "candidate"} : d = Answer(ps[i])
    BY DEF ResolveCandidates
  <1>2. d # NoOp(ps[i], files[ps[i].target])
    BY NoDiffFields
  <1>3. ~files[ps[i].target].on /\ d = ReconcileOne(ps[i], Absent)
    BY <1>1, <1>2
  <1>4. d = Entry("add", ps[i], Absent, Rendered(ps[i]), AutoApplyEligible(ps[i], Absent))
    BY <1>1, <1>3 DEF ReconcileOne, Absent
  <1>5. d.target = ps[i].target
    BY <1>4, EntryFields
  <1> QED
    BY <1>3, <1>5

LEMMA PruneBase ==
    ASSUME NEW ps, NEW d \in PruneDisappeared(ps, files)
    PROVE  d.decision = "prune" /\ d.base = files[d.target]
  BY DEF PruneDisappeared

LEMMA ReconcileJudges ==
    ASSUME project \in Projects, NEW ps, Gathered(project, ps), files \in [Targets -> Facts],
           NEW d \in Diffs(Reconcile(ps, files))
    PROVE  JudgedBy(d, files, ps, {})
  <1> DEFINE G == DecideGroups(ps, files)
  <1>1. ps \in Seq(project.items)
    BY DEF Gathered
  <1>2. d.decision \in {"add", "edit", "prune"}
        /\ (d \in G \/ d \in ResolveCandidates(ps, G, files) \/ d \in PruneDisappeared(ps, files))
    BY DEF Reconcile, Diffs
  <1>3. ASSUME d.target \notin Assertions
        PROVE  /\ d.decision = "add" => ~files[d.target].on
               /\ d.decision \in {"edit", "prune"} => d.base = files[d.target]
    <2>1. CASE d \in G
      <3>1. PICK u \in Targets : /\ Group(ps, u) # {}
                                 /\ d \in DecideGroup(ps, Group(ps, u), AcceptedFact(u, files))
        BY <2>1 DEF DecideGroups
      <3>2. AcceptedFact(u, files) \in Facts
        BY AcceptedIsFact
      <3>3. d.target = u
        BY <1>1, <3>1, <3>2, GroupEntries
      <3>4. AcceptedFact(u, files) = files[u]
        BY <1>3, <3>3, AcceptedIsFact
      <3>5. d.base = files[u] /\ (d.decision = "add" => ~files[u].on)
        BY <1>1, <3>1, <3>2, <3>4, GroupBase
      <3> QED
        BY <3>3, <3>5
    <2>2. CASE d \in ResolveCandidates(ps, G, files)
      <3> HIDE DEF G
      <3>1. d.decision \in {"no_op", "add"}
        BY <2>2, CandidateEntries
      <3> QED
        BY <1>2, <2>2, <3>1, CandidateBase
    <2>3. CASE d \in PruneDisappeared(ps, files)
      BY <2>3, PruneBase
    <2> QED
      BY <1>2, <2>1, <2>2, <2>3
  <1>4. ASSUME d.target \in Sources, UpToDate(files[d.target], EvidenceFor(d.target, ps))
        PROVE  FALSE
    <2>1. \A e \in Diffs(Reconcile(ps, files)) : e.target # d.target
      BY <1>4, NothingNew DEF UpToDate
    <2> QED
      BY <2>1
  <1> QED
    BY <1>3, <1>4 DEF JudgedBy

LEMMA JudgedGrows ==
    ASSUME NEW d, NEW store, NEW ps, NEW R, NEW S, R \subseteq S, JudgedBy(d, store, ps, R)
    PROVE  JudgedBy(d, store, ps, S)
  BY DEF JudgedBy

LEMMA RefineJudges ==
    ASSUME project \in Projects, NEW ps \in Seq(project.items), NEW store \in [Targets -> Facts],
           NEW entries, NEW refined,
           \A e \in Diffs(entries) : JudgedBy(e, store, ps, refined),
           NEW i \in DOMAIN ps, NEW d \in Diffs(Refine(entries, ps[i], store))
    PROVE  JudgedBy(d, store, ps, refined \cup {ps[i].target})
  <1> DEFINE p == ps[i]
             fact == AcceptedFact(p.target, store)
             new == ReconcileOne(p, fact)
  <1>1. p \in Proposals /\ p.target \in Targets /\ fact \in Facts
    BY ItemFacts, AcceptedIsFact
  <1>2. d \in Diffs(entries) \/ d = new
    BY DEF Refine, Diffs
  <1>3. CASE d \in Diffs(entries)
    BY <1>3, JudgedGrows
  <1>4. CASE d = new
    <2>1. Decided(d, p, fact)
      BY <1>1, <1>4, ReconcileOneDecides
    <2>2. d.target = p.target /\ d.base = fact /\ (d.decision = "add" => ~fact.on)
      BY <2>1 DEF Decided
    <2>3. d.target \notin Assertions => fact = store[d.target]
      BY <1>1, <2>2, AcceptedIsFact
    <2> HIDE DEF fact, new
    <2> QED
      BY <2>2, <2>3 DEF JudgedBy
  <1> QED
    BY <1>2, <1>3, <1>4

LEMMA JudgedStep == IngestionInv /\ Judged /\ [Next]_vars => Judged'
  <1> SUFFICES ASSUME IngestionInv, Judged, [Next]_vars PROVE Judged'
    OBVIOUS
  <1>0. /\ project \in Projects /\ files \in [Targets -> Facts] /\ job \in JobShapes(project)
        /\ Gathered(project, job.ps) /\ job.ps \in Seq(project.items)
        /\ job.store \in [Targets -> Facts]
    BY DEF IngestionInv, Shape, Reports, Gathered, JobShapes
  <1>1. CASE /\ job'.entries = job.entries /\ job'.store = job.store /\ job'.ps = job.ps
             /\ job'.refined = job.refined
    BY <1>1 DEF Judged
  <1>2. CASE job'.entries = {}
    BY <1>2 DEF Judged, Diffs
  <1>3. CASE ChangeWorld \/ HandEdit \/ Resolve \/ UNCHANGED vars
    BY <1>1, <1>3 DEF ChangeWorld, HandEdit, Resolve, vars
  <1>4. CASE Gather
    <2>1. PICK items : job' = [Idle EXCEPT !.pc = "gathered", !.ps = Build(items)]
      BY <1>4 DEF Gather
    <2> QED
      BY <1>2, <2>1 DEF Idle
  <1>5. CASE GatherBootstrap \/ WriteSelfApplied \/ EndIngest
    <2>1. Idle.entries = {}
      BY DEF Idle
    <2>2. CASE WriteSelfApplied \/ EndIngest
      BY <1>2, <2>1, <2>2 DEF WriteSelfApplied, EndIngest
    <2>3. CASE GatherBootstrap
      <3>1. \E first, ps : job' = [Idle EXCEPT !.pc = "gathered", !.first = first, !.ps = ps]
        BY <2>3 DEF GatherBootstrap
      <3>2. job'.entries = {}
        BY <3>1 DEF Idle
      <3> QED
        BY <1>2, <3>2
    <2> QED
      BY <1>5, <2>2, <2>3
  <1>6. CASE Validate \/ Persist \/ Refresh
    <2>1. \E pc : job' = [job EXCEPT !.pc = pc]
      BY <1>6 DEF Validate, Persist, Refresh
    <2> QED
      BY <1>0, <1>1, <2>1 DEF JobShapes
  <1>7. CASE ReconcileStep
    <2>1. /\ job'.entries = Reconcile(job.ps, files) /\ job'.store = files
          /\ job'.ps = job.ps
      BY <1>0, <1>7 DEF ReconcileStep, JobShapes
    <2>2. ASSUME NEW d \in Diffs(Reconcile(job.ps, files))
          PROVE  JudgedBy(d, files, job.ps, job'.refined)
      <3>1. JudgedBy(d, files, job.ps, {})
        BY <1>0, ReconcileJudges
      <3> QED
        BY <3>1, JudgedGrows
    <2> QED
      BY <2>1, <2>2 DEF Judged
  <1>8. CASE RefineStep
    <2>1. PICK i \in DOMAIN job.ps :
            job' = [job EXCEPT !.entries = Refine(job.entries, job.ps[i], job.store),
                               !.refined = @ \cup {job.ps[i].target}]
      BY <1>8 DEF RefineStep, Winners
    <2>2. /\ job'.entries = Refine(job.entries, job.ps[i], job.store)
          /\ job'.refined = job.refined \cup {job.ps[i].target}
          /\ job'.store = job.store /\ job'.ps = job.ps
      BY <1>0, <2>1 DEF JobShapes
    <2>3. \A d \in Diffs(Refine(job.entries, job.ps[i], job.store)) :
            JudgedBy(d, job.store, job.ps, job.refined \cup {job.ps[i].target})
      BY <1>0, RefineJudges DEF Judged
    <2> QED
      BY <2>2, <2>3 DEF Judged
  <1> QED
    BY <1>3, <1>4, <1>5, <1>6, <1>7, <1>8 DEF Next

LEMMA JudgedHolds == Spec => [](IngestionInv /\ Judged)
  <1>1. Init => Judged
    BY DEF Init, Judged, Diffs, Idle
  <1> QED
    BY <1>1, InitInv, InvStep, JudgedStep, PTL DEF Spec

-----------------------------------------------------------------------------
(* The theorems                                                             *)

\* No run proposes to edit or remove what was frozen, or curated, in the store it
\* had loaded, whatever the groups, the candidates and the model decided; and a
\* diff stands against a protected file only if the file changed since then.
THEOREM ProtectionHolds == Spec => []ProtectedNeverProposed
  <1>1. ASSUME IngestionInv, NEW d \in Diffs(job.entries) \cup UNION {runs[k].diffs : k \in DOMAIN runs},
               d.decision \in {"edit", "prune"}
        PROVE  /\ ~d.base.frozen
               /\ d.kind # "deprecated" => d.base.prov = "inferred"
    <2>1. CASE d \in Diffs(job.entries)
      <3>1. SoundEntry(project, d)
        BY <1>1, <2>1 DEF IngestionInv, Reports, SoundReport, Diffs
      <3> QED
        BY <1>1, <3>1 DEF SoundEntry
    <2>2. ASSUME NEW k \in DOMAIN runs, d \in runs[k].diffs
          PROVE  SoundEntry(project, d)
      <3>1. SoundRun(project, runs[k])
        BY <1>1 DEF IngestionInv, Reports
      <3> QED
        BY <2>2, <3>1 DEF SoundRun, SoundReport
    <2> QED
      BY <1>1, <2>1, <2>2 DEF SoundEntry
  <1>2. ASSUME IngestionInv, Judged, NEW d \in Diffs(job.entries), d.target \notin Assertions,
               files[d.target].on,
               files[d.target].frozen \/ (d.kind # "deprecated" /\ files[d.target].prov # "inferred"),
               files[d.target] = job.store[d.target]
        PROVE  FALSE
    <2>1. JudgedBy(d, job.store, job.ps, job.refined) /\ d.decision \in {"add", "edit", "prune"}
      BY <1>2 DEF Judged, Diffs
    <2>2. CASE d.decision = "add"
      BY <1>2, <2>1, <2>2 DEF JudgedBy
    <2>3. CASE d.decision \in {"edit", "prune"}
      <3>1. d.base = files[d.target]
        BY <1>2, <2>1, <2>3 DEF JudgedBy
      <3> QED
        BY <1>1, <1>2, <2>3, <3>1
    <2> QED
      BY <2>1, <2>2, <2>3
  <1>3. IngestionInv /\ Judged => ProtectedNeverProposed
    BY <1>1, <1>2 DEF ProtectedNeverProposed
  <1> QED
    BY <1>3, JudgedHolds, PTL

\* The run of a file's last write was persisted before the write and holds the
\* diff the file came from.
THEOREM WritesAreProposed == Spec => []EveryWriteWasProposed
  <1>1. IngestionInv => EveryWriteWasProposed
    BY DEF IngestionInv, Written, CameFrom, EveryWriteWasProposed
  <1> QED
    BY <1>1, InvHolds, PTL

\* The process and its runs have their types, and a run has one diff per target,
\* but for a deprecated alternative next to a candidate.
THEOREM RunsHaveTheirShape == Spec => []RunsAreWellFormed
  <1>1. IngestionInv => TypeOK
    <2> SUFFICES ASSUME IngestionInv PROVE TypeOK
      OBVIOUS
    <2>1. Shape
      BY DEF IngestionInv
    <2>2. /\ job.pc \in Stages /\ job.first \in BOOLEAN /\ job.ps \in Seq(project.items)
          /\ job.entries \subseteq Entries /\ job.refined \subseteq Targets
          /\ job.store \in [Targets -> Facts]
      BY <2>1 DEF Shape, JobShapes
    <2>3. ASSUME NEW k \in DOMAIN runs
          PROVE  /\ runs[k].diffs \subseteq Entries /\ runs[k].ps \in Seq(project.items)
                 /\ runs[k].refined \subseteq Targets
      <3>1. runs[k] \in RunShapes(project)
        BY <2>1 DEF Shape
      <3> QED
        BY <3>1 DEF RunShapes
    <2> QED
      BY <2>1, <2>2, <2>3 DEF TypeOK, Shape, Stages, Answered
  <1>2. IngestionInv => OneDiffPerTarget
    <2> SUFFICES ASSUME IngestionInv, NEW k \in DOMAIN runs,
                        NEW d \in runs[k].diffs, NEW e \in runs[k].diffs
                 PROVE  Compatible(d, e)
      BY DEF OneDiffPerTarget, Compatible
    <2>1. SoundRun(project, runs[k])
      BY DEF IngestionInv, Reports
    <2> QED
      BY <2>1 DEF SoundRun, SoundReport
  <1>3. IngestionInv => RunsAreWellFormed
    BY <1>1, <1>2 DEF RunsAreWellFormed
  <1> QED
    BY <1>3, InvHolds, PTL

\* Unless the model was asked, a run changes a source only on evidence whose
\* highest rank agreed and that nothing of a lower rank contradicts in types.
THEOREM NobodyWinsSilently == Spec => []NoSilentWinner
  <1>1. IngestionInv => NoSilentWinner
    <2> SUFFICES ASSUME IngestionInv, NEW k \in DOMAIN runs, NEW d \in runs[k].diffs,
                        d.decision \in {"add", "edit"}, d.kind = "draft",
                        d.target \notin runs[k].refined
                 PROVE  LET said == EvidenceFor(d.target, runs[k].ps) IN
                        /\ \A p, q \in TopOf(said) : Signature(p) = Signature(q)
                        /\ \A p \in TopOf(said), q \in said \ TopOf(said) :
                             p.types = 0 \/ q.types = 0 \/ p.types = q.types
      BY DEF NoSilentWinner, TopOf
    <2> DEFINE said == EvidenceFor(d.target, runs[k].ps)
    <2>1. project \in Projects /\ SoundRun(project, runs[k]) /\ runs[k].ps \in Seq(project.items)
      BY DEF IngestionInv, Reports, Shape, SoundRun, Gathered
    <2>2. d \in Diffs(runs[k].diffs) /\ SoundEntry(project, d) /\ d.target \in Sources
      BY <2>1 DEF SoundRun, SoundReport, SoundEntry
    <2>3. FromEvidence(d, said, runs[k].refined)
      BY <2>1, <2>2 DEF SoundRun, SoundReport
    <2>4. Settles(said)
      BY <2>3 DEF FromEvidence
    <2>5. \A p \in said : p \in project.items /\ p.kind = "draft"
      BY <2>1, <2>2, EvidenceIsItems, ItemFacts
    <2> HIDE DEF said
    <2>6. CASE \A p, q \in said : Signature(p) = Signature(q)
      <3>1. TopOf(said) \subseteq said
        BY DEF TopOf
      <3>2. \A p, q \in said : p.types = q.types
        BY <2>1, <2>5, <2>6, SignaturesCoverTypes
      <3> QED
        BY <2>6, <3>1, <3>2 DEF said
    <2>7. CASE /\ \A p, q \in TopOf(said) : Signature(p) = Signature(q)
               /\ \A p \in TopOf(said), q \in said \ TopOf(said) :
                    p.types = 0 \/ q.types = 0 \/ p.types = q.types
      BY <2>7 DEF said
    <2> QED
      BY <2>4, <2>6, <2>7 DEF Settles
  <1> QED
    BY <1>1, InvHolds, PTL

\* A run that is persisted has no diff for a source settled on the evidence the
\* run gathered, unless the model chose or the file changed under way; and only a
\* run allowed to apply by itself changes more of a file than its baseline.
THEOREM IngestDisturbsNothing == Spec => IngestIsQuiet
  <1>1. ASSUME IngestionInv, Judged, [Next]_vars, Len(runs') > Len(runs),
               NEW d \in runs'[Len(runs')].diffs, d.target \in Sources \ job.refined,
               settled[d.target] # {}, files[d.target] = job.store[d.target],
               settled[d.target] = EvidenceFor(d.target, job.ps)
        PROVE  FALSE
    <2> DEFINE t == d.target
               said == EvidenceFor(t, job.ps)
    <2>1. /\ project \in Projects /\ job.ps \in Seq(project.items) /\ Len(runs) \in Nat
          /\ runs \in Seq(RunShapes(project))
      BY <1>1 DEF IngestionInv, Shape, Reports, Gathered
    <2>2. Persist
      <3>1. runs' # runs
        BY <1>1, <2>1
      <3>2. ~Resolve
        BY <1>1, <2>1 DEF Resolve
      <3>3. ~(ChangeWorld \/ HandEdit \/ Gather \/ GatherBootstrap \/ ReconcileStep \/ RefineStep
                \/ Validate \/ Refresh \/ WriteSelfApplied \/ EndIngest \/ UNCHANGED vars)
        BY <3>1 DEF ChangeWorld, HandEdit, Gather, GatherBootstrap, ReconcileStep, RefineStep,
                    Validate, Refresh, WriteSelfApplied, EndIngest, vars
      <3> QED
        BY <1>1, <3>2, <3>3 DEF Next
    <2>3. d \in Diffs(job.entries)
      <3> DEFINE r == [diffs |-> Diffs(job.entries), ps |-> job.ps, refined |-> job.refined,
                       status |-> [e \in Diffs(job.entries) |-> "pending"]]
      <3>1. runs' = Append(runs, r)
        BY <2>2 DEF Persist
      <3>2. r.diffs = Diffs(job.entries)
        OBVIOUS
      <3> HIDE DEF r
      <3>3. runs'[Len(runs')] = r
        BY <2>1, <3>1
      <3> QED
        BY <1>1, <3>2, <3>3
    <2>4. SaysStill(files[t], said)
      BY <1>1 DEF IngestionInv, SettledStays
    <2>5. PICK p \in said : /\ files[t].fp = p.fp
                            /\ p.def # 0 => files[t].def = p.def
                            /\ Settles(said) => Speaks(p, said)
      BY <1>1, <2>4 DEF SaysStill
    <2>6. files[t].on
      BY <1>1, <2>4 DEF SaysStill
    <2>7. \A q \in said : q \in project.items /\ q.kind = "draft" /\ q.fp # 0
      BY <1>1, <2>1, EvidenceIsItems, ItemFacts
    <2>8. ~UpToDate(files[t], said)
      BY <1>1, <2>3 DEF Judged, JudgedBy
    <2> HIDE DEF said
    <2>9. ASSUME NEW q \in said, Speaks(q, said), Settles(said)
          PROVE  FingerprintsMatch(files[t], q)
      <3>1. PICK top \in TopOf(said) : TRUE
        <4>1. \A r \in said : CurationRank(r) \in {0, 1}
          BY DEF CurationRank
        <4>2. CASE \E r \in said : CurationRank(r) = 1
          BY <4>1, <4>2 DEF TopOf
        <4>3. CASE ~\E r \in said : CurationRank(r) = 1
          BY <2>5, <4>1, <4>3 DEF TopOf
        <4> QED
          BY <4>2, <4>3
      <3>2. Signature(p) = Signature(q)
        BY <2>5, <2>9, <3>1 DEF Speaks
      <3>3. p.fp = q.fp /\ p.def = q.def
        BY <2>1, <2>5, <2>7, <3>2, SignaturesCoverTypes
      <3> QED
        BY <2>5, <2>7, <3>3 DEF FingerprintsMatch
    <2> QED
      BY <2>5, <2>6, <2>8, <2>9 DEF UpToDate
  <1>2. IngestionInv /\ Judged /\ [Next]_vars =>
          (Len(runs') > Len(runs) =>
             \A d \in runs'[Len(runs')].diffs :
                (/\ d.target \in Sources \ job.refined /\ settled[d.target] # {}
                 /\ files[d.target] = job.store[d.target]) =>
                    settled[d.target] # EvidenceFor(d.target, job.ps))
    BY <1>1
  <1>3. ASSUME IngestionInv, Next, job.pc # "idle", job' # job, ~project.autoApply, ~job.first,
               NEW t \in Targets, files' # files
        PROVE  files'[t] = [files[t] EXCEPT !.def = files'[t].def]
    <2>1. files \in [Targets -> Facts] /\ files[t] \in Facts
      BY <1>3 DEF IngestionInv, Shape
    <2>2. Refresh \/ WriteSelfApplied
      BY <1>3 DEF Next, ChangeWorld, HandEdit, Resolve, Gather, GatherBootstrap,
                  ReconcileStep, RefineStep, Validate, Persist, EndIngest
    <2>3. CASE Refresh
      <3>1. CASE files'[t] = files[t]
        BY <2>1, <3>1 DEF Facts
      <3>2. ASSUME NEW f \in Nat, files'[t] = [files[t] EXCEPT !.def = f]
            PROVE  files'[t] = [files[t] EXCEPT !.def = files'[t].def]
        <4>1. files'[t].def = f
          BY <2>1, <3>2 DEF Facts
        <4> QED
          BY <3>2, <4>1
      <3> QED
        BY <1>3, <2>3, <3>1, <3>2, RefreshFacts
    <2>4. CASE WriteSelfApplied
      <3>1. SelfApplied = {}
        <4>1. \A e \in job.entries : ~e.auto
          BY <1>3 DEF IngestionInv, Reports, SoundReport, SoundEntry
        <4> QED
          BY <1>3, <4>1 DEF SelfApplied, Diffs
      <3>2. files' = WriteDiffs({}, files)
        BY <2>4, <3>1 DEF WriteSelfApplied
      <3>3. WriteDiffs({}, files) = [u \in Targets |-> files[u]]
        BY DEF WriteDiffs
      <3> QED
        BY <1>3, <2>1, <3>2, <3>3
    <2> QED
      BY <2>2, <2>3, <2>4
  <1>4. IngestionInv /\ [Next]_vars =>
          ((job.pc # "idle" /\ job' # job /\ ~project.autoApply /\ ~job.first) =>
             \A t \in Targets : files' # files =>
                files'[t] = [files[t] EXCEPT !.def = files'[t].def])
    BY <1>3 DEF vars
  <1> QED
    BY <1>2, <1>4, JudgedHolds, PTL DEF Spec, IngestIsQuiet, QuietAfterApply, ProposeOnly

=============================================================================
