--------------------------- MODULE KnowledgeProofs ---------------------------
(***************************************************************************)
(* Theorems about the knowledge pages: neither cache gives what the pages  *)
(* no longer say, and accepting what a run proposes leaves references that *)
(* resolve and a second run that has nothing to say.                       *)
(*                                                                         *)
(* That the last run settles is not inductive as it stands: between two    *)
(* acceptances the pages are half old and half new.  What is kept instead  *)
(* is where they lead: the library and the index that the proposals of the *)
(* run still to be reviewed would give, accepted in any order (Leads), are *)
(* sound and quiet (Settles).  The run establishes it when it decides, and *)
(* neither an acceptance nor a stamp changes where the pages lead.         *)
(***************************************************************************)
EXTENDS Knowledge, FiniteSetTheorems, WellFoundedInduction, TLAPS

LEMMA LeastNatural ==
    ASSUME NEW S \in SUBSET Nat, S # {}
    PROVE  \E x \in S : \A y \in S : x <= y
  <1> DEFINE R == OpToRel(<, Nat)
  <1>1. IsWellFoundedOn(R, Nat)
    BY NatLessThanWellFounded
  <1>2. \A x, y \in Nat : <<y, x>> \in R <=> y < x
    BY DEF OpToRel
  <1> HIDE DEF R
  <1>3. PICK x \in S : \A y \in S : ~(<<y, x>> \in R)
    BY <1>1, WFMin
  <1>4. \A y \in S : ~(y < x)
    BY <1>2, <1>3
  <1> QED
    BY <1>4

LEMMA Induction ==
    ASSUME NEW S \in SUBSET Nat, 0 \in S, \A n \in S : n + 1 \in S
    PROVE  S = Nat
  <1> SUFFICES ASSUME Nat \ S # {} PROVE FALSE
    OBVIOUS
  <1>1. PICK x \in Nat \ S : \A y \in Nat \ S : x <= y
    <2>1. (Nat \ S) \in SUBSET Nat
      OBVIOUS
    <2> QED
      BY <2>1, LeastNatural
  <1>2. x # 0 /\ x - 1 \in Nat /\ x - 1 < x
    BY <1>1
  <1>3. x - 1 \in S
    BY <1>1, <1>2
  <1> QED
    BY <1>1, <1>2, <1>3

\* Among finitely many paths one has the greatest owner.
LEMMA GreatestOwner ==
    ASSUME NEW S \in SUBSET (Nat \X Nat), IsFiniteSet(S), S # {}
    PROVE  \E x \in S : \A y \in S : y[1] <= x[1]
  <1> DEFINE HasGreatest(T) == \E x \in T : \A y \in T : y[1] <= x[1]
             Sizes == {n \in Nat : \A T \in SUBSET (Nat \X Nat) : IsFiniteSet(T) /\ Cardinality(T) = n /\ T # {} => HasGreatest(T)}
  <1>1. 0 \in Sizes
    BY FS_EmptySet
  <1>2. ASSUME NEW n \in Sizes PROVE n + 1 \in Sizes
    <2> SUFFICES ASSUME NEW T \in SUBSET (Nat \X Nat), IsFiniteSet(T), Cardinality(T) = n + 1
                 PROVE  T # {} => HasGreatest(T)
      OBVIOUS
    <2> HAVE T # {}
    <2>1. PICK a \in T : TRUE
      OBVIOUS
    <2> DEFINE U == T \ {a}
    <2>2. IsFiniteSet(U) /\ Cardinality(U) = n /\ U \in SUBSET (Nat \X Nat)
      <3>1. IsFiniteSet(U) /\ Cardinality(U) = Cardinality(T) - 1
        BY <2>1, FS_RemoveElement
      <3> QED
        BY <3>1
    <2>3. CASE U = {}
      BY <2>1, <2>3
    <2>4. CASE U # {}
      <3>1. HasGreatest(U)
        <4> HIDE DEF U, HasGreatest
        <4> QED
          BY <2>2, <2>4
      <3>2. PICK x \in U : \A y \in U : y[1] <= x[1]
        BY <3>1
      <3>3. a[1] \in Nat /\ x[1] \in Nat
        BY <2>1
      <3>4. CASE a[1] <= x[1]
        BY <2>1, <3>2, <3>4
      <3>5. CASE ~ (a[1] <= x[1])
        <4>1. \A y \in T : y[1] <= a[1]
          BY <2>1, <3>2, <3>3, <3>5
        <4> QED
          BY <2>1, <4>1
      <3> QED
        BY <3>4, <3>5
    <2> QED
      BY <2>3, <2>4
  <1>3. Sizes = Nat
    <2> HIDE DEF HasGreatest
    <2>1. Sizes \in SUBSET Nat
      OBVIOUS
    <2> HIDE DEF Sizes
    <2> QED
      BY <1>1, <1>2, <2>1, Induction
  <1>4. Cardinality(S) \in Nat
    BY FS_CardinalityType
  <1>5. HasGreatest(S)
    <2> HIDE DEF HasGreatest
    <2> QED
      BY <1>3, <1>4
  <1> QED
    BY <1>5

-----------------------------------------------------------------------------
(* Pages and paths                                                          *)

\* A dictionary by scope and slug has one of the pages of that key.
LEMMA ByKeyExists ==
    ASSUME NEW lib, DOMAIN lib \subseteq Paths, NEW p \in DOMAIN lib
    PROVE  ByKey(lib, DocKey(p)) \in DOMAIN lib /\ DocKey(ByKey(lib, DocKey(p))) = DocKey(p)
  <1> DEFINE k == DocKey(p)
             K == {q \in DOMAIN lib : DocKey(q) = k}
  <1>1. K \subseteq Paths /\ p \in K
    OBVIOUS
  <1>2. IsFiniteSet(K)
    <2> HIDE DEF K
    <2> QED
      BY <1>1, FS_Subset, PathsAssumption
  <1>6. PICK m \in K : \A q \in K : q[1] <= m[1]
    <2>1. K \in SUBSET (Nat \X Nat) /\ K # {}
      BY <1>1, PathsAssumption
    <2> HIDE DEF K
    <2> QED
      BY <1>2, <2>1, GreatestOwner
  <1>7. ASSUME NEW q \in DOMAIN lib, DocKey(q) = k PROVE ~ Precedes(m, q)
    <2>1. q \in K
      BY <1>7
    <2>2. q[1] <= m[1]
      BY <1>6, <2>1
    <2>3. q \in Nat \X Nat /\ m \in Nat \X Nat
      BY <1>1, <2>1, PathsAssumption
    <2>4. q[2] = m[2]
      <3>1. DocKey(q) = DocKey(m)
        BY <1>6, <1>7
      <3> QED
        BY <3>1 DEF DocKey
    <2> QED
      BY <2>2, <2>3, <2>4 DEF Precedes
  <1>8. m \in DOMAIN lib /\ DocKey(m) = k
    OBVIOUS
  <1> QED
    BY <1>7, <1>8, Zenon DEF ByKey

-----------------------------------------------------------------------------
(* What the pages and the proposals always are                              *)

\* A library on some day: well-formed pages, none stamped later.
LibraryOK(lib, day) ==
    /\ DOMAIN lib \subseteq Paths /\ lib = [p \in DOMAIN lib |-> lib[p]]
    /\ \A p \in DOMAIN lib : WellFormed(lib[p]) /\ (lib[p].stamp # Null => lib[p].stamp <= day)

\* A proposal is for an entity or for a page; a proposed page has no stamp.
ProposedPage(page) == WellFormed(page) /\ page.stamp = Null
ProposalOK(d) ==
    \/ d.at \in Entities /\ d.after.definition \in Definitions \cup {Null}
    \/ d.at \in Paths /\ (d.after = Null \/ ProposedPage(d.after))

PagesOK ==
    /\ now \in Nat /\ ver \in [Paths -> Nat]
    /\ entities \in [Entities -> Definitions \cup {Null}]
    /\ LibraryOK(pages, now)

ProposalsOK ==
    /\ \A d \in pending \cup job.diffs : ProposalOK(d)
    /\ job.docs \subseteq Docs /\ job.pc \in {"idle", "emitted"}
    /\ job = [pc |-> job.pc, docs |-> job.docs, prunes |-> job.prunes, entries |-> job.entries,
              delta |-> job.delta, diffs |-> job.diffs, clean |-> job.clean]

UpkeepOK == PagesOK /\ ProposalsOK

LEMMA PageFields ==
    ASSUME NEW c, NEW m
    PROVE  /\ Page(c, m).text = c.text /\ Page(c, m).tags = c.tags /\ Page(c, m).sl = c.sl
           /\ Page(c, m).refs = c.refs /\ Page(c, m).frozen = c.frozen
           /\ Page(c, m).bound = m.bound /\ Page(c, m).stamp = m.stamp /\ Page(c, m).source = m.source
  BY DEF Page

LEMMA PageIsWellFormed ==
    ASSUME NEW c, c.text \in Nat, c.tags \in SUBSET STRING, c.sl \in SUBSET Entities,
           c.refs \in SUBSET Nat, c.frozen \in BOOLEAN,
           NEW m, m.bound \in Bindings, m.stamp \in Nat \cup {Null},
           m.source \in {Null} \cup (Nat \X Bindings), m.source # Null => m.source[2] = m.bound
    PROVE  WellFormed(Page(c, m))
  <1>1. Page(c, m) \in PageRecords
    BY DEF Page, PageRecords
  <1> QED
    BY <1>1, PageFields DEF WellFormed

LEMMA PutKeepsLibrary ==
    ASSUME NEW lib, NEW day, LibraryOK(lib, day), NEW p \in Paths,
           NEW page, WellFormed(page), page.stamp # Null => page.stamp <= day
    PROVE  LibraryOK(Put(lib, p, page), day)
  BY DEF LibraryOK, Put

LEMMA WithoutKeepsLibrary ==
    ASSUME NEW lib, NEW day, LibraryOK(lib, day), NEW p
    PROVE  LibraryOK(Without(lib, p), day)
  BY DEF LibraryOK, Without, Restrict

\* What topics resolve to, and the binding, are over live entities.
LEMMA BoundIsBinding ==
    ASSUME NEW index \in [Entities -> Definitions \cup {Null}], NEW topics \in SUBSET Entities
    PROVE  /\ Resolved(topics, index) \in SUBSET Entities
           /\ Bound(Resolved(topics, index), index) \in Bindings
  <1> DEFINE S == Resolved(topics, index)
  <1>1. S \in SUBSET Entities /\ \A e \in S : index[e] \in Definitions
    BY DEF Resolved
  <1> HIDE DEF S
  <1>2. Bound(S, index) \in [S -> Definitions]
    BY <1>1 DEF Bound
  <1>3. [S -> Definitions] \in {[T -> Definitions] : T \in SUBSET Entities}
    BY <1>1
  <1>4. Bound(S, index) \in Bindings
    BY <1>2, <1>3, Zenon DEF Bindings
  <1> QED
    BY <1>1, <1>4 DEF S

\* The fields of a rendered draft.
LEMMA RenderedFields ==
    ASSUME NEW index \in [Entities -> Definitions \cup {Null}], NEW d \in Docs
    PROVE  /\ ProposedPage(Rendered(d, index))
           /\ Rendered(d, index).source = <<d.text, Bound(Resolved(d.topics, index), index)>>
           /\ Rendered(d, index).source # Null
           /\ Rendered(d, index).frozen = FALSE
  <1> DEFINE sl == Resolved(d.topics, index)
             bound == Bound(sl, index)
             c == [text |-> d.text, tags |-> {}, sl |-> sl, refs |-> {}, frozen |-> FALSE]
             m == [bound |-> bound, stamp |-> Null, source |-> <<d.text, bound>>]
  <1>1. d.text \in Nat /\ d.topics \in SUBSET Entities
    BY EvidenceAssumption
  <1>2. sl \in SUBSET Entities /\ bound \in Bindings
    BY <1>1, BoundIsBinding
  <1>3. Rendered(d, index) = Page(c, m)
    BY DEF Rendered
  <1> HIDE DEF sl, bound
  <1>4. c.text \in Nat /\ c.tags \in SUBSET STRING /\ c.sl \in SUBSET Entities
        /\ c.refs \in SUBSET Nat /\ c.frozen \in BOOLEAN
    BY <1>1, <1>2
  <1>5. m.bound = bound /\ m.stamp = Null /\ m.source = <<d.text, bound>>
    OBVIOUS
  <1>6. <<d.text, bound>> \in Nat \X Bindings /\ <<d.text, bound>>[2] = bound
    BY <1>1, <1>2
  <1>7. c.frozen = FALSE
    OBVIOUS
  <1> HIDE DEF c, m
  <1>8. WellFormed(Page(c, m))
    BY <1>2, <1>4, <1>5, <1>6, PageIsWellFormed
  <1>9. <<d.text, bound>> # Null
    BY <1>6, NullAssumption
  <1>10. Page(c, m).source = <<d.text, bound>> /\ Page(c, m).stamp = Null /\ Page(c, m).frozen = FALSE
    BY <1>5, <1>7, PageFields
  <1> QED
    BY <1>3, <1>8, <1>9, <1>10 DEF ProposedPage, bound, sl

-----------------------------------------------------------------------------
(* What a run decides                                                       *)

DraftPath(d) == <<Shared, d.slug>>
DraftEntry(d, delta) == Decide(DraftPath(d), Rendered(d, Final(delta)))
\* What a run decides of the drafts and the pruned pages, and all of it.
Decisions(docs, delta) ==
    PageEntries(docs, delta) \cup RefEdits(PageEntries(docs, delta), Proposed(delta))
IsDelta(delta) == DOMAIN delta \subseteq Entities /\ \A e \in DOMAIN delta : delta[e] \in Definitions \cup {Null}
\* The pages on disk are of one slug each, and so are the documents of a run.
IsEvidence(docs) == docs \subseteq Docs /\ \A d, e \in docs : d.slug = e.slug => d = e

LEMMA DeltasAre ==
    ASSUME NEW delta \in Deltas
    PROVE  IsDelta(delta)
  <1>1. PICK S \in {{}} \cup {{e} : e \in Entities} : delta \in [S -> Definitions \cup {Null}]
    BY Zenon DEF Deltas
  <1>2. S \subseteq Entities
    BY <1>1
  <1> QED
    BY <1>1, <1>2 DEF IsDelta

LEMMA IndexesAre ==
    ASSUME PagesOK, NEW delta, IsDelta(delta)
    PROVE  /\ Final(delta) \in [Entities -> Definitions \cup {Null}]
           /\ Proposed(delta) \in [Entities -> Definitions \cup {Null}]
           /\ (\A e \in DOMAIN delta : delta[e] # Null) => Final(delta) = Proposed(delta)
  BY DEF PagesOK, IsDelta, Final, Proposed

LEMMA EntryFields ==
    ASSUME NEW decision, NEW p, NEW after
    PROVE  /\ PageEntry(decision, p, after).decision = decision
           /\ PageEntry(decision, p, after).path = p
           /\ PageEntry(decision, p, after).after = after
  BY DEF PageEntry

\* The four outcomes for a document.
LEMMA DraftDecided ==
    ASSUME NEW d, NEW delta
    PROVE  LET p == DraftPath(d)
               page == Rendered(d, Final(delta))
               x == DraftEntry(d, delta)
           IN  \/ ~ Drafted(p) /\ x = PageEntry("add", p, page)
               \/ Drafted(p) /\ pages[p].source = page.source /\ x = PageEntry("no_op", p, Null)
               \/ /\ Drafted(p) /\ pages[p].source # page.source /\ pages[p].frozen
                  /\ x = PageEntry("contradiction", p, Null)
               \/ /\ Drafted(p) /\ pages[p].source # page.source /\ ~ pages[p].frozen
                  /\ x = PageEntry("edit", p, page)
  <1> DEFINE p == DraftPath(d)
             page == Rendered(d, Final(delta))
  <1>1. DraftEntry(d, delta) = Decide(p, page)
    BY DEF DraftEntry
  <1> HIDE DEF p, page
  <1>2. CASE ~ Drafted(p)
    BY <1>1, <1>2 DEF Decide, p, page
  <1>3. CASE Drafted(p) /\ pages[p].source = page.source
    BY <1>1, <1>3 DEF Decide, p, page
  <1>4. CASE Drafted(p) /\ pages[p].source # page.source
    BY <1>1, <1>4 DEF Decide, p, page
  <1> QED
    BY <1>2, <1>3, <1>4

LEMMA DraftEntryPath ==
    ASSUME NEW d, NEW delta
    PROVE  /\ DraftEntry(d, delta).path = DraftPath(d)
           /\ DraftEntry(d, delta).decision \in {"add", "no_op", "contradiction", "edit"}
  <1> DEFINE p == DraftPath(d)
             page == Rendered(d, Final(delta))
  <1>1. \/ DraftEntry(d, delta) = PageEntry("add", p, page)
        \/ DraftEntry(d, delta) = PageEntry("no_op", p, Null)
        \/ DraftEntry(d, delta) = PageEntry("contradiction", p, Null)
        \/ DraftEntry(d, delta) = PageEntry("edit", p, page)
    BY DraftDecided, Zenon
  <1> HIDE DEF p, page
  <1> QED
    BY <1>1, EntryFields DEF p

\* A page is pruned when ingest drafted it and no document stands for it.
Orphan(q, docs) ==
    q \in DOMAIN pages /\ Drafted(q) /\ ~ pages[q].frozen /\ \A d \in docs : DraftPath(d) # q

LEMMA PageEntriesAre ==
    ASSUME NEW docs, NEW delta, NEW x
    PROVE  x \in PageEntries(docs, delta) <=>
             \/ \E d \in docs : x = DraftEntry(d, delta)
             \/ \E q : Orphan(q, docs) /\ x = PageEntry("prune", q, Null)
  <1> DEFINE drafts == {DraftEntry(d, delta) : d \in docs}
             Gone == {q \in DOMAIN pages : /\ Drafted(q) /\ ~ pages[q].frozen
                                           /\ \A e \in drafts : e.path # q}
  <1>1. drafts = {Decide(<<Shared, d.slug>>, Rendered(d, Final(delta))) : d \in docs}
    BY DEF DraftEntry, DraftPath
  <1>2. PageEntries(docs, delta) = drafts \cup {PageEntry("prune", p, Null) : p \in Gone}
    BY <1>1, Zenon DEF PageEntries
  <1>3. \A q : q \in Gone <=> Orphan(q, docs)
    BY DraftEntryPath DEF Orphan
  <1> HIDE DEF Gone
  <1> QED
    BY <1>2, <1>3

RefEdit(p, decided, after) ==
    PageEntry("ref_edit", p, Pruned(pages[p], StaleEntities(pages[p], after),
                                              StaleRefs(p, pages[p], SlugsAfter(decided))))
\* A page of which a reference no longer resolves, left undecided so far.
Edited(p, docs, delta) ==
    /\ p \in Undecided(PageEntries(docs, delta))
    /\ IsStale(p, PageEntries(docs, delta), Proposed(delta))

LEMMA RefEditFields ==
    ASSUME NEW p, NEW decided, NEW after
    PROVE  /\ RefEdit(p, decided, after).decision = "ref_edit" /\ RefEdit(p, decided, after).path = p
           /\ RefEdit(p, decided, after).after =
                Pruned(pages[p], StaleEntities(pages[p], after), StaleRefs(p, pages[p], SlugsAfter(decided)))
  BY EntryFields DEF RefEdit

LEMMA DecisionsAre ==
    ASSUME NEW docs, NEW delta, NEW x
    PROVE  x \in Decisions(docs, delta) <=>
             \/ \E d \in docs : x = DraftEntry(d, delta)
             \/ \E q : Orphan(q, docs) /\ x = PageEntry("prune", q, Null)
             \/ \E q : Edited(q, docs, delta) /\ x = RefEdit(q, PageEntries(docs, delta), Proposed(delta))
  <1> DEFINE decided == PageEntries(docs, delta)
             after == Proposed(delta)
             S == {q \in Undecided(decided) : IsStale(q, decided, after)}
  <1>1. RefEdits(decided, after) = {RefEdit(p, decided, after) : p \in S}
    BY Zenon DEF RefEdits, RefEdit
  <1>2. \A q : q \in S <=> Edited(q, docs, delta)
    BY DEF Edited
  <1>3. x \in Decisions(docs, delta) <=> x \in decided \/ x \in RefEdits(decided, after)
    BY DEF Decisions
  <1>4. x \in decided <=> \/ \E d \in docs : x = DraftEntry(d, delta)
                          \/ \E q : Orphan(q, docs) /\ x = PageEntry("prune", q, Null)
    BY PageEntriesAre
  <1> HIDE DEF S, decided, after
  <1>5. x \in RefEdits(decided, after) <=> \E q : Edited(q, docs, delta) /\ x = RefEdit(q, decided, after)
    BY <1>1, <1>2, Zenon
  <1> QED
    BY <1>3, <1>4, <1>5 DEF decided, after

LEMMA TargetsAre ==
    ASSUME NEW entries, NEW decisions, NEW p
    PROVE  p \in Targets(entries, decisions) <=> \E x \in entries : x.path = p /\ x.decision \in decisions
  BY DEF Targets

\* An undecided page has no entry but perhaps that its draft is unchanged.
LEMMA UndecidedEntries ==
    ASSUME NEW docs, NEW delta, NEW p, p \in Undecided(PageEntries(docs, delta)),
           NEW x \in PageEntries(docs, delta), x.path = p
    PROVE  x.decision = "no_op"
  <1> DEFINE entries == PageEntries(docs, delta)
  <1>1. x.decision \in {"add", "no_op", "contradiction", "edit", "prune"}
    <2>1. CASE \E d \in docs : x = DraftEntry(d, delta)
      BY <2>1, DraftEntryPath
    <2>2. CASE \E q : Orphan(q, docs) /\ x = PageEntry("prune", q, Null)
      BY <2>2, EntryFields
    <2> QED
      BY <2>1, <2>2, PageEntriesAre
  <1>2. p \notin Targets(entries, {"add", "edit", "prune", "contradiction", "ref_edit"})
    BY DEF Undecided
  <1>3. x \in entries
    OBVIOUS
  <1> HIDE DEF entries
  <1>4. x.decision \notin {"add", "edit", "prune", "contradiction", "ref_edit"}
    BY <1>2, <1>3, TargetsAre
  <1> QED
    BY <1>1, <1>4

\* One decision per page.
LEMMA OneDecisionEach ==
    ASSUME NEW docs, IsEvidence(docs), NEW delta,
           NEW x \in Decisions(docs, delta), NEW y \in Decisions(docs, delta), x.path = y.path
    PROVE  x = y
  <1> DEFINE decided == PageEntries(docs, delta)
             after == Proposed(delta)
             IsDraft(z) == \E d \in docs : z = DraftEntry(d, delta)
             IsPrune(z) == \E q : Orphan(q, docs) /\ z = PageEntry("prune", q, Null)
             IsEdit(z) == \E q : Edited(q, docs, delta) /\ z = RefEdit(q, decided, after)
  <1>1. /\ IsDraft(x) \/ IsPrune(x) \/ IsEdit(x)
        /\ IsDraft(y) \/ IsPrune(y) \/ IsEdit(y)
    BY DecisionsAre
  <1>2. \A z : IsDraft(z) \/ IsPrune(z) => z \in decided
    BY PageEntriesAre
  <1>3. \A z : IsEdit(z) => z.path \in Undecided(decided) /\ z.path \notin Targets(decided, {"no_op"})
    BY EntryFields DEF Edited, RefEdit, IsStale
  <1>4. ASSUME NEW z, NEW w, IsEdit(z), w \in decided, w.path = z.path PROVE FALSE
    <2>1. w.decision = "no_op"
      BY <1>3, <1>4, UndecidedEntries
    <2> HIDE DEF IsEdit, decided
    <2> QED
      BY <1>3, <1>4, <2>1, TargetsAre
  <1>5. CASE IsDraft(x) /\ IsDraft(y)
    <2>1. PICK d \in docs, e \in docs : x = DraftEntry(d, delta) /\ y = DraftEntry(e, delta)
      BY <1>5
    <2>2. d.slug = e.slug
      BY <2>1, DraftEntryPath DEF DraftPath
    <2> QED
      BY <2>1, <2>2 DEF IsEvidence
  <1>6. CASE IsPrune(x) /\ IsPrune(y)
    BY <1>6, EntryFields
  <1>7. CASE IsEdit(x) /\ IsEdit(y)
    BY <1>7, EntryFields DEF RefEdit
  <1>8. ASSUME NEW z, NEW w, IsDraft(z), IsPrune(w) PROVE z.path # w.path
    <2>1. PICK d \in docs : z = DraftEntry(d, delta)
      BY <1>8
    <2>2. PICK q : Orphan(q, docs) /\ w = PageEntry("prune", q, Null)
      BY <1>8
    <2>3. z.path = DraftPath(d) /\ w.path = q
      BY <2>1, <2>2, DraftEntryPath, EntryFields
    <2> QED
      BY <2>2, <2>3 DEF Orphan
  <1> HIDE DEF IsDraft, IsPrune, IsEdit, decided, after
  <1>9. CASE IsEdit(x) /\ (IsDraft(y) \/ IsPrune(y))
    BY <1>2, <1>4, <1>9
  <1>10. CASE IsEdit(y) /\ (IsDraft(x) \/ IsPrune(x))
    BY <1>2, <1>4, <1>10
  <1> QED
    BY <1>1, <1>5, <1>6, <1>7, <1>8, <1>9, <1>10

\* What a decision says of the page and proposes for it.
LEMMA DecisionSays ==
    ASSUME PagesOK, NEW docs, IsEvidence(docs), NEW delta, NEW x \in Decisions(docs, delta)
    PROVE  /\ x.path \in Paths
           /\ x.decision \in {"add", "no_op", "contradiction", "edit", "prune", "ref_edit"}
           /\ x.decision \in {"add", "edit"} =>
                \E d \in docs : x.path = DraftPath(d) /\ x.after = Rendered(d, Final(delta))
           /\ x.decision \in {"edit", "no_op", "contradiction"} => Drafted(x.path)
           /\ x.decision = "no_op" =>
                \E d \in docs : x.path = DraftPath(d) /\ pages[x.path].source = Rendered(d, Final(delta)).source
           /\ x.decision = "contradiction" => pages[x.path].frozen
           /\ x.decision = "prune" => Orphan(x.path, docs) /\ x.after = Null
           /\ x.decision = "ref_edit" =>
                Edited(x.path, docs, delta) /\ x = RefEdit(x.path, PageEntries(docs, delta), Proposed(delta))
  <1>1. CASE \E d \in docs : x = DraftEntry(d, delta)
    <2>1. PICK d \in docs : x = DraftEntry(d, delta)
      BY <1>1
    <2> DEFINE p == DraftPath(d)
               page == Rendered(d, Final(delta))
    <2>2. p \in Paths
      BY EvidenceAssumption DEF IsEvidence, DraftPath
    <2>3. \/ x = PageEntry("add", p, page)
          \/ Drafted(p) /\ pages[p].source = page.source /\ x = PageEntry("no_op", p, Null)
          \/ Drafted(p) /\ pages[p].frozen /\ x = PageEntry("contradiction", p, Null)
          \/ Drafted(p) /\ x = PageEntry("edit", p, page)
      BY <2>1, DraftDecided, Zenon
    <2>4. \A e : e.path = p /\ e.after = page => \E f \in docs : e.path = DraftPath(f) /\ e.after = Rendered(f, Final(delta))
      OBVIOUS
    <2>5. \A e : e.path = p /\ pages[p].source = page.source =>
                 \E f \in docs : e.path = DraftPath(f) /\ pages[e.path].source = Rendered(f, Final(delta)).source
      OBVIOUS
    <2> HIDE DEF p, page
    <2>6. CASE x = PageEntry("add", p, page)
      <3>1. x.decision = "add" /\ x.path = p /\ x.after = page
        BY <2>6, EntryFields
      <3> QED
        BY <2>2, <2>4, <3>1
    <2>7. CASE Drafted(p) /\ pages[p].source = page.source /\ x = PageEntry("no_op", p, Null)
      <3>1. x.decision = "no_op" /\ x.path = p
        BY <2>7, EntryFields
      <3> QED
        BY <2>2, <2>5, <2>7, <3>1
    <2>8. CASE Drafted(p) /\ pages[p].frozen /\ x = PageEntry("contradiction", p, Null)
      <3>1. x.decision = "contradiction" /\ x.path = p
        BY <2>8, EntryFields
      <3> QED
        BY <2>2, <2>8, <3>1
    <2>9. CASE Drafted(p) /\ x = PageEntry("edit", p, page)
      <3>1. x.decision = "edit" /\ x.path = p /\ x.after = page
        BY <2>9, EntryFields
      <3> QED
        BY <2>2, <2>4, <2>9, <3>1
    <2> QED
      BY <2>3, <2>6, <2>7, <2>8, <2>9
  <1>2. CASE \E q : Orphan(q, docs) /\ x = PageEntry("prune", q, Null)
    <2>1. PICK q : Orphan(q, docs) /\ x = PageEntry("prune", q, Null)
      BY <1>2
    <2>2. x.decision = "prune" /\ x.path = q /\ x.after = Null
      BY <2>1, EntryFields
    <2>3. q \in Paths
      BY <2>1 DEF Orphan, PagesOK, LibraryOK
    <2> QED
      BY <2>1, <2>2, <2>3
  <1>3. CASE \E q : Edited(q, docs, delta) /\ x = RefEdit(q, PageEntries(docs, delta), Proposed(delta))
    <2>1. PICK q : Edited(q, docs, delta) /\ x = RefEdit(q, PageEntries(docs, delta), Proposed(delta))
      BY <1>3
    <2>2. x.decision = "ref_edit" /\ x.path = q
      BY <2>1, EntryFields DEF RefEdit
    <2>3. q \in Paths
      BY <2>1 DEF Edited, Undecided, PagesOK, LibraryOK
    <2> QED
      BY <2>1, <2>2, <2>3
  <1> QED
    BY <1>1, <1>2, <1>3, DecisionsAre

\* A pruned page: everything but the stamp and the references taken out.
LEMMA PrunedFields ==
    ASSUME NEW page, WellFormed(page), NEW sl, NEW refs
    PROVE  /\ ProposedPage(Pruned(page, sl, refs))
           /\ Pruned(page, sl, refs).sl = page.sl \ sl
           /\ Pruned(page, sl, refs).refs = page.refs \ refs
           /\ Pruned(page, sl, refs).source = page.source
           /\ Pruned(page, sl, refs).frozen = page.frozen
  <1> DEFINE new == Pruned(page, sl, refs)
  <1>1. page \in PageRecords
    BY DEF WellFormed
  <1>2. new \in [text : {page.text}, tags : {page.tags}, sl : {page.sl \ sl}, refs : {page.refs \ refs},
                frozen : {page.frozen}, bound : {page.bound}, stamp : {Null}, source : {page.source}]
    BY <1>1 DEF Pruned, PageRecords
  <1>3. new \in PageRecords
    <2> HIDE DEF new
    <2> QED
      BY <1>1, <1>2 DEF PageRecords
  <1>4. new.sl = page.sl \ sl /\ new.refs = page.refs \ refs /\ new.source = page.source
        /\ new.frozen = page.frozen /\ new.bound = page.bound /\ new.stamp = Null
    BY <1>2
  <1> QED
    BY <1>3, <1>4 DEF WellFormed, ProposedPage

-----------------------------------------------------------------------------
(* What the proposals of a run lead to                                      *)

\* Accepting the proposals turns the pages lib and the definitions ents into
\* the pages L and the definitions E.
Leads(lib, ents, diffs, L, E) ==
    /\ DOMAIN L \subseteq Paths /\ L = [p \in DOMAIN L |-> L[p]]
    /\ E \in [Entities -> Definitions \cup {Null}]
    /\ \A p \in Paths : (\A d \in diffs : d.at # p) =>
          /\ p \in DOMAIN L <=> p \in DOMAIN lib
          /\ p \in DOMAIN lib => L[p] = lib[p]
    /\ \A d \in diffs : d.at \in Paths =>
          IF d.after = Null THEN d.at \notin DOMAIN L ELSE d.at \in DOMAIN L /\ L[d.at] = d.after
    /\ \A e \in Entities : (\A d \in diffs : d.at # e) => E[e] = ents[e]
    /\ \A d \in diffs : d.at \in Entities => E[d.at] = d.after.definition

\* A page that is not ingest's own refers to what is there.
SoundLibrary(L, E) ==
    \A p \in DOMAIN L : (~ L[p].frozen /\ L[p].source = Null) =>
        /\ StaleEntities(L[p], E) = {}
        /\ StaleRefs(p, L[p], {DocKey(q) : q \in DOMAIN L}) = {}

\* Every document has its draft, rendered from the definitions as they are
\* unless it is frozen, and every draft that is not frozen has its document.
QuietLibrary(L, E, docs) ==
    /\ \A d \in docs : LET p == DraftPath(d)
                       IN  /\ p \in DOMAIN L /\ L[p].source # Null
                           /\ L[p].frozen \/ L[p].source = Rendered(d, E).source
    /\ \A p \in DOMAIN L : (L[p].source # Null /\ ~ L[p].frozen) => \E d \in docs : DraftPath(d) = p

Settles(lib, ents, diffs, docs, prunes) ==
    \E L, E : /\ Leads(lib, ents, diffs, L, E) /\ SoundLibrary(L, E)
              /\ ~ prunes => QuietLibrary(L, E, docs)

\* One proposal per page and per entity.
OneEach(diffs) == \A d, e \in diffs : d.at = e.at => d = e

Proposing == {"add", "edit", "prune", "ref_edit"}

LEMMA DiffsAre ==
    ASSUME NEW entries, NEW delta, NEW d
    PROVE  d \in Diffs(entries, delta) <=>
             \/ \E x \in entries : x.decision \in Proposing /\ d = PageDiff(x)
             \/ \E e \in DOMAIN delta : d = EntityDiff(e, delta[e])
  BY DEF Diffs, Proposing

LEMMA DiffFields ==
    ASSUME NEW x, NEW e, NEW def
    PROVE  /\ PageDiff(x).at = x.path /\ PageDiff(x).after = x.after
           /\ EntityDiff(e, def).at = e /\ EntityDiff(e, def).after.definition = def
  BY DEF PageDiff, EntityDiff

\* The proposals of a run are well-formed, one for each page and entity.
LEMMA RunProposes ==
    ASSUME PagesOK, NEW docs, IsEvidence(docs), NEW delta, IsDelta(delta)
    PROVE  /\ \A x \in Decisions(docs, delta) : x.decision \in {"add", "edit", "ref_edit"} => ProposedPage(x.after)
           /\ \A d \in Diffs(Decisions(docs, delta), delta) : ProposalOK(d)
           /\ OneEach(Diffs(Decisions(docs, delta), delta))
  <1> DEFINE entries == Decisions(docs, delta)
             diffs == Diffs(entries, delta)
  <1>1. ASSUME NEW x \in entries, x.decision \in {"add", "edit", "ref_edit"} PROVE ProposedPage(x.after)
    <2>1. CASE x.decision \in {"add", "edit"}
      <3>1. PICK d \in docs : x.after = Rendered(d, Final(delta))
        BY <2>1, DecisionSays
      <3> QED
        BY <3>1, RenderedFields, IndexesAre DEF IsEvidence
    <2>2. CASE x.decision = "ref_edit"
      <3>1. Edited(x.path, docs, delta) /\ x = RefEdit(x.path, PageEntries(docs, delta), Proposed(delta))
        BY <2>2, DecisionSays
      <3>2. x.path \in DOMAIN pages
        BY <3>1 DEF Edited, Undecided
      <3>3. WellFormed(pages[x.path])
        BY <3>2 DEF PagesOK, LibraryOK
      <3>4. x.after = Pruned(pages[x.path], StaleEntities(pages[x.path], Proposed(delta)),
                             StaleRefs(x.path, pages[x.path], SlugsAfter(PageEntries(docs, delta))))
        BY <3>1, RefEditFields
      <3> QED
        BY <3>3, <3>4, PrunedFields
    <2> QED
      BY <1>1, <2>1, <2>2
  <1>2. ASSUME NEW x \in entries, x.decision \in Proposing PROVE ProposalOK(PageDiff(x))
    <2>1. x.path \in Paths /\ (x.decision = "prune" => x.after = Null)
      BY DecisionSays
    <2> HIDE DEF entries
    <2> QED
      BY <1>1, <1>2, <2>1, DiffFields DEF ProposalOK, Proposing
  <1>3. ASSUME NEW e \in DOMAIN delta PROVE ProposalOK(EntityDiff(e, delta[e]))
    BY DiffFields DEF ProposalOK, IsDelta
  <1>4. \A d \in diffs : ProposalOK(d)
    <2> HIDE DEF entries
    <2> QED
      BY <1>2, <1>3, DiffsAre
  <1>5. ASSUME NEW x \in entries, NEW e \in DOMAIN delta PROVE PageDiff(x).at # EntityDiff(e, delta[e]).at
    <2>1. x.path \in Paths /\ e \in Entities
      BY DecisionSays DEF IsDelta
    <2> HIDE DEF entries
    <2> QED
      BY <2>1, DiffFields, PathsAssumption
  <1>6. ASSUME NEW x \in entries, NEW y \in entries, PageDiff(x).at = PageDiff(y).at PROVE x = y
    <2>1. x.path = y.path
      BY <1>6, DiffFields
    <2> QED
      BY <2>1, OneDecisionEach
  <1>7. ASSUME NEW d \in diffs, NEW e \in diffs, d.at = e.at PROVE d = e
    <2> HIDE DEF entries
    <2>1. /\ (\E x \in entries : d = PageDiff(x)) \/ \E a \in DOMAIN delta : d = EntityDiff(a, delta[a])
          /\ (\E x \in entries : e = PageDiff(x)) \/ \E a \in DOMAIN delta : e = EntityDiff(a, delta[a])
      BY DiffsAre
    <2> HIDE DEF diffs
    <2>2. CASE (\E x \in entries : d = PageDiff(x)) /\ (\E x \in entries : e = PageDiff(x))
      BY <1>6, <1>7, <2>2
    <2>3. CASE (\E a \in DOMAIN delta : d = EntityDiff(a, delta[a])) /\ (\E a \in DOMAIN delta : e = EntityDiff(a, delta[a]))
      BY <1>7, <2>3, DiffFields
    <2> QED
      BY <1>5, <1>7, <2>1, <2>2, <2>3
  <1> QED
    BY <1>1, <1>4, <1>7 DEF OneEach

\* The pages as a run would have them: pruned ones gone, drafts added, and the
\* proposed text where there is one.
DomainAfter(decided) == (DOMAIN pages \ Targets(decided, {"prune"})) \cup Targets(decided, {"add"})
TextAfter(entries, p) ==
    IF \E x \in entries : x.path = p /\ x.decision \in Proposing
    THEN (CHOOSE x \in entries : x.path = p /\ x.decision \in Proposing).after ELSE pages[p]
LibraryAfter(docs, delta) ==
    [p \in DomainAfter(PageEntries(docs, delta)) |-> TextAfter(Decisions(docs, delta), p)]

LEMMA DomainAfterIs ==
    ASSUME PagesOK, NEW docs, IsEvidence(docs), NEW delta, NEW p
    PROVE  p \in DomainAfter(PageEntries(docs, delta)) <=>
             \/ p \in DOMAIN pages /\ \A x \in Decisions(docs, delta) : x.path = p => x.decision # "prune"
             \/ \E x \in Decisions(docs, delta) : x.path = p /\ x.decision = "add"
  <1> DEFINE decided == PageEntries(docs, delta)
             entries == Decisions(docs, delta)
  <1>1. \A x \in entries : x.decision \in {"prune", "add"} => x \in decided
    <2> SUFFICES ASSUME NEW x \in entries, x.decision \in {"prune", "add"} PROVE x \in decided
      OBVIOUS
    <2>1. x \in decided \/ \E q : x = RefEdit(q, decided, Proposed(delta))
      BY DecisionsAre, PageEntriesAre
    <2> QED
      BY <2>1, RefEditFields
  <1>2. decided \subseteq entries
    BY DEF Decisions
  <1> HIDE DEF decided, entries
  <1>3. /\ p \in Targets(decided, {"prune"}) <=> \E x \in entries : x.path = p /\ x.decision = "prune"
        /\ p \in Targets(decided, {"add"}) <=> \E x \in entries : x.path = p /\ x.decision = "add"
    BY <1>1, <1>2, TargetsAre
  <1>4. p \in DomainAfter(decided) <=> (p \in DOMAIN pages /\ p \notin Targets(decided, {"prune"})) \/ p \in Targets(decided, {"add"})
    BY DEF DomainAfter
  <1>5. p \in DomainAfter(decided) <=>
             \/ p \in DOMAIN pages /\ \A x \in entries : x.path = p => x.decision # "prune"
             \/ \E x \in entries : x.path = p /\ x.decision = "add"
    BY <1>3, <1>4
  <1> QED
    BY <1>5 DEF decided, entries

\* Page by page: as proposed, gone, or as it is.
LEMMA LibraryAfterIs ==
    ASSUME PagesOK, NEW docs, IsEvidence(docs), NEW delta
    PROVE  /\ DOMAIN LibraryAfter(docs, delta) = DomainAfter(PageEntries(docs, delta))
           /\ \A x \in Decisions(docs, delta) : x.decision \in {"add", "edit", "ref_edit"} =>
                /\ x.path \in DOMAIN LibraryAfter(docs, delta)
                /\ LibraryAfter(docs, delta)[x.path] = x.after
           /\ \A x \in Decisions(docs, delta) : x.decision = "prune" => x.path \notin DOMAIN LibraryAfter(docs, delta)
           /\ \A p : (\A x \in Decisions(docs, delta) : x.decision \in Proposing => x.path # p) =>
                /\ p \in DOMAIN LibraryAfter(docs, delta) <=> p \in DOMAIN pages
                /\ p \in DOMAIN pages => LibraryAfter(docs, delta)[p] = pages[p]
  <1> DEFINE entries == Decisions(docs, delta)
             Dom == DomainAfter(PageEntries(docs, delta))
             L == LibraryAfter(docs, delta)
  <1>1. DOMAIN L = Dom /\ \A p \in Dom : L[p] = TextAfter(entries, p)
    BY DEF LibraryAfter
  <1>2. \A p : p \in Dom <=> \/ p \in DOMAIN pages /\ \A x \in entries : x.path = p => x.decision # "prune"
                            \/ \E x \in entries : x.path = p /\ x.decision = "add"
    BY DomainAfterIs
  <1>3. \A x, y \in entries : x.path = y.path => x = y
    BY OneDecisionEach
  <1>4. \A x \in entries : x.decision \in {"edit", "ref_edit"} => x.path \in DOMAIN pages
    BY DecisionSays DEF Drafted, Edited, Undecided
  <1> HIDE DEF entries, Dom, L
  <1>5. ASSUME NEW x \in entries, x.decision \in {"add", "edit", "ref_edit"} PROVE x.path \in Dom /\ L[x.path] = x.after
    <2>1. x.path \in Dom
      BY <1>2, <1>3, <1>4, <1>5
    <2>2. TextAfter(entries, x.path) = (CHOOSE y \in entries : y.path = x.path /\ y.decision \in Proposing).after
      BY <1>5 DEF TextAfter, Proposing
    <2>3. (CHOOSE y \in entries : y.path = x.path /\ y.decision \in Proposing) = x
      BY <1>3, <1>5 DEF Proposing
    <2> QED
      BY <1>1, <2>1, <2>2, <2>3
  <1>6. ASSUME NEW x \in entries, x.decision = "prune" PROVE x.path \notin Dom
    BY <1>2, <1>3, <1>6
  <1>7. ASSUME NEW p, \A x \in entries : x.decision \in Proposing => x.path # p
        PROVE  (p \in Dom <=> p \in DOMAIN pages) /\ (p \in DOMAIN pages => L[p] = pages[p])
    BY <1>1, <1>2, <1>7 DEF TextAfter, Proposing
  <1> QED
    BY <1>1, <1>5, <1>6, <1>7 DEF entries, Dom, L

LEMMA RunLeads ==
    ASSUME PagesOK, NEW docs, IsEvidence(docs), NEW delta, IsDelta(delta)
    PROVE  Leads(pages, entities, Diffs(Decisions(docs, delta), delta), LibraryAfter(docs, delta), Proposed(delta))
  <1> DEFINE entries == Decisions(docs, delta)
             diffs == Diffs(entries, delta)
             L == LibraryAfter(docs, delta)
             E == Proposed(delta)
  <1>1. \A d : d \in diffs <=> \/ \E x \in entries : x.decision \in Proposing /\ d = PageDiff(x)
                             \/ \E e \in DOMAIN delta : d = EntityDiff(e, delta[e])
    BY DiffsAre
  <1>2. \A x \in entries : x.path \in Paths /\ (x.decision = "prune" => x.after = Null)
    BY DecisionSays
  <1>3. \A x \in entries : x.decision \in {"add", "edit", "ref_edit"} =>
            /\ x.path \in DOMAIN L /\ L[x.path] = x.after /\ x.after # Null
    <2>1. \A x \in entries : x.decision \in {"add", "edit", "ref_edit"} => x.path \in DOMAIN L /\ L[x.path] = x.after
      BY LibraryAfterIs
    <2>2. \A x \in entries : x.decision \in {"add", "edit", "ref_edit"} => ProposedPage(x.after)
      BY RunProposes
    <2>3. \A page : ProposedPage(page) => page # Null
      BY NullAssumption DEF ProposedPage, WellFormed
    <2> QED
      BY <2>1, <2>2, <2>3
  <1>4. \A x \in entries : x.decision = "prune" => x.path \notin DOMAIN L
    BY LibraryAfterIs
  <1>5. \A p : (\A x \in entries : x.decision \in Proposing => x.path # p) =>
                (p \in DOMAIN L <=> p \in DOMAIN pages) /\ (p \in DOMAIN pages => L[p] = pages[p])
    BY LibraryAfterIs
  <1>6. DOMAIN L \subseteq Paths
    <2>1. DOMAIN pages \subseteq Paths
      BY DEF PagesOK, LibraryOK
    <2> HIDE DEF entries, L
    <2> QED
      BY <1>2, <1>5, <2>1
  <1>7. L = [p \in DOMAIN L |-> L[p]]
    BY DEF LibraryAfter
  <1>8. E \in [Entities -> Definitions \cup {Null}] /\ \A e \in Entities : E[e] = IF e \in DOMAIN delta THEN delta[e] ELSE entities[e]
    BY IndexesAre DEF Proposed
  <1>9. \A e \in DOMAIN delta : e \in Entities
    BY DEF IsDelta
  <1> HIDE DEF entries, diffs, L, E
  <1>10. ASSUME NEW p \in Paths, \A d \in diffs : d.at # p
         PROVE  (p \in DOMAIN L <=> p \in DOMAIN pages) /\ (p \in DOMAIN pages => L[p] = pages[p])
    <2>1. ASSUME NEW x \in entries, x.decision \in Proposing PROVE x.path # p
      <3>1. PageDiff(x) \in diffs
        BY <1>1, <2>1
      <3> QED
        BY <1>10, <3>1, DiffFields
    <2> QED
      BY <1>5, <2>1
  <1>11. ASSUME NEW d \in diffs, d.at \in Paths
         PROVE  IF d.after = Null THEN d.at \notin DOMAIN L ELSE d.at \in DOMAIN L /\ L[d.at] = d.after
    <2>1. PICK x \in entries : x.decision \in Proposing /\ d = PageDiff(x)
      BY <1>1, <1>9, <1>11, DiffFields, PathsAssumption
    <2>2. d.at = x.path /\ d.after = x.after
      BY <2>1, DiffFields
    <2> QED
      BY <1>2, <1>3, <1>4, <2>1, <2>2 DEF Proposing
  <1>12. ASSUME NEW e \in Entities, \A d \in diffs : d.at # e PROVE E[e] = entities[e]
    <2>1. e \notin DOMAIN delta
      BY <1>1, <1>12, DiffFields
    <2> QED
      BY <1>8, <2>1
  <1>13. ASSUME NEW d \in diffs, d.at \in Entities PROVE E[d.at] = d.after.definition
    <2>1. PICK e \in DOMAIN delta : d = EntityDiff(e, delta[e])
      BY <1>1, <1>2, <1>13, DiffFields, PathsAssumption
    <2> QED
      BY <1>8, <1>9, <2>1, DiffFields
  <1>14. Leads(pages, entities, diffs, L, E)
    BY <1>6, <1>7, <1>8, <1>10, <1>11, <1>12, <1>13 DEF Leads
  <1> QED
    BY <1>14 DEF entries, diffs, L, E

LEMMA KeysAfter ==
    ASSUME PagesOK, NEW docs, IsEvidence(docs), NEW delta
    PROVE  SlugsAfter(PageEntries(docs, delta)) = {DocKey(q) : q \in DOMAIN LibraryAfter(docs, delta)}
  <1>1. DOMAIN LibraryAfter(docs, delta) = DomainAfter(PageEntries(docs, delta))
    BY LibraryAfterIs
  <1> QED
    BY <1>1 DEF SlugsAfter, DomainAfter

\* Pruning takes out exactly what no longer resolves.
LEMMA PruningHeals ==
    ASSUME NEW page, WellFormed(page), NEW p, NEW ents, NEW slugs
    PROVE  LET new == Pruned(page, StaleEntities(page, ents), StaleRefs(p, page, slugs))
           IN  StaleEntities(new, ents) = {} /\ StaleRefs(p, new, slugs) = {}
  <1> DEFINE new == Pruned(page, StaleEntities(page, ents), StaleRefs(p, page, slugs))
  <1>1. new.sl = page.sl \ StaleEntities(page, ents) /\ new.refs = page.refs \ StaleRefs(p, page, slugs)
    BY PrunedFields
  <1> HIDE DEF new
  <1>2. StaleEntities(new, ents) = {}
    BY <1>1 DEF StaleEntities
  <1>3. StaleRefs(p, new, slugs) = {}
    BY <1>1 DEF StaleRefs
  <1> QED
    BY <1>2, <1>3 DEF new

\* Only a draft is left as it is, contradicted or pruned by what is decided first.
LEMMA OthersAreUndecided ==
    ASSUME PagesOK, NEW docs, IsEvidence(docs), NEW delta, NEW p \in DOMAIN pages, ~ pages[p].frozen,
           \A x \in Decisions(docs, delta) : x.decision \in Proposing => x.path # p
    PROVE  /\ p \in Undecided(PageEntries(docs, delta)) /\ p \in Undecided(Decisions(docs, delta))
           /\ ~ IsStale(p, PageEntries(docs, delta), Proposed(delta))
  <1> DEFINE decided == PageEntries(docs, delta)
             entries == Decisions(docs, delta)
  <1>1. \A x \in entries : x.path = p => x.decision = "no_op"
    BY DecisionSays DEF Proposing
  <1>2. decided \subseteq entries
    BY DEF Decisions
  <1>3. p \notin Targets(entries, {"add", "edit", "prune", "contradiction", "ref_edit"})
    <2> HIDE DEF entries
    <2> QED
      BY <1>1, TargetsAre
  <1>4. p \notin Targets(decided, {"add", "edit", "prune", "contradiction", "ref_edit"})
    <2> HIDE DEF entries, decided
    <2> QED
      BY <1>1, <1>2, TargetsAre
  <1>5. p \in Undecided(decided) /\ p \in Undecided(entries)
    BY <1>3, <1>4 DEF Undecided
  <1>6. ~ IsStale(p, decided, Proposed(delta))
    <2> SUFFICES ASSUME IsStale(p, decided, Proposed(delta)) PROVE FALSE
      OBVIOUS
    <2>1. Edited(p, docs, delta)
      BY <1>5 DEF Edited
    <2> DEFINE x == RefEdit(p, decided, Proposed(delta))
    <2>2. x \in entries
      BY <2>1, DecisionsAre
    <2>3. x.path = p /\ x.decision = "ref_edit"
      BY RefEditFields
    <2> QED
      BY <1>1, <2>2, <2>3
  <1> QED
    BY <1>5, <1>6

LEMMA RunIsSound ==
    ASSUME PagesOK, NEW docs, IsEvidence(docs), NEW delta, IsDelta(delta)
    PROVE  SoundLibrary(LibraryAfter(docs, delta), Proposed(delta))
  <1> DEFINE decided == PageEntries(docs, delta)
             entries == Decisions(docs, delta)
             L == LibraryAfter(docs, delta)
             E == Proposed(delta)
             Keys == {DocKey(q) : q \in DOMAIN L}
  <1> SUFFICES ASSUME NEW p \in DOMAIN L, ~ L[p].frozen, L[p].source = Null
               PROVE  StaleEntities(L[p], E) = {} /\ StaleRefs(p, L[p], Keys) = {}
    BY DEF SoundLibrary
  <1>1. Keys = SlugsAfter(decided)
    BY KeysAfter
  <1>2. CASE \E x \in entries : x.path = p /\ x.decision \in Proposing
    <2>1. PICK x \in entries : x.path = p /\ x.decision \in Proposing
      BY <1>2
    <2>2. x.decision \in {"add", "edit", "ref_edit"} /\ L[p] = x.after
      BY <2>1, LibraryAfterIs DEF Proposing
    <2>3. x.decision = "ref_edit"
      <3> SUFFICES ASSUME x.decision \in {"add", "edit"} PROVE FALSE
        BY <2>2
      <3>1. PICK d \in docs : x.after = Rendered(d, Final(delta))
        BY DecisionSays
      <3>2. Rendered(d, Final(delta)).source # Null
        BY RenderedFields, IndexesAre DEF IsEvidence
      <3> QED
        BY <2>2, <3>1, <3>2
    <2>4. Edited(p, docs, delta) /\ x = RefEdit(p, decided, E)
      BY <2>1, <2>3, DecisionSays
    <2>5. L[p] = Pruned(pages[p], StaleEntities(pages[p], E), StaleRefs(p, pages[p], SlugsAfter(decided)))
      BY <2>2, <2>4, RefEditFields
    <2>6. WellFormed(pages[p])
      BY <2>4 DEF Edited, Undecided, PagesOK, LibraryOK
    <2> HIDE DEF L, E, Keys, decided
    <2> QED
      BY <1>1, <2>5, <2>6, PruningHeals
  <1>3. CASE \A x \in entries : x.decision \in Proposing => x.path # p
    <2>1. p \in DOMAIN pages /\ L[p] = pages[p]
      BY <1>3, LibraryAfterIs
    <2>2. ~ IsStale(p, decided, E)
      BY <1>3, <2>1, OthersAreUndecided
    <2>3. ~ Drafted(p)
      BY <2>1 DEF Drafted
    <2>4. \A x \in decided : x.path = p => x.decision # "no_op"
      <3>1. decided \subseteq entries
        BY DEF Decisions
      <3> QED
        BY <2>3, <3>1, DecisionSays
    <2> HIDE DEF L, E, Keys, decided
    <2>5. p \notin Targets(decided, {"no_op"})
      BY <2>4, TargetsAre
    <2> QED
      BY <1>1, <2>1, <2>2, <2>5 DEF IsStale
  <1> QED
    BY <1>2, <1>3

LEMMA RunIsQuiet ==
    ASSUME PagesOK, NEW docs, IsEvidence(docs), NEW delta, IsDelta(delta), \A e \in DOMAIN delta : delta[e] # Null
    PROVE  QuietLibrary(LibraryAfter(docs, delta), Proposed(delta), docs)
  <1> DEFINE entries == Decisions(docs, delta)
             L == LibraryAfter(docs, delta)
             E == Proposed(delta)
  <1>1. Final(delta) = E
    BY IndexesAre
  <1>2. \A x, y \in entries : x.path = y.path => x = y
    BY OneDecisionEach
  <1>3. ASSUME NEW d \in docs
        PROVE  LET p == DraftPath(d)
               IN  /\ p \in DOMAIN L /\ L[p].source # Null
                   /\ L[p].frozen \/ L[p].source = Rendered(d, E).source
    <2> DEFINE p == DraftPath(d)
               x == DraftEntry(d, delta)
               page == Rendered(d, Final(delta))
    <2>1. x \in entries /\ x.path = p
      BY DecisionsAre, DraftEntryPath
    <2>2. page.source # Null
      BY RenderedFields, IndexesAre DEF IsEvidence
    <2>3. CASE x.decision \in {"add", "edit"}
      <3>1. p \in DOMAIN L /\ L[p] = x.after
        BY <2>1, <2>3, LibraryAfterIs
      <3>2. x.after = page
        <4>1. \/ x = PageEntry("add", p, page) \/ x = PageEntry("edit", p, page)
              \/ x = PageEntry("no_op", p, Null) \/ x = PageEntry("contradiction", p, Null)
          BY DraftDecided, Zenon
        <4> HIDE DEF x, p, page
        <4> QED
          BY <2>3, <4>1, EntryFields
      <3> QED
        BY <1>1, <2>2, <3>1, <3>2
    <2>4. CASE x.decision \in {"no_op", "contradiction"}
      <3>1. \A y \in entries : y.decision \in Proposing => y.path # p
        <4> HIDE DEF entries, x
        <4> QED
          BY <1>2, <2>1, <2>4 DEF Proposing
      <3>2. Drafted(p) /\ (x.decision = "contradiction" => pages[p].frozen)
        BY <2>1, <2>4, DecisionSays
      <3>3. p \in DOMAIN L /\ L[p] = pages[p] /\ pages[p].source # Null
        BY <3>1, <3>2, LibraryAfterIs DEF Drafted
      <3>4. x.decision = "no_op" => pages[p].source = page.source
        <4>1. \/ x = PageEntry("add", p, page) \/ x = PageEntry("edit", p, page)
              \/ (x = PageEntry("no_op", p, Null) /\ pages[p].source = page.source)
              \/ x = PageEntry("contradiction", p, Null)
          BY DraftDecided, Zenon
        <4> HIDE DEF x, p, page
        <4> QED
          BY <4>1, EntryFields
      <3> QED
        BY <1>1, <2>4, <3>2, <3>3, <3>4
    <2> QED
      BY <2>3, <2>4, DraftEntryPath
  <1>4. ASSUME NEW p \in DOMAIN L, L[p].source # Null, ~ L[p].frozen, \A d \in docs : DraftPath(d) # p
        PROVE  FALSE
    <2>1. ASSUME p \in DOMAIN pages, pages[p].source # Null, ~ pages[p].frozen PROVE FALSE
      <3>1. Orphan(p, docs)
        BY <1>4, <2>1 DEF Orphan, Drafted
      <3> DEFINE x == PageEntry("prune", p, Null)
      <3>2. x \in entries
        BY <3>1, DecisionsAre
      <3>3. x.path = p /\ x.decision = "prune"
        BY EntryFields
      <3> QED
        BY <1>4, <3>2, <3>3, LibraryAfterIs
    <2>2. CASE \E x \in entries : x.path = p /\ x.decision \in Proposing
      <3>1. PICK x \in entries : x.path = p /\ x.decision \in Proposing
        BY <2>2
      <3>2. x.decision \in {"add", "edit", "ref_edit"} /\ L[p] = x.after
        BY <1>4, <3>1, LibraryAfterIs DEF Proposing
      <3>3. x.decision = "ref_edit"
        BY <1>4, <3>1, <3>2, DecisionSays
      <3>4. Edited(p, docs, delta) /\ x = RefEdit(p, PageEntries(docs, delta), E)
        BY <3>1, <3>3, DecisionSays
      <3>5. p \in DOMAIN pages /\ WellFormed(pages[p])
        BY <3>4 DEF Edited, Undecided, PagesOK, LibraryOK
      <3>6. \E sl, refs : L[p] = Pruned(pages[p], sl, refs)
        BY <3>2, <3>4, RefEditFields
      <3>7. pages[p].source = L[p].source /\ pages[p].frozen = L[p].frozen
        BY <3>5, <3>6, PrunedFields
      <3> QED
        BY <1>4, <2>1, <3>5, <3>7
    <2>3. CASE \A x \in entries : x.decision \in Proposing => x.path # p
      <3>1. p \in DOMAIN pages /\ L[p] = pages[p]
        BY <1>4, <2>3, LibraryAfterIs
      <3> QED
        BY <1>4, <2>1, <3>1
    <2> QED
      BY <2>2, <2>3
  <1> HIDE DEF L, E
  <1>5. QuietLibrary(L, E, docs)
    BY <1>3, <1>4 DEF QuietLibrary
  <1> QED
    BY <1>5 DEF L, E

\* A page that a run leaves alone is one it has checked: there is no proposal for
\* it and its references resolve.
LEMMA RunChecks ==
    ASSUME PagesOK, NEW docs, IsEvidence(docs), NEW delta, IsDelta(delta)
    PROVE  LET entries == Decisions(docs, delta)
               diffs == Diffs(entries, delta)
           IN  /\ \A p \in Undecided(entries) : \A d \in diffs : d.at # p
               /\ \A p \in DOMAIN pages :
                    \/ pages[p].frozen \/ \E d \in diffs : d.at = p
                    \/ p \in Undecided(entries) /\ ~ IsStale(p, entries, Proposed(delta))
  <1> DEFINE decided == PageEntries(docs, delta)
             entries == Decisions(docs, delta)
             diffs == Diffs(entries, delta)
  <1>1. \A d : d \in diffs <=> \/ \E x \in entries : x.decision \in Proposing /\ d = PageDiff(x)
                             \/ \E e \in DOMAIN delta : d = EntityDiff(e, delta[e])
    BY DiffsAre
  <1>2. ASSUME NEW p \in Undecided(entries), NEW d \in diffs, d.at = p PROVE FALSE
    <2>1. p \in Paths /\ p \notin Targets(entries, {"add", "edit", "prune", "contradiction", "ref_edit"})
      BY DEF Undecided, PagesOK, LibraryOK
    <2> HIDE DEF entries, diffs
    <2>2. PICK x \in entries : x.decision \in Proposing /\ d = PageDiff(x)
      BY <1>1, <1>2, <2>1, DiffFields, PathsAssumption DEF IsDelta
    <2>3. x.path = p
      BY <1>2, <2>2, DiffFields
    <2> QED
      BY <2>1, <2>2, <2>3, TargetsAre DEF Proposing
  <1>3. ASSUME NEW p \in DOMAIN pages, ~ pages[p].frozen, \A d \in diffs : d.at # p
        PROVE  p \in Undecided(entries) /\ ~ IsStale(p, entries, Proposed(delta))
    <2>1. \A x \in entries : x.decision \in Proposing => x.path # p
      <3> HIDE DEF entries, diffs
      <3> QED
        BY <1>1, <1>3, DiffFields
    <2>2. p \in Undecided(entries) /\ ~ IsStale(p, decided, Proposed(delta))
      BY <1>3, <2>1, OthersAreUndecided
    <2>3. decided \subseteq entries
      BY DEF Decisions
    <2>4. \A x \in entries : x.decision \in {"prune", "add"} => x \in decided
      <3> SUFFICES ASSUME NEW x \in entries, x.decision \in {"prune", "add"} PROVE x \in decided
        OBVIOUS
      <3>1. x \in decided \/ \E q : x = RefEdit(q, decided, Proposed(delta))
        BY DecisionsAre, PageEntriesAre
      <3> QED
        BY <3>1, RefEditFields
    <2> HIDE DEF entries, decided
    <2>5. Targets(entries, {"prune"}) = Targets(decided, {"prune"}) /\ Targets(entries, {"add"}) = Targets(decided, {"add"})
      <3>1. \A q : (q \in Targets(entries, {"prune"}) <=> q \in Targets(decided, {"prune"}))
                   /\ (q \in Targets(entries, {"add"}) <=> q \in Targets(decided, {"add"}))
        BY <2>3, <2>4, TargetsAre
      <3> QED
        BY <3>1, Zenon
    <2>6. SlugsAfter(entries) = SlugsAfter(decided)
      BY <2>5 DEF SlugsAfter
    <2>7. p \in Targets(decided, {"no_op"}) => p \in Targets(entries, {"no_op"})
      BY <2>3, TargetsAre
    <2> QED
      BY <2>2, <2>6, <2>7 DEF IsStale
  <1> QED
    BY <1>2, <1>3

-----------------------------------------------------------------------------
(* Reviewing and stamping do not change where the proposals lead            *)

LEMMA LeadsNowhere ==
    ASSUME NEW day, LibraryOK(pages, day), entities \in [Entities -> Definitions \cup {Null}],
           NEW L, NEW E, Leads(pages, entities, {}, L, E)
    PROVE  L = pages /\ E = entities
  <1>1. DOMAIN L = DOMAIN pages
    BY DEF Leads, LibraryOK
  <1>2. \A p \in DOMAIN pages : L[p] = pages[p]
    BY DEF Leads, LibraryOK
  <1>3. L = [p \in DOMAIN L |-> L[p]] /\ pages = [p \in DOMAIN pages |-> pages[p]]
    BY Zenon DEF Leads, LibraryOK
  <1>4. L = pages
    BY <1>1, <1>2, <1>3
  <1>5. E \in [Entities -> Definitions \cup {Null}] /\ \A e \in Entities : E[e] = entities[e]
    BY DEF Leads
  <1>6. E = entities
    BY <1>5
  <1> QED
    BY <1>4, <1>6

LEMMA AcceptedPageLeads ==
    ASSUME NEW lib, NEW ents, NEW diffs, OneEach(diffs), NEW d \in diffs, d.at \in Paths,
           NEW L, NEW E, Leads(lib, ents, diffs, L, E)
    PROVE  Leads(IF d.after = Null THEN Without(lib, d.at) ELSE Put(lib, d.at, d.after), ents, diffs \ {d}, L, E)
  <1> DEFINE new == IF d.after = Null THEN Without(lib, d.at) ELSE Put(lib, d.at, d.after)
             rest == diffs \ {d}
  <1>1. \A e \in rest : e.at # d.at
    BY DEF OneEach
  <1>2. \A p : p # d.at => (p \in DOMAIN new <=> p \in DOMAIN lib) /\ (p \in DOMAIN lib => new[p] = lib[p])
    BY DEF Without, Restrict, Put
  <1>3. IF d.after = Null THEN d.at \notin DOMAIN new ELSE d.at \in DOMAIN new /\ new[d.at] = d.after
    BY DEF Without, Restrict, Put
  <1> HIDE DEF new
  <1>4. ASSUME NEW p \in Paths, \A e \in rest : e.at # p
        PROVE  (p \in DOMAIN L <=> p \in DOMAIN new) /\ (p \in DOMAIN new => L[p] = new[p])
    <2>1. CASE p = d.at
      BY <1>3, <2>1 DEF Leads
    <2>2. CASE p # d.at
      <3>1. \A e \in diffs : e.at # p
        BY <1>4, <2>2
      <3> QED
        BY <1>2, <2>2, <3>1 DEF Leads
    <2> QED
      BY <2>1, <2>2
  <1>5. \A e \in Entities : (\A x \in rest : x.at # e) => E[e] = ents[e]
    BY PathsAssumption DEF Leads
  <1>6. Leads(new, ents, rest, L, E)
    BY <1>4, <1>5 DEF Leads
  <1> QED
    BY <1>6 DEF new

LEMMA AcceptedEntityLeads ==
    ASSUME NEW lib, NEW ents \in [Entities -> Definitions \cup {Null}], NEW diffs, OneEach(diffs),
           NEW d \in diffs, d.at \in Entities, NEW L, NEW E, Leads(lib, ents, diffs, L, E)
    PROVE  Leads(lib, [ents EXCEPT ![d.at] = d.after.definition], diffs \ {d}, L, E)
  <1> DEFINE new == [ents EXCEPT ![d.at] = d.after.definition]
             rest == diffs \ {d}
  <1>1. new[d.at] = d.after.definition /\ \A e \in Entities : e # d.at => new[e] = ents[e]
    OBVIOUS
  <1>2. E[d.at] = d.after.definition
    BY DEF Leads
  <1> HIDE DEF new
  <1>3. ASSUME NEW e \in Entities, \A x \in rest : x.at # e PROVE E[e] = new[e]
    BY <1>1, <1>2, <1>3 DEF Leads
  <1>4. ASSUME NEW p \in Paths, \A x \in rest : x.at # p PROVE \A x \in diffs : x.at # p
    BY <1>4, PathsAssumption
  <1>5. Leads(lib, new, rest, L, E)
    BY <1>3, <1>4 DEF Leads
  <1> QED
    BY <1>5 DEF new

\* Stamping in place.
StampedLibrary(lib, V, day) == [p \in DOMAIN lib |-> IF p \in V THEN [lib[p] EXCEPT !.stamp = day] ELSE lib[p]]

LEMMA StampedFields ==
    ASSUME NEW page, WellFormed(page), NEW day \in Nat
    PROVE  LET new == [page EXCEPT !.stamp = day]
           IN  /\ WellFormed(new) /\ new.stamp = day /\ new.sl = page.sl /\ new.refs = page.refs
               /\ new.frozen = page.frozen /\ new.source = page.source
  <1> DEFINE new == [page EXCEPT !.stamp = day]
  <1>1. page \in PageRecords
    BY DEF WellFormed
  <1>2. new \in PageRecords
    BY <1>1 DEF PageRecords
  <1>3. new.stamp = day /\ new.sl = page.sl /\ new.refs = page.refs /\ new.frozen = page.frozen
        /\ new.source = page.source /\ new.bound = page.bound
    BY <1>1 DEF PageRecords
  <1> QED
    BY <1>2, <1>3 DEF WellFormed

LEMMA StampingSettles ==
    ASSUME NEW lib, NEW day \in Nat, LibraryOK(lib, day), NEW ents, NEW diffs, NEW docs, NEW prunes,
           Settles(lib, ents, diffs, docs, prunes),
           NEW V, V \subseteq DOMAIN lib, \A p \in V : \A d \in diffs : d.at # p
    PROVE  Settles(StampedLibrary(lib, V, day), ents, diffs, docs, prunes)
  <1> DEFINE new == StampedLibrary(lib, V, day)
  <1>1. PICK L, E : /\ Leads(lib, ents, diffs, L, E) /\ SoundLibrary(L, E)
                    /\ ~ prunes => QuietLibrary(L, E, docs)
    BY Zenon DEF Settles
  <1> DEFINE M == StampedLibrary(L, V, day)
  <1>2. DOMAIN new = DOMAIN lib /\ DOMAIN M = DOMAIN L
    BY DEF StampedLibrary
  <1>3. /\ \A p \in DOMAIN lib : new[p] = IF p \in V THEN [lib[p] EXCEPT !.stamp = day] ELSE lib[p]
        /\ \A p \in DOMAIN L : M[p] = IF p \in V THEN [L[p] EXCEPT !.stamp = day] ELSE L[p]
    BY DEF StampedLibrary
  <1>4. M = [p \in DOMAIN M |-> M[p]]
    BY DEF StampedLibrary
  <1>5. V \subseteq Paths /\ \A p \in V : p \in DOMAIN L /\ L[p] = lib[p] /\ WellFormed(lib[p])
    BY <1>1 DEF Leads, LibraryOK
  <1> HIDE DEF new, M
  <1>6. Leads(new, ents, diffs, M, E)
    <2>1. ASSUME NEW p \in Paths, \A d \in diffs : d.at # p
          PROVE  (p \in DOMAIN M <=> p \in DOMAIN new) /\ (p \in DOMAIN new => M[p] = new[p])
      <3>1. (p \in DOMAIN L <=> p \in DOMAIN lib) /\ (p \in DOMAIN lib => L[p] = lib[p])
        BY <1>1, <2>1 DEF Leads
      <3> QED
        BY <1>2, <1>3, <3>1
    <2>2. ASSUME NEW d \in diffs, d.at \in Paths
          PROVE  IF d.after = Null THEN d.at \notin DOMAIN M ELSE d.at \in DOMAIN M /\ M[d.at] = d.after
      <3>1. IF d.after = Null THEN d.at \notin DOMAIN L ELSE d.at \in DOMAIN L /\ L[d.at] = d.after
        BY <1>1, <2>2 DEF Leads
      <3>2. d.at \notin V
        OBVIOUS
      <3> QED
        BY <1>2, <1>3, <3>1, <3>2
    <2>3. /\ E \in [Entities -> Definitions \cup {Null}] /\ DOMAIN M \subseteq Paths
          /\ \A e \in Entities : (\A d \in diffs : d.at # e) => E[e] = ents[e]
          /\ \A d \in diffs : d.at \in Entities => E[d.at] = d.after.definition
      BY <1>1, <1>2 DEF Leads
    <2> QED
      BY <1>4, <2>1, <2>2, <2>3 DEF Leads
  <1>7. \A p \in DOMAIN L : /\ M[p].sl = L[p].sl /\ M[p].refs = L[p].refs
                            /\ M[p].frozen = L[p].frozen /\ M[p].source = L[p].source
    <2> TAKE p \in DOMAIN L
    <2>1. CASE p \in V
      <3>1. M[p] = [lib[p] EXCEPT !.stamp = day] /\ L[p] = lib[p] /\ WellFormed(lib[p])
        BY <1>3, <1>5, <2>1
      <3> QED
        BY <3>1, StampedFields
    <2>2. CASE p \notin V
      BY <1>3, <2>2
    <2> QED
      BY <2>1, <2>2
  <1>8. SoundLibrary(M, E)
    BY <1>1, <1>2, <1>7 DEF SoundLibrary, StaleEntities, StaleRefs
  <1>9. ~ prunes => QuietLibrary(M, E, docs)
    BY <1>1, <1>2, <1>7 DEF QuietLibrary
  <1>10. Settles(new, ents, diffs, docs, prunes)
    BY <1>6, <1>8, <1>9, Zenon DEF Settles
  <1> QED
    BY <1>10 DEF new

-----------------------------------------------------------------------------
(* The inductive invariant                                                  *)

\* A run that nothing disturbed: what it proposes settles the pages as they are,
\* and the pages it leaves alone are those it has checked.
RunOK ==
    (job.pc = "emitted" /\ job.clean) =>
        /\ IsEvidence(job.docs) /\ OneEach(job.diffs)
        /\ Settles(pages, entities, job.diffs, job.docs, job.prunes)
        /\ \A p \in Undecided(job.entries) : \A d \in job.diffs : d.at # p
        /\ \A p \in DOMAIN pages :
              \/ pages[p].frozen \/ \E d \in job.diffs : d.at = p
              \/ p \in Undecided(job.entries) /\ ~ IsStale(p, job.entries, Proposed(job.delta))

\* A page is frozen, the last run proposed something for it, or it was stamped no
\* more than a day before that run ended.
RecentlyStamped ==
    \A p \in DOMAIN pages :
        \/ pages[p].frozen
        \/ \E d \in last.diffs : d.at = p
        \/ pages[p].stamp # Null /\ last.at - pages[p].stamp <= RestampAfter

\* The last run: what is left to review of it settles the pages.
LastOK ==
    last # Null =>
        /\ last.at \in Nat /\ last.at <= now
        /\ IsEvidence(last.docs) /\ OneEach(last.diffs)
        /\ Settles(pages, entities, last.diffs \cap pending, last.docs, last.prunes)
        /\ RecentlyStamped

\* The vectors held are those of the model, in memory and on disk.
HoldsCurrent(s) ==
    /\ s.model \in Models /\ DOMAIN s.held \subseteq Paths
    /\ \A p \in DOMAIN s.held : s.held[p].vector = Embedding(s.model, s.held[p].text)
VectorsOK ==
    /\ search = [proc \in Procs |-> search[proc]]
    /\ \A proc \in Procs : HoldsCurrent(search[proc])
    /\ cache # Torn => /\ cache.model \in Models
                       /\ \A k \in DOMAIN cache.entries :
                            cache.entries[k].vector = Embedding(cache.model, cache.entries[k].text)

\* No signature is ahead of the files, and a page that has not been written since
\* is kept as it is.
MemoOK ==
    /\ look # Null => \A p \in DOMAIN look : p \in Paths /\ look[p] \in Nat /\ look[p] <= ver[p]
    /\ DOMAIN memo.pages = DOMAIN memo.sig
    /\ \A p \in DOMAIN memo.sig :
          /\ p \in Paths /\ memo.sig[p] \in Nat /\ memo.sig[p] <= ver[p]
          /\ (p \in DOMAIN pages /\ memo.sig[p] = ver[p]) => memo.pages[p] = pages[p]

KnowledgeInv == UpkeepOK /\ RunOK /\ LastOK /\ VectorsOK /\ MemoOK

-----------------------------------------------------------------------------
(* Steps                                                                    *)

LEMMA RewriteKeepsMemo ==
    ASSUME UpkeepOK, MemoOK, NEW lib, LibraryOK(lib, now'), Rewrite(lib), UNCHANGED <<memo, look>>
    PROVE  MemoOK' /\ pages' = lib /\ ver' \in [Paths -> Nat]
  <1>1. ver \in [Paths -> Nat]
    BY DEF UpkeepOK, PagesOK
  <1>2. pages' = lib /\ ver' \in [Paths -> Nat]
    BY <1>1 DEF Rewrite
  <1>3. \A p \in Paths : ver'[p] = IF p \in DOMAIN lib /\ (p \notin DOMAIN pages \/ lib[p] # pages[p]) THEN ver[p] + 1 ELSE ver[p]
    BY DEF Rewrite
  <1>4. \A p \in Paths : ver[p] \in Nat /\ ver[p] <= ver'[p]
    BY <1>1, <1>3
  <1>5. look' # Null => \A p \in DOMAIN look' : p \in Paths /\ look'[p] \in Nat /\ look'[p] <= ver'[p]
    BY <1>2, <1>4 DEF MemoOK
  <1>6. ASSUME NEW p \in DOMAIN memo.sig
        PROVE  /\ p \in Paths /\ memo.sig[p] \in Nat /\ memo.sig[p] <= ver'[p]
               /\ (p \in DOMAIN lib /\ memo.sig[p] = ver'[p]) => memo.pages[p] = lib[p]
    <2>1. p \in Paths /\ memo.sig[p] \in Nat /\ memo.sig[p] <= ver[p]
      BY DEF MemoOK
    <2>2. memo.sig[p] <= ver'[p]
      BY <1>2, <1>4, <2>1
    <2>3. ASSUME p \in DOMAIN lib, memo.sig[p] = ver'[p] PROVE memo.pages[p] = lib[p]
      <3>1. ver'[p] # ver[p] + 1
        BY <1>4, <2>1, <2>3
      <3>2. p \in DOMAIN pages /\ lib[p] = pages[p] /\ memo.sig[p] = ver[p]
        BY <1>3, <2>1, <2>3, <3>1
      <3> QED
        BY <3>2 DEF MemoOK
    <2> QED
      BY <2>1, <2>2, <2>3
  <1> QED
    BY <1>2, <1>5, <1>6 DEF MemoOK

LEMMA ServingUnchanged ==
    ASSUME VectorsOK, UNCHANGED <<cache, search>>
    PROVE  VectorsOK'
  BY DEF VectorsOK

LEMMA MemoUnchanged ==
    ASSUME MemoOK, UNCHANGED <<pages, ver, memo, look>>
    PROVE  MemoOK'
  BY DEF MemoOK

LEMMA UpkeepUnchanged ==
    ASSUME UpkeepOK, RunOK, LastOK, UNCHANGED <<pages, ver, entities, pending, job, last, now>>
    PROVE  UpkeepOK' /\ RunOK' /\ LastOK'
  <1>1. UpkeepOK'
    BY DEF UpkeepOK, PagesOK, ProposalsOK
  <1>2. RunOK'
    BY DEF RunOK, Undecided, IsStale, SlugsAfter, Proposed
  <1>3. LastOK'
    BY DEF LastOK, RecentlyStamped
  <1> QED
    BY <1>1, <1>2, <1>3

\* What people do ends what is known of the runs.
LEMMA DisturbForgets ==
    ASSUME UpkeepOK, Disturb, UNCHANGED pending
    PROVE  RunOK' /\ LastOK' /\ ProposalsOK'
  <1>1. job = [pc |-> job.pc, docs |-> job.docs, prunes |-> job.prunes, entries |-> job.entries,
               delta |-> job.delta, diffs |-> job.diffs, clean |-> job.clean]
    BY Zenon DEF UpkeepOK, ProposalsOK
  <1>2. job' = [pc |-> job.pc, docs |-> job.docs, prunes |-> job.prunes, entries |-> job.entries,
               delta |-> job.delta, diffs |-> job.diffs, clean |-> FALSE]
    BY <1>1 DEF Disturb
  <1>3. ~ job'.clean /\ job'.diffs = job.diffs /\ job'.docs = job.docs /\ job'.pc = job.pc
    BY <1>2
  <1>4. job' = [pc |-> job'.pc, docs |-> job'.docs, prunes |-> job'.prunes, entries |-> job'.entries,
               delta |-> job'.delta, diffs |-> job'.diffs, clean |-> job'.clean]
    BY <1>2
  <1>5. ProposalsOK'
    BY <1>3, <1>4 DEF UpkeepOK, ProposalsOK
  <1> QED
    BY <1>3, <1>5 DEF RunOK, LastOK, Disturb

LEMMA HandEditKeeps ==
    ASSUME KnowledgeInv, NEW lib, LibraryOK(lib, now), Rewrite(lib), Disturb,
           UNCHANGED <<entities, pending, now, cache, search, memo, look>>
    PROVE  KnowledgeInv'
  <1>1. UpkeepOK /\ VectorsOK /\ MemoOK
    BY DEF KnowledgeInv
  <1>2. MemoOK' /\ pages' = lib /\ ver' \in [Paths -> Nat]
    BY <1>1, RewriteKeepsMemo
  <1>3. RunOK' /\ LastOK' /\ ProposalsOK'
    BY <1>1, DisturbForgets
  <1>4. VectorsOK'
    BY <1>1, ServingUnchanged
  <1>5. PagesOK'
    BY <1>1, <1>2 DEF UpkeepOK, PagesOK
  <1> QED
    BY <1>2, <1>3, <1>4, <1>5 DEF KnowledgeInv, UpkeepOK

LEMMA WritePageKeeps == KnowledgeInv /\ WritePage => KnowledgeInv'
  <1> SUFFICES ASSUME KnowledgeInv, WritePage PROVE KnowledgeInv'
    OBVIOUS
  <1>1. PICK p \in Paths, c \in Contents : Rewrite(Put(pages, p, Page(c, IF p \in DOMAIN pages THEN pages[p] ELSE NoMeta)))
    BY Zenon DEF WritePage
  <1> DEFINE m == IF p \in DOMAIN pages THEN pages[p] ELSE NoMeta
  <1>2. LibraryOK(pages, now) /\ now \in Nat
    BY DEF KnowledgeInv, UpkeepOK, PagesOK
  <1>3. <<>> \in Bindings
    <2>1. <<>> \in [{} -> Definitions]
      OBVIOUS
    <2>2. [{} -> Definitions] \in {[T -> Definitions] : T \in SUBSET Entities}
      OBVIOUS
    <2> QED
      BY <2>1, <2>2, Zenon DEF Bindings
  <1>4. /\ m.bound \in Bindings /\ m.stamp \in Nat \cup {Null} /\ m.source \in {Null} \cup (Nat \X Bindings)
        /\ m.source # Null => m.source[2] = m.bound
        /\ m.stamp # Null => m.stamp <= now
    <2>1. CASE p \in DOMAIN pages
      <3>1. m = pages[p] /\ WellFormed(pages[p]) /\ (pages[p].stamp # Null => pages[p].stamp <= now)
        BY <1>2, <2>1 DEF LibraryOK
      <3> HIDE DEF m
      <3> QED
        BY <3>1 DEF WellFormed, PageRecords
    <2>2. CASE p \notin DOMAIN pages
      <3>1. m = NoMeta
        BY <2>2
      <3> HIDE DEF m
      <3> QED
        BY <1>3, <3>1 DEF NoMeta
    <2> QED
      BY <2>1, <2>2
  <1>5. c.text \in Nat /\ c.tags \in SUBSET STRING /\ c.sl \in SUBSET Entities /\ c.refs \in SUBSET Nat /\ c.frozen \in BOOLEAN
    BY EvidenceAssumption DEF Prose
  <1> HIDE DEF m
  <1>6. WellFormed(Page(c, m)) /\ (Page(c, m).stamp # Null => Page(c, m).stamp <= now)
    BY <1>4, <1>5, PageIsWellFormed, PageFields
  <1>7. LibraryOK(Put(pages, p, Page(c, m)), now)
    BY <1>2, <1>6, PutKeepsLibrary
  <1>8. Rewrite(Put(pages, p, Page(c, m)))
    BY <1>1 DEF m
  <1>9. Disturb /\ UNCHANGED <<entities, pending, now, cache, search, memo, look>>
    BY DEF WritePage, serving
  <1> QED
    BY <1>7, <1>8, <1>9, HandEditKeeps

LEMMA DeletePageKeeps == KnowledgeInv /\ DeletePage => KnowledgeInv'
  <1> SUFFICES ASSUME KnowledgeInv, DeletePage PROVE KnowledgeInv'
    OBVIOUS
  <1>1. PICK p : Rewrite(Without(pages, p))
    BY Zenon DEF DeletePage
  <1>2. LibraryOK(Without(pages, p), now)
    BY WithoutKeepsLibrary DEF KnowledgeInv, UpkeepOK, PagesOK
  <1>3. Disturb /\ UNCHANGED <<entities, pending, now, cache, search, memo, look>>
    BY DEF DeletePage, serving
  <1> QED
    BY <1>1, <1>2, <1>3, HandEditKeeps

LEMMA KnowledgeAddKeeps == KnowledgeInv /\ KnowledgeAdd => KnowledgeInv'
  <1> SUFFICES ASSUME KnowledgeInv, KnowledgeAdd PROVE KnowledgeInv'
    OBVIOUS
  <1>1. PICK d \in Docs, p \in Paths :
          LET sl == Resolved(d.topics, entities)
          IN  Rewrite(Put(pages, p, Page([text |-> d.text, tags |-> {}, sl |-> sl, refs |-> {}, frozen |-> FALSE],
                                         [bound |-> Bound(sl, entities), stamp |-> now, source |-> Null])))
    BY Zenon DEF KnowledgeAdd
  <1> DEFINE sl == Resolved(d.topics, entities)
             c == [text |-> d.text, tags |-> {}, sl |-> sl, refs |-> {}, frozen |-> FALSE]
             m == [bound |-> Bound(sl, entities), stamp |-> now, source |-> Null]
  <1>2. LibraryOK(pages, now) /\ now \in Nat /\ entities \in [Entities -> Definitions \cup {Null}]
    BY DEF KnowledgeInv, UpkeepOK, PagesOK
  <1>3. d.text \in Nat /\ d.topics \in SUBSET Entities
    BY EvidenceAssumption
  <1>4. sl \in SUBSET Entities /\ Bound(sl, entities) \in Bindings
    BY <1>2, <1>3, BoundIsBinding
  <1> HIDE DEF sl
  <1>5. c.text \in Nat /\ c.tags \in SUBSET STRING /\ c.sl \in SUBSET Entities /\ c.refs \in SUBSET Nat /\ c.frozen \in BOOLEAN
    BY <1>3, <1>4
  <1>6. m.bound \in Bindings /\ m.stamp = now /\ m.source = Null
    BY <1>4
  <1>7. Rewrite(Put(pages, p, Page(c, m)))
    BY <1>1 DEF sl
  <1> HIDE DEF c, m
  <1>8. WellFormed(Page(c, m)) /\ (Page(c, m).stamp # Null => Page(c, m).stamp <= now)
    BY <1>2, <1>5, <1>6, PageIsWellFormed, PageFields
  <1>9. LibraryOK(Put(pages, p, Page(c, m)), now)
    BY <1>2, <1>8, PutKeepsLibrary
  <1>10. Disturb /\ UNCHANGED <<entities, pending, now, cache, search, memo, look>>
    BY DEF KnowledgeAdd, serving
  <1> QED
    BY <1>7, <1>9, <1>10, HandEditKeeps

LEMMA EditEntityKeeps == KnowledgeInv /\ EditEntity => KnowledgeInv'
  <1> SUFFICES ASSUME KnowledgeInv, EditEntity PROVE KnowledgeInv'
    OBVIOUS
  <1>1. UpkeepOK /\ VectorsOK /\ MemoOK
    BY DEF KnowledgeInv
  <1>2. Disturb /\ UNCHANGED <<pages, ver, pending, now, cache, search, memo, look>>
    BY DEF EditEntity, serving
  <1>3. PICK e \in Entities, d \in Definitions \cup {Null} : entities' = [entities EXCEPT ![e] = d]
    BY Zenon DEF EditEntity
  <1>4. RunOK' /\ LastOK' /\ ProposalsOK'
    BY <1>1, <1>2, DisturbForgets
  <1>5. PagesOK'
    BY <1>1, <1>2, <1>3 DEF UpkeepOK, PagesOK
  <1>6. VectorsOK' /\ MemoOK'
    BY <1>1, <1>2, ServingUnchanged, MemoUnchanged
  <1> QED
    BY <1>4, <1>5, <1>6 DEF KnowledgeInv, UpkeepOK

LEMMA TickKeeps == KnowledgeInv /\ Tick => KnowledgeInv'
  <1> SUFFICES ASSUME KnowledgeInv, Tick PROVE KnowledgeInv'
    OBVIOUS
  <1>1. UpkeepOK /\ RunOK /\ LastOK /\ VectorsOK /\ MemoOK
    BY DEF KnowledgeInv
  <1>2. now' = now + 1 /\ UNCHANGED <<pages, ver, entities, pending, job, last, cache, search, memo, look>>
    BY DEF Tick, serving
  <1>3. now \in Nat /\ LibraryOK(pages, now)
    BY <1>1 DEF UpkeepOK, PagesOK
  <1>4. LibraryOK(pages, now + 1)
    BY <1>3, NullAssumption DEF LibraryOK, WellFormed, PageRecords
  <1>5. UpkeepOK'
    BY <1>1, <1>2, <1>3, <1>4 DEF UpkeepOK, PagesOK, ProposalsOK
  <1>6. RunOK'
    BY <1>1, <1>2 DEF RunOK, Undecided, IsStale, SlugsAfter, Proposed
  <1>7. LastOK'
    BY <1>1, <1>2, <1>3 DEF LastOK, RecentlyStamped
  <1>8. VectorsOK' /\ MemoOK'
    BY <1>1, <1>2, ServingUnchanged, MemoUnchanged
  <1> QED
    BY <1>5, <1>6, <1>7, <1>8 DEF KnowledgeInv

LEMMA EmitKeeps == KnowledgeInv /\ Emit => KnowledgeInv'
  <1> SUFFICES ASSUME KnowledgeInv, Emit PROVE KnowledgeInv'
    OBVIOUS
  <1>1. UpkeepOK /\ VectorsOK /\ MemoOK /\ PagesOK
    BY DEF KnowledgeInv, UpkeepOK
  <1>2. last' = Null /\ UNCHANGED <<pages, ver, entities, pending, now, cache, search, memo, look>>
    BY DEF Emit, serving
  <1>3. PICK docs \in SUBSET Docs, delta \in Deltas :
          /\ \A d, e \in docs : d.slug = e.slug => d = e
          /\ job' = [pc |-> "emitted", docs |-> docs, prunes |-> \E e \in DOMAIN delta : delta[e] = Null,
                     entries |-> Decisions(docs, delta), delta |-> delta,
                     diffs |-> Diffs(Decisions(docs, delta), delta), clean |-> TRUE]
    BY Zenon DEF Emit, Decisions
  <1>4. IsEvidence(docs) /\ IsDelta(delta)
    BY <1>3, DeltasAre DEF IsEvidence
  <1> DEFINE entries == Decisions(docs, delta)
             diffs == Diffs(entries, delta)
             prunes == \E e \in DOMAIN delta : delta[e] = Null
             after == Proposed(delta)
  <1>5. (\A d \in diffs : ProposalOK(d)) /\ OneEach(diffs)
    BY <1>1, <1>4, RunProposes
  <1>6. Settles(pages, entities, diffs, docs, prunes)
    <2>1. Leads(pages, entities, diffs, LibraryAfter(docs, delta), after)
      BY <1>1, <1>4, RunLeads
    <2>2. SoundLibrary(LibraryAfter(docs, delta), after)
      BY <1>1, <1>4, RunIsSound
    <2>3. ~ prunes => QuietLibrary(LibraryAfter(docs, delta), after, docs)
      BY <1>1, <1>4, RunIsQuiet
    <2> HIDE DEF entries, diffs, prunes, after
    <2> QED
      BY <2>1, <2>2, <2>3, Zenon DEF Settles
  <1>7. /\ \A p \in Undecided(entries) : \A d \in diffs : d.at # p
        /\ \A p \in DOMAIN pages : \/ pages[p].frozen \/ \E d \in diffs : d.at = p
                                   \/ p \in Undecided(entries) /\ ~ IsStale(p, entries, after)
    BY <1>1, <1>4, RunChecks
  <1> HIDE DEF entries, diffs, prunes, after
  <1>8. job' = [pc |-> "emitted", docs |-> docs, prunes |-> prunes, entries |-> entries, delta |-> delta,
                diffs |-> diffs, clean |-> TRUE]
    BY <1>3 DEF entries, diffs, prunes
  <1>9. job'.docs = docs /\ job'.prunes = prunes /\ job'.entries = entries /\ job'.delta = delta
        /\ job'.diffs = diffs /\ job'.pc = "emitted" /\ job'.clean
    BY <1>8
  <1>10. job' = [pc |-> job'.pc, docs |-> job'.docs, prunes |-> job'.prunes, entries |-> job'.entries,
                 delta |-> job'.delta, diffs |-> job'.diffs, clean |-> job'.clean]
    BY <1>8
  <1>11. ProposalsOK'
    BY <1>1, <1>2, <1>4, <1>5, <1>9, <1>10 DEF UpkeepOK, ProposalsOK, IsEvidence
  <1>12. RunOK'
    <2>1. Proposed(delta)' = after
      BY <1>2 DEF Proposed, after
    <2> QED
      BY <1>2, <1>4, <1>5, <1>6, <1>7, <1>9, <2>1 DEF RunOK, Undecided, IsStale, SlugsAfter, Proposed
  <1>13. PagesOK' /\ LastOK'
    BY <1>1, <1>2 DEF PagesOK, LastOK
  <1>14. VectorsOK' /\ MemoOK'
    BY <1>1, <1>2, ServingUnchanged, MemoUnchanged
  <1> QED
    BY <1>11, <1>12, <1>13, <1>14 DEF KnowledgeInv, UpkeepOK

LEMMA PersistKeeps == KnowledgeInv /\ Persist => KnowledgeInv'
  <1> SUFFICES ASSUME KnowledgeInv, Persist PROVE KnowledgeInv'
    OBVIOUS
  <1>1. UpkeepOK /\ PagesOK /\ ProposalsOK /\ RunOK /\ VectorsOK /\ MemoOK
    BY DEF KnowledgeInv, UpkeepOK
  <1> DEFINE V == Validated(job.entries, Proposed(job.delta))
             new == StampedLibrary(pages, V, now)
  <1>2. Rewrite(new)
    BY Zenon DEF Persist, StampedLibrary, Stamped
  <1>3. /\ job.pc = "emitted" /\ pending' = pending \cup job.diffs /\ job' = Idle
        /\ last' = IF job.clean
                   THEN [docs |-> job.docs, prunes |-> job.prunes, diffs |-> job.diffs, at |-> now] ELSE Null
        /\ UNCHANGED <<entities, now, cache, search, memo, look>>
    BY DEF Persist, serving
  <1>4. now \in Nat /\ LibraryOK(pages, now) /\ entities \in [Entities -> Definitions \cup {Null}]
    BY <1>1 DEF PagesOK
  <1>5. V \subseteq Undecided(job.entries) /\ V \subseteq DOMAIN pages
    BY DEF Validated, Undecided
  <1>6. \A p \in DOMAIN pages : p \in V <=> /\ p \in Undecided(job.entries)
                                           /\ ~ IsStale(p, job.entries, Proposed(job.delta)) /\ NeedsRestamp(pages[p])
    BY DEF Validated
  <1>7. DOMAIN new = DOMAIN pages /\ new = [p \in DOMAIN new |-> new[p]]
        /\ \A p \in DOMAIN pages : new[p] = IF p \in V THEN [pages[p] EXCEPT !.stamp = now] ELSE pages[p]
    BY DEF StampedLibrary
  <1>8. \A p \in DOMAIN pages : WellFormed(pages[p]) /\ (pages[p].stamp # Null => pages[p].stamp <= now)
    BY <1>4 DEF LibraryOK
  <1> HIDE DEF V
  <1>9. \A p \in DOMAIN pages : p \in V => WellFormed(new[p]) /\ new[p].stamp = now /\ new[p].frozen = pages[p].frozen
    <2> HIDE DEF new
    <2> SUFFICES ASSUME NEW p \in DOMAIN pages, p \in V
                 PROVE  WellFormed(new[p]) /\ new[p].stamp = now /\ new[p].frozen = pages[p].frozen
      OBVIOUS
    <2>1. new[p] = [pages[p] EXCEPT !.stamp = now] /\ WellFormed(pages[p])
      BY <1>7, <1>8
    <2> QED
      BY <1>4, <2>1, StampedFields
  <1>10. Settles(pages, entities, job.diffs, job.docs, job.prunes) /\ job.clean
           => Settles(new, entities, job.diffs, job.docs, job.prunes)
    <2> HAVE Settles(pages, entities, job.diffs, job.docs, job.prunes) /\ job.clean
    <2>1. \A p \in V : \A d \in job.diffs : d.at # p
      BY <1>1, <1>3, <1>5 DEF RunOK
    <2> QED
      BY <1>4, <1>5, <2>1, StampingSettles
  <1> HIDE DEF new
  <1>11. LibraryOK(new, now)
    BY <1>4, <1>7, <1>8, <1>9 DEF LibraryOK
  <1>12. MemoOK' /\ pages' = new /\ ver' \in [Paths -> Nat]
    BY <1>1, <1>2, <1>3, <1>11, RewriteKeepsMemo
  <1>13. PagesOK'
    BY <1>3, <1>4, <1>11, <1>12 DEF PagesOK
  <1>14. ProposalsOK' /\ RunOK'
    BY <1>1, <1>3 DEF ProposalsOK, RunOK, Idle
  <1>15. LastOK'
    <2>1. CASE ~ job.clean
      BY <1>3, <2>1 DEF LastOK
    <2>2. CASE job.clean
      <3>1. last'.docs = job.docs /\ last'.prunes = job.prunes /\ last'.diffs = job.diffs /\ last'.at = now
        BY <1>3, <2>2
      <3>2. last'.diffs \cap pending' = job.diffs
        BY <1>3, <3>1
      <3>3. /\ IsEvidence(job.docs) /\ OneEach(job.diffs)
            /\ Settles(pages, entities, job.diffs, job.docs, job.prunes)
            /\ \A p \in DOMAIN pages :
                  \/ pages[p].frozen \/ \E d \in job.diffs : d.at = p
                  \/ p \in Undecided(job.entries) /\ ~ IsStale(p, job.entries, Proposed(job.delta))
        BY <1>1, <1>3, <2>2 DEF RunOK
      <3>4. ASSUME NEW p \in DOMAIN new
            PROVE  \/ new[p].frozen \/ \E d \in job.diffs : d.at = p
                   \/ new[p].stamp # Null /\ now - new[p].stamp <= RestampAfter
        <4>1. CASE p \in V
          <5>1. new[p].stamp = now
            BY <1>7, <1>9, <4>1
          <5> QED
            BY <1>4, <5>1, WindowAssumption, NullAssumption
        <4>2. CASE p \notin V
          <5>1. new[p] = pages[p] /\ p \in DOMAIN pages
            BY <1>7, <4>2
          <5>2. pages[p].stamp # Null => pages[p].stamp \in Nat
            BY <1>8, <5>1 DEF WellFormed, PageRecords
          <5>3. ~ NeedsRestamp(pages[p]) => pages[p].stamp # Null /\ now - pages[p].stamp <= RestampAfter
            BY <1>4, <5>2, WindowAssumption DEF NeedsRestamp
          <5> QED
            BY <1>6, <3>3, <4>2, <5>1, <5>3
        <4> QED
          BY <4>1, <4>2
      <3>5. RecentlyStamped'
        BY <1>3, <1>12, <3>1, <3>4 DEF RecentlyStamped
      <3>6. Settles(pages, entities, last.diffs \cap pending, last.docs, last.prunes)'
        BY <1>3, <1>10, <1>12, <2>2, <3>1, <3>2, <3>3
      <3> QED
        BY <1>3, <1>4, <3>1, <3>3, <3>5, <3>6 DEF LastOK
    <2> QED
      BY <2>1, <2>2
  <1>16. VectorsOK'
    BY <1>1, <1>3, ServingUnchanged
  <1> QED
    BY <1>12, <1>13, <1>14, <1>15, <1>16 DEF KnowledgeInv, UpkeepOK

LEMMA RejectKeeps == KnowledgeInv /\ Reject => KnowledgeInv'
  <1> SUFFICES ASSUME KnowledgeInv, Reject PROVE KnowledgeInv'
    OBVIOUS
  <1>1. UpkeepOK /\ RunOK /\ LastOK /\ VectorsOK /\ MemoOK
    BY DEF KnowledgeInv
  <1>2. UNCHANGED <<pages, ver, entities, job, now, cache, search, memo, look>>
    BY DEF Reject, serving
  <1>3. PICK d \in pending : /\ pending' = pending \ {d}
                             /\ last' = IF last # Null /\ d \notin last.diffs THEN last ELSE Null
    BY Zenon DEF Reject
  <1>4. UpkeepOK'
    BY <1>1, <1>2, <1>3 DEF UpkeepOK, PagesOK, ProposalsOK
  <1>5. RunOK'
    BY <1>1, <1>2 DEF RunOK, Undecided, IsStale, SlugsAfter, Proposed
  <1>6. LastOK'
    <2>1. CASE last' = Null
      BY <2>1 DEF LastOK
    <2>2. CASE last' # Null
      <3>1. last' = last /\ d \notin last.diffs /\ last # Null
        BY <1>3, <2>2
      <3>2. last'.diffs \cap pending' = last.diffs \cap pending
        BY <1>3, <3>1
      <3> QED
        BY <1>1, <1>2, <3>1, <3>2 DEF LastOK, RecentlyStamped
    <2> QED
      BY <2>1, <2>2
  <1>7. VectorsOK' /\ MemoOK'
    BY <1>1, <1>2, ServingUnchanged, MemoUnchanged
  <1> QED
    BY <1>4, <1>5, <1>6, <1>7 DEF KnowledgeInv

LEMMA AcceptKeeps == KnowledgeInv /\ Accept => KnowledgeInv'
  <1> SUFFICES ASSUME KnowledgeInv, Accept PROVE KnowledgeInv'
    OBVIOUS
  <1>1. UpkeepOK /\ PagesOK /\ ProposalsOK /\ LastOK /\ VectorsOK /\ MemoOK
    BY DEF KnowledgeInv, UpkeepOK
  <1>2. UNCHANGED <<now, cache, search, memo, look>> /\ job' = [job EXCEPT !.clean = FALSE]
    BY DEF Accept, serving
  <1> DEFINE Reviewed(d) == IF d.after = Null THEN Without(pages, d.at) ELSE Put(pages, d.at, d.after)
  <1>3. PICK d \in pending :
          /\ pending' = pending \ {d}
          /\ IF d.at \in Entities
             THEN entities' = [entities EXCEPT ![d.at] = d.after.definition] /\ UNCHANGED <<pages, ver>>
             ELSE Rewrite(Reviewed(d)) /\ UNCHANGED entities
          /\ last' = IF last # Null /\ d \in last.diffs THEN last ELSE Null
    BY Zenon DEF Accept
  <1> HIDE DEF Reviewed
  <1>4. ProposalOK(d)
    BY <1>1 DEF ProposalsOK
  <1>5. job' = [pc |-> job.pc, docs |-> job.docs, prunes |-> job.prunes, entries |-> job.entries,
               delta |-> job.delta, diffs |-> job.diffs, clean |-> FALSE]
    <2>1. job = [pc |-> job.pc, docs |-> job.docs, prunes |-> job.prunes, entries |-> job.entries,
                 delta |-> job.delta, diffs |-> job.diffs, clean |-> job.clean]
      BY <1>1, Zenon DEF ProposalsOK
    <2> QED
      BY <1>2, <2>1
  <1>6. ~ job'.clean /\ job'.diffs = job.diffs /\ job'.docs = job.docs /\ job'.pc = job.pc
    BY <1>5
  <1>7. job' = [pc |-> job'.pc, docs |-> job'.docs, prunes |-> job'.prunes, entries |-> job'.entries,
               delta |-> job'.delta, diffs |-> job'.diffs, clean |-> job'.clean]
    BY <1>5
  <1>8. ProposalsOK' /\ RunOK'
    BY <1>1, <1>3, <1>6, <1>7 DEF ProposalsOK, RunOK
  <1>9. VectorsOK'
    BY <1>1, <1>2, ServingUnchanged
  <1>10. CASE d.at \in Entities
    <2>1. entities' = [entities EXCEPT ![d.at] = d.after.definition] /\ UNCHANGED <<pages, ver>>
      BY <1>3, <1>10
    <2>2. d.after.definition \in Definitions \cup {Null}
      BY <1>4, <1>10, PathsAssumption DEF ProposalOK
    <2>3. PagesOK' /\ MemoOK'
      BY <1>1, <1>2, <2>1, <2>2, MemoUnchanged DEF PagesOK
    <2>4. LastOK'
      <3>1. CASE last' = Null
        BY <3>1 DEF LastOK
      <3>2. CASE last' # Null
        <4>1. last' = last /\ d \in last.diffs /\ last # Null
          BY <1>3, <3>2
        <4> DEFINE rest == last.diffs \cap pending
        <4>2. last'.diffs \cap pending' = rest \ {d} /\ d \in rest
          BY <1>3, <4>1
        <4>3. PICK L, E : /\ Leads(pages, entities, rest, L, E) /\ SoundLibrary(L, E)
                          /\ ~ last.prunes => QuietLibrary(L, E, last.docs)
          BY <1>1, <4>1 DEF LastOK, Settles
        <4>4. OneEach(rest) /\ entities \in [Entities -> Definitions \cup {Null}]
          BY <1>1, <4>1 DEF LastOK, OneEach, PagesOK
        <4> HIDE DEF rest
        <4>5. Leads(pages', entities', rest \ {d}, L, E)
          BY <1>10, <2>1, <4>2, <4>3, <4>4, AcceptedEntityLeads
        <4>6. Settles(pages', entities', last'.diffs \cap pending', last'.docs, last'.prunes)
          BY <4>1, <4>2, <4>3, <4>5 DEF Settles
        <4> QED
          BY <1>1, <1>2, <2>1, <4>1, <4>6 DEF LastOK, RecentlyStamped
      <3> QED
        BY <3>1, <3>2
    <2> QED
      BY <1>8, <1>9, <2>3, <2>4 DEF KnowledgeInv, UpkeepOK
  <1>11. CASE d.at \notin Entities
    <2>1. Rewrite(Reviewed(d)) /\ UNCHANGED entities
      BY <1>3, <1>11
    <2>2. d.at \in Paths /\ (d.after = Null \/ ProposedPage(d.after))
      BY <1>4, <1>11 DEF ProposalOK
    <2>3. LibraryOK(Reviewed(d), now)
      <3>1. LibraryOK(pages, now)
        BY <1>1 DEF PagesOK
      <3>2. CASE d.after = Null
        BY <3>1, <3>2, WithoutKeepsLibrary DEF Reviewed
      <3>3. CASE d.after # Null
        <4>1. WellFormed(d.after) /\ d.after.stamp = Null
          BY <2>2, <3>3 DEF ProposedPage
        <4> QED
          BY <2>2, <3>1, <3>3, <4>1, PutKeepsLibrary DEF Reviewed
      <3> QED
        BY <3>2, <3>3
    <2>4. MemoOK' /\ pages' = Reviewed(d) /\ ver' \in [Paths -> Nat]
      BY <1>1, <1>2, <2>1, <2>3, RewriteKeepsMemo
    <2>5. PagesOK'
      BY <1>1, <1>2, <2>1, <2>3, <2>4 DEF PagesOK
    <2>6. LastOK'
      <3>1. CASE last' = Null
        BY <3>1 DEF LastOK
      <3>2. CASE last' # Null
        <4>1. last' = last /\ d \in last.diffs /\ last # Null
          BY <1>3, <3>2
        <4> DEFINE rest == last.diffs \cap pending
        <4>2. last'.diffs \cap pending' = rest \ {d} /\ d \in rest
          BY <1>3, <4>1
        <4>3. PICK L, E : /\ Leads(pages, entities, rest, L, E) /\ SoundLibrary(L, E)
                          /\ ~ last.prunes => QuietLibrary(L, E, last.docs)
          BY <1>1, <4>1 DEF LastOK, Settles
        <4>4. OneEach(rest)
          BY <1>1, <4>1 DEF LastOK, OneEach
        <4> HIDE DEF rest
        <4>5. Leads(Reviewed(d), entities, rest \ {d}, L, E)
          BY <2>2, <4>2, <4>3, <4>4, AcceptedPageLeads DEF Reviewed
        <4>6. Settles(pages', entities', last'.diffs \cap pending', last'.docs, last'.prunes)
          BY <2>1, <2>4, <4>1, <4>2, <4>3, <4>5 DEF Settles
        <4>7. \A p \in DOMAIN pages' : p # d.at => p \in DOMAIN pages /\ pages'[p] = pages[p]
          BY <2>4 DEF Reviewed, Without, Restrict, Put
        <4>8. RecentlyStamped'
          BY <1>1, <1>2, <4>1, <4>7 DEF LastOK, RecentlyStamped
        <4> QED
          BY <1>1, <1>2, <4>1, <4>6, <4>8 DEF LastOK
      <3> QED
        BY <3>1, <3>2
    <2> QED
      BY <1>8, <1>9, <2>4, <2>5, <2>6 DEF KnowledgeInv, UpkeepOK
  <1> QED
    BY <1>10, <1>11

LEMMA SearchEmbedKeeps ==
    ASSUME KnowledgeInv, NEW proc \in Procs, SearchEmbed(proc)
    PROVE  KnowledgeInv'
  <1>1. UpkeepOK /\ RunOK /\ LastOK /\ VectorsOK /\ MemoOK
    BY DEF KnowledgeInv
  <1>2. UNCHANGED <<pages, ver, entities, pending, job, last, now, cache, memo, look>>
    BY DEF SearchEmbed, upkeep
  <1>3. PICK allow \in Allows :
          LET lib == TagVisible(pages, allow)
              model == search[proc].model
              known(p) == /\ Reusable(model) /\ DocKey(p) \in DOMAIN cache.entries
                          /\ cache.entries[DocKey(p)].text = lib[p].text
          IN  search' = [search EXCEPT ![proc] =
                    [pc |-> "embedded", model |-> model,
                     held |-> [p \in DOMAIN lib |->
                                [text |-> lib[p].text,
                                 vector |-> IF known(p) THEN cache.entries[DocKey(p)].vector
                                            ELSE Embedding(model, lib[p].text)]]]]
    BY Zenon DEF SearchEmbed
  <1> DEFINE lib == TagVisible(pages, allow)
             model == search[proc].model
             known(p) == /\ Reusable(model) /\ DocKey(p) \in DOMAIN cache.entries
                         /\ cache.entries[DocKey(p)].text = lib[p].text
             vec(p) == IF known(p) THEN cache.entries[DocKey(p)].vector ELSE Embedding(model, lib[p].text)
             held == [p \in DOMAIN lib |-> [text |-> lib[p].text, vector |-> vec(p)]]
             s == [pc |-> "embedded", model |-> model, held |-> held]
  <1>4. search' = [search EXCEPT ![proc] = s]
    BY <1>3
  <1>5. DOMAIN lib \subseteq Paths
    BY <1>1 DEF UpkeepOK, PagesOK, LibraryOK, TagVisible, Restrict
  <1>6. \A p : vec(p) = Embedding(model, lib[p].text)
    <2> SUFFICES ASSUME NEW p, known(p) PROVE cache.entries[DocKey(p)].vector = Embedding(model, lib[p].text)
      OBVIOUS
    <2>1. cache # Torn /\ cache.model = model /\ DocKey(p) \in DOMAIN cache.entries
          /\ cache.entries[DocKey(p)].text = lib[p].text
      BY DEF Reusable
    <2> QED
      BY <1>1, <2>1 DEF VectorsOK
  <1>7. model \in Models
    BY <1>1 DEF VectorsOK, HoldsCurrent
  <1> HIDE DEF lib, model, vec
  <1>8. HoldsCurrent(s)
    <2>1. DOMAIN held = DOMAIN lib /\ \A p \in DOMAIN lib : held[p].text = lib[p].text /\ held[p].vector = vec(p)
      OBVIOUS
    <2>2. s.model = model /\ s.held = held
      OBVIOUS
    <2> HIDE DEF held, s
    <2> QED
      BY <1>5, <1>6, <1>7, <2>1, <2>2 DEF HoldsCurrent
  <1> HIDE DEF s
  <1>9. VectorsOK'
    BY <1>1, <1>2, <1>4, <1>8 DEF VectorsOK
  <1> QED
    BY <1>1, <1>2, <1>9, UpkeepUnchanged, MemoUnchanged DEF KnowledgeInv

LEMMA RestingHolds ==
    ASSUME NEW m \in Models
    PROVE  HoldsCurrent(Resting(m))
  BY DEF HoldsCurrent, Resting

LEMMA SearchSaveKeeps ==
    ASSUME KnowledgeInv, NEW proc \in Procs, SearchSave(proc)
    PROVE  KnowledgeInv'
  <1>1. UpkeepOK /\ RunOK /\ LastOK /\ VectorsOK /\ MemoOK
    BY DEF KnowledgeInv
  <1>2. UNCHANGED <<pages, ver, entities, pending, job, last, now, memo, look>>
    BY DEF SearchSave, upkeep
  <1> DEFINE held == search[proc].held
             model == search[proc].model
             keys == {DocKey(p) : p \in DOMAIN held}
             entries == [k \in keys |-> held[ByKey(held, k)]]
  <1>3. cache' \in {Torn, [model |-> model, entries |-> entries]}
    BY DEF SearchSave
  <1>4. search' = [search EXCEPT ![proc] = Resting(model)]
    BY DEF SearchSave
  <1>5. HoldsCurrent(search[proc]) /\ search = [q \in Procs |-> search[q]]
    BY <1>1, Zenon DEF VectorsOK
  <1>6. model \in Models /\ DOMAIN held \subseteq Paths
        /\ \A p \in DOMAIN held : held[p].vector = Embedding(model, held[p].text)
    BY <1>5 DEF HoldsCurrent
  <1>7. ASSUME NEW k \in keys PROVE entries[k].vector = Embedding(model, entries[k].text)
    <2>1. PICK p \in DOMAIN held : k = DocKey(p)
      OBVIOUS
    <2>2. ByKey(held, k) \in DOMAIN held
      BY <1>6, <2>1, ByKeyExists
    <2> QED
      BY <1>6, <2>2
  <1>8. DOMAIN entries = keys
    OBVIOUS
  <1> HIDE DEF held, model, entries, keys
  <1>9. cache' # Torn => /\ cache'.model \in Models
                         /\ \A k \in DOMAIN cache'.entries :
                              cache'.entries[k].vector = Embedding(cache'.model, cache'.entries[k].text)
    <2> HAVE cache' # Torn
    <2>1. cache' = [model |-> model, entries |-> entries]
      BY <1>3
    <2>2. cache'.model = model /\ cache'.entries = entries
      BY <2>1
    <2> QED
      BY <1>6, <1>7, <1>8, <2>2
  <1>10. \A q \in Procs : HoldsCurrent(search'[q])
    BY <1>1, <1>4, <1>6, RestingHolds DEF VectorsOK
  <1>11. search' = [q \in Procs |-> search'[q]]
    BY <1>4, <1>5
  <1>12. VectorsOK'
    BY <1>9, <1>10, <1>11 DEF VectorsOK
  <1> QED
    BY <1>1, <1>2, <1>12, UpkeepUnchanged, MemoUnchanged DEF KnowledgeInv

LEMMA RestartKeeps ==
    ASSUME KnowledgeInv, NEW proc \in Procs, Restart(proc)
    PROVE  KnowledgeInv'
  <1>1. UpkeepOK /\ RunOK /\ LastOK /\ VectorsOK /\ MemoOK
    BY DEF KnowledgeInv
  <1>2. UNCHANGED <<pages, ver, entities, pending, job, last, now, cache, memo, look>>
    BY DEF Restart, upkeep
  <1>3. PICK m \in Models : search' = [search EXCEPT ![proc] = Resting(m)]
    BY Zenon DEF Restart
  <1>4. VectorsOK'
    BY <1>1, <1>2, <1>3, RestingHolds DEF VectorsOK
  <1> QED
    BY <1>1, <1>2, <1>4, UpkeepUnchanged, MemoUnchanged DEF KnowledgeInv

LEMMA LookupStatKeeps == KnowledgeInv /\ LookupStat => KnowledgeInv'
  <1> SUFFICES ASSUME KnowledgeInv, LookupStat PROVE KnowledgeInv'
    OBVIOUS
  <1>1. UpkeepOK /\ RunOK /\ LastOK /\ VectorsOK /\ MemoOK
    BY DEF KnowledgeInv
  <1>2. UNCHANGED <<pages, ver, entities, pending, job, last, now, cache, search, memo>>
    BY DEF LookupStat, upkeep
  <1>3. DOMAIN look' \subseteq Paths /\ \A p \in DOMAIN look' : look'[p] = ver[p] /\ ver[p] \in Nat
    BY <1>1 DEF LookupStat, Signature, UpkeepOK, PagesOK, LibraryOK
  <1>4. MemoOK'
    BY <1>1, <1>2, <1>3 DEF MemoOK
  <1> QED
    BY <1>1, <1>2, <1>4, UpkeepUnchanged, ServingUnchanged DEF KnowledgeInv

LEMMA LookupLoadKeeps == KnowledgeInv /\ LookupLoad => KnowledgeInv'
  <1> SUFFICES ASSUME KnowledgeInv, LookupLoad PROVE KnowledgeInv'
    OBVIOUS
  <1>1. UpkeepOK /\ RunOK /\ LastOK /\ VectorsOK /\ MemoOK
    BY DEF KnowledgeInv
  <1>2. UNCHANGED <<pages, ver, entities, pending, job, last, now, cache, search>>
    BY DEF LookupLoad, upkeep
  <1> DEFINE read == Restrict(pages, DOMAIN look)
  <1>3. /\ look # Null /\ look' = Null
        /\ memo' = IF look # memo.sig /\ DOMAIN look \subseteq DOMAIN pages THEN [sig |-> look, pages |-> read] ELSE memo
    BY DEF LookupLoad
  <1>4. MemoOK'
    <2>1. CASE memo' = memo
      BY <1>1, <1>2, <1>3, <2>1 DEF MemoOK
    <2>2. CASE memo' = [sig |-> look, pages |-> read] /\ DOMAIN look \subseteq DOMAIN pages
      <3>1. DOMAIN read = DOMAIN look /\ \A p \in DOMAIN look : read[p] = pages[p]
        BY <2>2 DEF Restrict
      <3> HIDE DEF read
      <3>2. memo'.sig = look /\ memo'.pages = read
        BY <2>2
      <3> QED
        BY <1>1, <1>2, <1>3, <3>1, <3>2 DEF MemoOK
    <2> QED
      BY <1>3, <2>1, <2>2
  <1> QED
    BY <1>1, <1>2, <1>4, UpkeepUnchanged, ServingUnchanged DEF KnowledgeInv

LEMMA StutterKeeps == KnowledgeInv /\ UNCHANGED vars => KnowledgeInv'
  <1> SUFFICES ASSUME KnowledgeInv, UNCHANGED vars PROVE KnowledgeInv'
    OBVIOUS
  <1>1. UpkeepOK /\ RunOK /\ LastOK /\ VectorsOK /\ MemoOK
    BY DEF KnowledgeInv
  <1>2. UNCHANGED <<pages, ver, entities, pending, job, last, now>> /\ UNCHANGED <<cache, search, memo, look>>
    BY DEF vars
  <1> QED
    BY <1>1, <1>2, UpkeepUnchanged, MemoUnchanged, ServingUnchanged DEF KnowledgeInv

LEMMA InitInv == Init => KnowledgeInv
  <1> SUFFICES ASSUME Init PROVE KnowledgeInv
    OBVIOUS
  <1> DEFINE def == CHOOSE d \in Definitions : TRUE
             model == CHOOSE m \in Models : TRUE
  <1>1. def \in Definitions /\ model \in Models
    BY StartAssumption
  <1>2. entities \in [Entities -> {def}] /\ search = [proc \in Procs |-> Resting(model)]
    BY DEF Init
  <1> HIDE DEF def, model
  <1>3. LibraryOK(pages, 0)
    BY StartAssumption DEF Init, LibraryOK
  <1>4. PagesOK
    BY <1>1, <1>2, <1>3 DEF Init, PagesOK
  <1>5. ProposalsOK /\ RunOK /\ LastOK
    BY DEF Init, ProposalsOK, RunOK, LastOK, Idle
  <1>6. VectorsOK
    BY <1>1, <1>2, RestingHolds DEF Init, VectorsOK
  <1>7. MemoOK
    BY DEF Init, MemoOK
  <1> QED
    BY <1>4, <1>5, <1>6, <1>7 DEF KnowledgeInv, UpkeepOK

LEMMA NextInv == KnowledgeInv /\ [Next]_vars => KnowledgeInv'
  <1> SUFFICES ASSUME KnowledgeInv, [Next]_vars PROVE KnowledgeInv'
    OBVIOUS
  <1>1. CASE Serve
    BY <1>1, SearchEmbedKeeps, SearchSaveKeeps, RestartKeeps DEF Serve
  <1>2. CASE WritePage \/ DeletePage \/ KnowledgeAdd \/ EditEntity \/ Tick
    BY <1>2, WritePageKeeps, DeletePageKeeps, KnowledgeAddKeeps, EditEntityKeeps, TickKeeps
  <1>3. CASE Emit \/ Persist \/ Accept \/ Reject
    BY <1>3, EmitKeeps, PersistKeeps, AcceptKeeps, RejectKeeps
  <1>4. CASE LookupStat \/ LookupLoad
    BY <1>4, LookupStatKeeps, LookupLoadKeeps
  <1>5. CASE UNCHANGED vars
    BY <1>5, StutterKeeps
  <1> QED
    BY <1>1, <1>2, <1>3, <1>4, <1>5 DEF Next

LEMMA KnowledgeIsSound == Spec => []KnowledgeInv
  BY InitInv, NextInv, PTL DEF Spec

-----------------------------------------------------------------------------
(* The theorems                                                             *)

LEMMA KeptLinks ==
    ASSUME KnowledgeInv
    PROVE  LinksAreCurrent
  <1> SUFFICES ASSUME memo.sig = Signature, NEW e \in Entities
               PROVE  LinksFor(memo.pages, e) = LinksFor(pages, e)
    BY DEF LinksAreCurrent
  <1>1. DOMAIN memo.sig = DOMAIN pages /\ \A p \in DOMAIN pages : memo.sig[p] = ver[p]
    BY DEF Signature
  <1>2. DOMAIN memo.pages = DOMAIN pages /\ \A p \in DOMAIN pages : memo.pages[p] = pages[p]
    BY <1>1 DEF KnowledgeInv, MemoOK
  <1>3. {q \in DOMAIN memo.pages : Scope(q) = "global" /\ e \in memo.pages[q].sl}
          = {q \in DOMAIN pages : Scope(q) = "global" /\ e \in pages[q].sl}
    BY <1>2
  <1> QED
    BY <1>3 DEF LinksFor

\* Neither cache of the knowledge service serves what the pages no longer say
\* (knowledge/vector_cache.py, load_or_build and _save; core/knowledge.py,
\* _loaded_pages), for any pages, processes and models: a search compares with
\* the vectors its own model gives for the text, and when the files are as the
\* service last saw them, so are the links it gives.
THEOREM CachesStayCurrent == Spec => []CachesAreCurrent
  <1>1. KnowledgeInv => CachesAreCurrent
    <2> SUFFICES ASSUME KnowledgeInv PROVE CachesAreCurrent
      OBVIOUS
    <2>1. VectorsAreCurrent
      BY DEF KnowledgeInv, VectorsOK, HoldsCurrent, VectorsAreCurrent
    <2> QED
      BY <2>1, KeptLinks DEF CachesAreCurrent
  <1> QED
    BY <1>1, KnowledgeIsSound, PTL

LEMMA TypesHold ==
    ASSUME KnowledgeInv
    PROVE  TypeOK
  <1>1. ASSUME NEW p \in DOMAIN pages
        PROVE  /\ p \in Paths /\ WellFormed(pages[p])
               /\ pages[p].stamp # Null => pages[p].stamp \in 0..now
    <2>1. p \in Paths /\ WellFormed(pages[p]) /\ (pages[p].stamp # Null => pages[p].stamp <= now) /\ now \in Nat
      BY DEF KnowledgeInv, UpkeepOK, PagesOK, LibraryOK
    <2>2. pages[p].stamp \in Nat \cup {Null}
      BY <2>1 DEF WellFormed, PageRecords
    <2> QED
      BY <2>1, <2>2
  <1> QED
    BY <1>1 DEF TypeOK, KnowledgeInv, UpkeepOK, ProposalsOK, VectorsOK

\* Once everything a run proposed is accepted, the pages are what it led to.
LEMMA SettledLibrary ==
    ASSUME KnowledgeInv, Settled
    PROVE  /\ SoundLibrary(pages, entities) /\ IsEvidence(last.docs)
           /\ ~ last.prunes => QuietLibrary(pages, entities, last.docs)
  <1>1. last # Null /\ last.diffs \cap pending = {}
    BY DEF Settled
  <1>2. PICK L, E : /\ Leads(pages, entities, {}, L, E) /\ SoundLibrary(L, E)
                    /\ ~ last.prunes => QuietLibrary(L, E, last.docs)
    BY <1>1 DEF KnowledgeInv, LastOK, Settles
  <1>3. L = pages /\ E = entities
    BY <1>2, LeadsNowhere DEF KnowledgeInv, UpkeepOK, PagesOK
  <1> QED
    BY <1>1, <1>2, <1>3 DEF KnowledgeInv, LastOK

LEMMA SettledPagesAreSound ==
    ASSUME KnowledgeInv
    PROVE  SettledIsSound
  <1> SUFFICES ASSUME Settled, NEW p \in DOMAIN pages, ~ pages[p].frozen, ~ Drafted(p)
               PROVE  /\ StaleEntities(pages[p], entities) = {}
                      /\ StaleRefs(p, pages[p], {DocKey(q) : q \in DOMAIN pages}) = {}
    BY DEF SettledIsSound
  <1>1. SoundLibrary(pages, entities)
    BY SettledLibrary
  <1>2. pages[p].source = Null
    BY DEF Drafted
  <1> QED
    BY <1>1, <1>2 DEF SoundLibrary

\* A second run on the same evidence finds nothing to propose.
LEMMA SecondRun ==
    ASSUME KnowledgeInv, Settled, ~ last.prunes, NEW x \in Decisions(last.docs, <<>>)
    PROVE  x.decision \notin Proposing
  <1> DEFINE docs == last.docs
             nothing == <<>>
             decided == PageEntries(docs, nothing)
  <1>1. SoundLibrary(pages, entities) /\ IsEvidence(docs) /\ QuietLibrary(pages, entities, docs)
    BY SettledLibrary
  <1>2. PagesOK /\ entities \in [Entities -> Definitions \cup {Null}]
    BY DEF KnowledgeInv, UpkeepOK, PagesOK
  <1>3. Final(nothing) = entities /\ Proposed(nothing) = entities
    BY <1>2 DEF Final, Proposed
  <1> HIDE DEF nothing
  <1>4. \A d \in docs : DraftEntry(d, nothing).decision \in {"no_op", "contradiction"}
                        /\ (~ pages[DraftPath(d)].frozen => DraftEntry(d, nothing).decision = "no_op")
    <2> TAKE d \in docs
    <2> DEFINE p == DraftPath(d)
               page == Rendered(d, Final(nothing))
               y == DraftEntry(d, nothing)
    <2>1. Drafted(p) /\ (pages[p].frozen \/ pages[p].source = page.source)
      BY <1>1, <1>3 DEF QuietLibrary, Drafted
    <2>2. \/ ~ Drafted(p) /\ y = PageEntry("add", p, page)
          \/ y = PageEntry("no_op", p, Null)
          \/ pages[p].source # page.source /\ y = PageEntry("contradiction", p, Null)
          \/ pages[p].source # page.source /\ ~ pages[p].frozen /\ y = PageEntry("edit", p, page)
      BY DraftDecided, Zenon
    <2> HIDE DEF p, page, y
    <2>3. y.decision \in {"no_op", "contradiction"} /\ (~ pages[p].frozen => y.decision = "no_op")
      BY <2>1, <2>2, EntryFields
    <2> QED
      BY <2>3 DEF y, p
  <1>5. \A q : ~ Orphan(q, docs)
    BY <1>1 DEF Orphan, Drafted, QuietLibrary
  <1>6. \A y \in decided : y.decision \in {"no_op", "contradiction"}
    BY <1>4, <1>5, PageEntriesAre
  <1>7. ASSUME NEW q, Edited(q, docs, nothing) PROVE FALSE
    <2>1. q \in DOMAIN pages /\ ~ pages[q].frozen
          /\ q \notin Targets(decided, {"no_op"})
          /\ (StaleEntities(pages[q], entities) # {} \/ StaleRefs(q, pages[q], SlugsAfter(decided)) # {})
      BY <1>3, <1>7 DEF Edited, Undecided, IsStale
    <2>2. SlugsAfter(decided) = {DocKey(p) : p \in DOMAIN pages}
      <3> HIDE DEF decided
      <3>1. \A p : p \notin Targets(decided, {"prune"}) /\ p \notin Targets(decided, {"add"})
        BY <1>6, TargetsAre
      <3> QED
        BY <3>1 DEF SlugsAfter
    <2>3. pages[q].source # Null
      BY <1>1, <2>1, <2>2 DEF SoundLibrary
    <2>4. PICK d \in docs : DraftPath(d) = q
      BY <1>1, <2>1, <2>3 DEF QuietLibrary
    <2>5. DraftEntry(d, nothing) \in decided
      BY PageEntriesAre
    <2>6. DraftEntry(d, nothing).path = q /\ DraftEntry(d, nothing).decision = "no_op"
      BY <1>4, <2>1, <2>4, DraftEntryPath
    <2> HIDE DEF decided
    <2> QED
      BY <2>1, <2>5, <2>6, TargetsAre
  <1>8. x \in Decisions(docs, nothing)
    BY DEF nothing
  <1>9. x \in decided
    BY <1>7, <1>8, DecisionsAre, PageEntriesAre
  <1> QED
    BY <1>6, <1>9 DEF Proposing

LEMMA RerunsAreQuiet ==
    ASSUME KnowledgeInv
    PROVE  RerunIsQuiet
  <1> SUFFICES ASSUME Settled, ~ last.prunes
               PROVE  LET entries == PageEntries(last.docs, <<>>)
                      IN  /\ Diffs(entries \cup RefEdits(entries, entities), <<>>) = {}
                          /\ \A d \in last.docs : LET p == <<Shared, d.slug>>
                                                   IN  pages[p].frozen \/ Flagged(pages[p], entities) = {}
    BY DEF RerunIsQuiet
  <1> DEFINE nothing == <<>>
             entries == PageEntries(last.docs, nothing)
             all == entries \cup RefEdits(entries, entities)
  <1>1. PagesOK /\ entities \in [Entities -> Definitions \cup {Null}]
    BY DEF KnowledgeInv, UpkeepOK, PagesOK
  <1>2. Proposed(nothing) = entities /\ DOMAIN nothing = {}
    BY <1>1 DEF Proposed
  <1>3. all = Decisions(last.docs, nothing)
    BY <1>2 DEF Decisions
  <1>4. \A x \in all : x.decision \notin Proposing
    BY <1>3, SecondRun
  <1> HIDE DEF all, nothing
  <1>5. \A d : d \notin Diffs(all, nothing)
    BY <1>2, <1>4, DiffsAre
  <1>6. Diffs(all, nothing) = {}
    BY <1>5, Zenon
  <1>7. ASSUME NEW d \in last.docs PROVE pages[DraftPath(d)].frozen \/ Flagged(pages[DraftPath(d)], entities) = {}
    <2> DEFINE p == DraftPath(d)
               bound == Bound(Resolved(d.topics, entities), entities)
    <2>1. d \in Docs /\ p \in DOMAIN pages /\ pages[p].source # Null
          /\ (pages[p].frozen \/ pages[p].source = Rendered(d, entities).source)
      BY SettledLibrary DEF IsEvidence, QuietLibrary
    <2>2. Rendered(d, entities).source = <<d.text, bound>>
      BY <1>1, <2>1, RenderedFields
    <2>3. pages[p].bound = pages[p].source[2]
      BY <1>1, <2>1 DEF PagesOK, LibraryOK, WellFormed
    <2>4. \A e \in DOMAIN bound : bound[e] = entities[e]
      BY DEF Bound
    <2> HIDE DEF p, bound
    <2>5. pages[p].source = Rendered(d, entities).source => pages[p].bound = bound
      BY <2>2, <2>3
    <2>6. pages[p].bound = bound => Flagged(pages[p], entities) = {}
      BY <2>4 DEF Flagged
    <2>7. pages[p].frozen \/ Flagged(pages[p], entities) = {}
      BY <2>1, <2>5, <2>6
    <2> QED
      BY <2>7 DEF p
  <1> QED
    BY <1>6, <1>7 DEF all, nothing, DraftPath

\* Accepting everything an undisturbed ingest run proposes leaves pages whose
\* references resolve, a second run on the same evidence proposes nothing, and for
\* the staleness window less a day after the run no page it checked signals
\* staleness (page_drafts.py, page_refs.py, drift.py), for any pages, entities and
\* documents, in whatever order the proposals are accepted.
THEOREM RunsAlwaysSettle == Spec => []RunsSettle
  <1>1. KnowledgeInv => RunsSettle
    <2> SUFFICES ASSUME KnowledgeInv PROVE RunsSettle
      OBVIOUS
    <2>1. CheckedPagesAreFresh
      <3> SUFFICES ASSUME last # Null, now - last.at <= StalenessWindow - RestampAfter, NEW p \in DOMAIN pages,
                          pages[p].stamp # Null, last.at - pages[p].stamp <= RestampAfter
                   PROVE  ~ SignalsStaleness(pages[p], now, StalenessWindow)
        BY DEF KnowledgeInv, LastOK, RecentlyStamped, CheckedPagesAreFresh
      <3>1. now \in Nat /\ last.at \in Nat /\ WellFormed(pages[p])
        BY DEF KnowledgeInv, UpkeepOK, PagesOK, LibraryOK, LastOK
      <3>2. pages[p].stamp \in Nat
        BY <3>1 DEF WellFormed, PageRecords
      <3> QED
        BY <3>1, <3>2, WindowAssumption DEF SignalsStaleness
    <2> QED
      BY <2>1, TypesHold, SettledPagesAreSound, RerunsAreQuiet DEF RunsSettle
  <1> QED
    BY <1>1, KnowledgeIsSound, PTL

==============================================================================
