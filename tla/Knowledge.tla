------------------------------ MODULE Knowledge ------------------------------
(***************************************************************************)
(* The knowledge pages of a project over time: people write and delete     *)
(* them, `canonic knowledge add` and an ingest run draft them              *)
(* (ingestion/page_drafts.py), every run checks their references against   *)
(* the state it proposes (ingestion/page_refs.py), a review applies the    *)
(* proposals one by one, and serving processes read them: through the      *)
(* memo of KnowledgeService and the vector cache on disk, which the        *)
(* processes share (knowledge/vector_cache.py).                            *)
(*                                                                         *)
(* The semantic decisions of a run are those of Reconciliation and an      *)
(* input here: a run may propose another definition of an entity, or that  *)
(* it goes.  A page's text and an entity's definition are numbers.         *)
(***************************************************************************)
EXTENDS Retrieval

CONSTANTS Torn,
          Paths, Entities, Definitions,
          Contents,       \* what people write: text, tags, sl, refs, frozen
          Docs,           \* evidence of the doc sources: slug, text, topics
          Procs, Models,  \* serving processes, embedding models
          Allows,         \* allow_tags of the roles
          RestampAfter,    \* a day, in ticks of the clock
          StalenessWindow, \* knowledge.staleness_window_days, at least one, in ticks
          Libraries,      \* what a project may start with
          Budgets         \* bounds: how many hand edits, ingest runs, reads and ticks

ASSUME WindowAssumption == RestampAfter \in Nat /\ StalenessWindow \in Nat /\ RestampAfter <= StalenessWindow
\* Owners and slugs are numbers, and an entity is not a page.
ASSUME PathsAssumption == IsFiniteSet(Paths) /\ Paths \subseteq Nat \X Nat /\ Entities \cap Paths = {}

\* What a page may say.  A draft was bound to definitions, and its source is the
\* evidence with what it was bound to.
Bindings == UNION {[S -> Definitions] : S \in SUBSET Entities}
Prose == [text : Nat, tags : SUBSET STRING, sl : SUBSET Entities, refs : SUBSET Nat, frozen : BOOLEAN]
PageRecords ==
    [text : Nat, tags : SUBSET STRING, sl : SUBSET Entities, refs : SUBSET Nat, frozen : BOOLEAN,
     bound : Bindings, stamp : Nat \cup {Null}, source : {Null} \cup (Nat \X Bindings)]
WellFormed(page) == page \in PageRecords /\ (page.source # Null => page.source[2] = page.bound)

ASSUME NullAssumption ==
    /\ Null \notin Nat /\ Null \notin Definitions /\ Null \notin PageRecords /\ Null \notin Nat \X Bindings
ASSUME EvidenceAssumption ==
    /\ Contents \subseteq Prose
    /\ Docs \subseteq [slug : Nat, text : Nat, topics : SUBSET Entities]
    /\ \A d \in Docs : <<Shared, d.slug>> \in Paths
ASSUME StartAssumption ==
    /\ Definitions # {} /\ Models # {}
    /\ Budgets \subseteq [{"writes", "runs", "reads", "ticks"} -> Nat]
    /\ \A lib \in Libraries :
          /\ DOMAIN lib \subseteq Paths /\ lib = [p \in DOMAIN lib |-> lib[p]]
          /\ \A p \in DOMAIN lib : WellFormed(lib[p]) /\ lib[p].stamp \in {Null, 0}

VARIABLES pages, ver,     \* knowledge/, and the modification time of each file
          entities,       \* the definition of each semantic entity, or Null
          pending,        \* proposals not reviewed yet
          job,            \* the ingest run in progress
          last,           \* history: the last run, until anything else changes
          now,
          left,           \* what is left of the bounds
          cache,          \* knowledge-index/vectors.json
          search,         \* per process: a search and the vectors it holds
          memo, look      \* the pages a service keeps, and its lookup

vars == <<pages, ver, entities, pending, job, last, now, left, cache, search, memo, look>>
upkeep == <<entities, pending, job, last, now>>
serving == <<cache, search, memo, look>>

\* ---- Pages ----

NoMeta == [bound |-> <<>>, stamp |-> Null, source |-> Null]
Page(content, meta) ==
    [text |-> content.text, tags |-> content.tags, sl |-> content.sl, refs |-> content.refs, frozen |-> content.frozen,
     bound |-> meta.bound, stamp |-> meta.stamp, source |-> meta.source]
Put(lib, p, page) == [q \in DOMAIN lib \cup {p} |-> IF q = p THEN page ELSE lib[q]]
Without(lib, p) == Restrict(lib, DOMAIN lib \ {p})
Idle == [pc |-> "idle", docs |-> {}, prunes |-> FALSE, entries |-> {}, delta |-> <<>>, diffs |-> {}, clean |-> TRUE]

\* One write per path: its modification time changes.
Rewrite(lib) ==
    /\ pages' = lib
    /\ ver' = [p \in Paths |-> IF p \in DOMAIN lib /\ (p \notin DOMAIN pages \/ lib[p] # pages[p])
                               THEN ver[p] + 1 ELSE ver[p]]
Spend(kind) == left[kind] > 0 /\ left' = [left EXCEPT ![kind] = @ - 1]
\* Anything but the review of its own proposals ends what is known of a run.
Disturb == last' = Null /\ job' = [job EXCEPT !.clean = FALSE]

\* A hand edit keeps the metadata that is there.
WritePage ==
    /\ Spend("writes")
    /\ \E p \in Paths, c \in Contents :
          Rewrite(Put(pages, p, Page(c, IF p \in DOMAIN pages THEN pages[p] ELSE NoMeta)))
    /\ Disturb
    /\ UNCHANGED <<entities, pending, now, serving>>

DeletePage ==
    /\ Spend("writes")
    /\ \E p \in DOMAIN pages : Rewrite(Without(pages, p))
    /\ Disturb
    /\ UNCHANGED <<entities, pending, now, serving>>

\* resolve_topic_refs and EntityIndex.current_fingerprint.
Resolved(topics, index) == {e \in topics : index[e] # Null}
Bound(sl, index) == [e \in sl |-> index[e]]

\* knowledge add: references that do not resolve are dropped, and the file is
\* written whatever was there.
KnowledgeAdd ==
    /\ Spend("writes")
    /\ \E d \in Docs, p \in Paths :
          LET sl == Resolved(d.topics, entities)
          IN  /\ p[2] = d.slug
              /\ Rewrite(Put(pages, p, Page([text |-> d.text, tags |-> {}, sl |-> sl, refs |-> {}, frozen |-> FALSE],
                                            [bound |-> Bound(sl, entities), stamp |-> now, source |-> Null])))
    /\ Disturb
    /\ UNCHANGED <<entities, pending, now, serving>>

\* A semantic source is edited by hand.
EditEntity ==
    /\ Spend("writes")
    /\ \E e \in Entities, d \in Definitions \cup {Null} :
          d # entities[e] /\ entities' = [entities EXCEPT ![e] = d]
    /\ Disturb
    /\ UNCHANGED <<pages, ver, pending, now, serving>>

Tick ==
    /\ Spend("ticks")
    /\ now' = now + 1
    /\ UNCHANGED <<pages, ver, entities, pending, job, last, serving>>

\* ---- An ingest run ----

\* Mutant: references are checked against the accepted entities.
Final_Accepted(delta) == entities
\* final_sources: what is proposed, if it lands, else what is accepted.  A
\* proposed removal is not among what is added.
Final(delta) == [e \in Entities |-> IF e \in DOMAIN delta /\ delta[e] # Null THEN delta[e] ELSE entities[e]]

\* render_page_drafts: the fingerprint is over the evidence and what it resolves to.
Rendered(d, index) ==
    LET sl == Resolved(d.topics, index)
        bound == Bound(sl, index)
    IN  Page([text |-> d.text, tags |-> {}, sl |-> sl, refs |-> {}, frozen |-> FALSE],
             [bound |-> bound, stamp |-> Null, source |-> <<d.text, bound>>])

PageEntry(decision, p, after) == [decision |-> decision, path |-> p, after |-> after]

\* Only pages an ingest run drafted are ingest's to reconcile.
Drafted(p) == p \in DOMAIN pages /\ pages[p].source # Null
Decide(p, page) ==
    CASE ~ Drafted(p) -> PageEntry("add", p, page)
      [] Drafted(p) /\ pages[p].source = page.source -> PageEntry("no_op", p, Null)
      [] OTHER -> IF pages[p].frozen THEN PageEntry("contradiction", p, Null) ELSE PageEntry("edit", p, page)

PageEntries(docs, delta) ==
    LET drafts == {Decide(<<Shared, d.slug>>, Rendered(d, Final(delta))) : d \in docs}
    IN  drafts \cup {PageEntry("prune", p, Null) :
                       p \in {q \in DOMAIN pages : /\ Drafted(q) /\ ~ pages[q].frozen
                                                   /\ \A e \in drafts : e.path # q}}

Targets(entries, decisions) == {e.path : e \in {x \in entries : x.decision \in decisions}}

\* _page_index: the pages on disk, minus pruned, plus newly drafted.
SlugsAfter(entries) ==
    {DocKey(p) : p \in (DOMAIN pages \ Targets(entries, {"prune"})) \cup Targets(entries, {"add"})}

\* PruneAdvisor.pruned_page.
Pruned(page, sl, refs) == [page EXCEPT !.sl = @ \ sl, !.refs = @ \ refs, !.stamp = Null]

\* PageReferenceChecker.check: pages the run decided and frozen ones are left
\* alone, unchanged drafts count as checked.
Undecided(entries) ==
    {p \in DOMAIN pages : ~ pages[p].frozen /\ p \notin Targets(entries, {"add", "edit", "prune", "contradiction", "ref_edit"})}
IsStale(p, entries, after) ==
    /\ p \notin Targets(entries, {"no_op"})
    /\ \/ StaleEntities(pages[p], after) # {}
       \/ StaleRefs(p, pages[p], SlugsAfter(entries)) # {}
RefEdits(entries, after) ==
    {PageEntry("ref_edit", p, Pruned(pages[p], StaleEntities(pages[p], after),
                                               StaleRefs(p, pages[p], SlugsAfter(entries)))) :
       p \in {q \in Undecided(entries) : IsStale(q, entries, after)}}

\* _needs_restamp.
NeedsRestamp(page) == page.stamp = Null \/ now - page.stamp > RestampAfter
Validated(entries, after) ==
    {p \in Undecided(entries) : ~ IsStale(p, entries, after) /\ NeedsRestamp(pages[p])}

PageDiff(e) == [at |-> e.path, after |-> e.after]
EntityDiff(e, definition) == [at |-> e, after |-> [definition |-> definition]]
Diffs(entries, delta) ==
    {PageDiff(e) : e \in {x \in entries : x.decision \in {"add", "edit", "prune", "ref_edit"}}}
        \cup {EntityDiff(e, delta[e]) : e \in DOMAIN delta}

\* Bound: a run proposes at most one change of an entity.
Deltas == UNION {[S -> Definitions \cup {Null}] : S \in {{}} \cup {{e} : e \in Entities}}
Proposed(delta) == [e \in Entities |-> IF e \in DOMAIN delta THEN delta[e] ELSE entities[e]]

\* _emit: everything is decided on what is on disk.
Emit ==
    /\ job.pc = "idle"
    /\ Spend("runs")
    /\ \E docs \in SUBSET Docs, delta \in Deltas :
          LET after == Proposed(delta)
              decided == PageEntries(docs, delta)
              entries == decided \cup RefEdits(decided, after)
          IN  /\ \A d, e \in docs : d.slug = e.slug => d = e
              /\ \A e \in DOMAIN delta : delta[e] # entities[e]
              /\ job' = [pc |-> "emitted", docs |-> docs, prunes |-> \E e \in DOMAIN delta : delta[e] = Null,
                         entries |-> entries, delta |-> delta, diffs |-> Diffs(entries, delta), clean |-> TRUE]
    /\ last' = Null
    /\ UNCHANGED <<pages, ver, entities, pending, now, serving>>

\* PageReferenceCheck.stamp.
Stamped(page) == [page EXCEPT !.stamp = now]

\* _persist, _refresh_pages: the proposals are stored, and the pages checked again,
\* as pages and entities are now; those that resolve are stamped in place.
Persist ==
    /\ job.pc = "emitted"
    /\ pending' = pending \cup job.diffs
    /\ LET validated == Validated(job.entries, Proposed(job.delta))
       IN  Rewrite([p \in DOMAIN pages |-> IF p \in validated THEN Stamped(pages[p]) ELSE pages[p]])
    /\ last' = IF job.clean
               THEN [docs |-> job.docs, prunes |-> job.prunes, diffs |-> job.diffs, at |-> now] ELSE Null
    /\ job' = Idle
    /\ UNCHANGED <<entities, now, left, serving>>

\* review and apply: one proposal of any run, written as it was proposed.
Accept ==
    /\ \E d \in pending :
          /\ pending' = pending \ {d}
          /\ IF d.at \in Entities
             THEN entities' = [entities EXCEPT ![d.at] = d.after.definition] /\ UNCHANGED <<pages, ver>>
             ELSE /\ Rewrite(IF d.after = Null THEN Without(pages, d.at) ELSE Put(pages, d.at, d.after))
                  /\ UNCHANGED entities
          /\ last' = IF last # Null /\ d \in last.diffs THEN last ELSE Null
    /\ job' = [job EXCEPT !.clean = FALSE]
    /\ UNCHANGED <<now, left, serving>>

Reject ==
    /\ \E d \in pending :
          /\ pending' = pending \ {d}
          /\ last' = IF last # Null /\ d \notin last.diffs THEN last ELSE Null
    /\ UNCHANGED <<pages, ver, entities, job, now, left, serving>>

\* ---- Searching with vectors ----

Resting(model) == [pc |-> "idle", model |-> model, held |-> <<>>]
Embedding(model, text) == <<model, text>>

\* Mutant: the model is not part of the cache key.
Reusable_AnyModel(model) == cache # Torn
\* _load: an unreadable file, or one of another model, counts as empty.
Reusable(model) == cache # Torn /\ cache.model = model

\* load_or_build: a cached vector is used when its text is unchanged.
SearchEmbed(proc) ==
    /\ search[proc].pc = "idle"
    /\ Spend("reads")
    /\ \E allow \in Allows :
          LET lib == TagVisible(pages, allow)
              model == search[proc].model
              known(p) == /\ Reusable(model) /\ DocKey(p) \in DOMAIN cache.entries
                          /\ cache.entries[DocKey(p)].text = lib[p].text
          IN  /\ DOMAIN lib # {}
              /\ search' = [search EXCEPT ![proc] =
                    [pc |-> "embedded", model |-> model,
                     held |-> [p \in DOMAIN lib |->
                                [text |-> lib[p].text,
                                 vector |-> IF known(p) THEN cache.entries[DocKey(p)].vector
                                            ELSE Embedding(model, lib[p].text)]]]]
    /\ UNCHANGED <<pages, ver, cache, memo, look>> /\ UNCHANGED upkeep

\* _save: the pages of this request only.  The process may die while writing.
SearchSave(proc) ==
    /\ search[proc].pc = "embedded"
    /\ LET held == search[proc].held
       IN  cache' \in {Torn, [model |-> search[proc].model,
                              entries |-> [k \in {DocKey(p) : p \in DOMAIN held} |-> held[ByKey(held, k)]]]}
    /\ search' = [search EXCEPT ![proc] = Resting(@.model)]
    /\ UNCHANGED <<pages, ver, left, memo, look>> /\ UNCHANGED upkeep

\* A process serves with the model it was started with; a restart may bring another.
Restart(proc) ==
    /\ Spend("reads")
    /\ \E m \in Models : m # search[proc].model /\ search' = [search EXCEPT ![proc] = Resting(m)]
    /\ UNCHANGED <<pages, ver, cache, memo, look>> /\ UNCHANGED upkeep

\* ---- The pages a service keeps ----

\* _loaded_pages: the files and their modification times are looked at first, and
\* those files read afterwards; one that is gone by then is an error.
Signature == [p \in DOMAIN pages |-> ver[p]]
LookupStat ==
    /\ look = Null
    /\ Spend("reads")
    /\ look' = Signature
    /\ UNCHANGED <<pages, ver, cache, search, memo>> /\ UNCHANGED upkeep
LookupLoad ==
    /\ look # Null
    /\ memo' = IF look # memo.sig /\ DOMAIN look \subseteq DOMAIN pages
               THEN [sig |-> look, pages |-> Restrict(pages, DOMAIN look)] ELSE memo
    /\ look' = Null
    /\ UNCHANGED <<pages, ver, left, cache, search>> /\ UNCHANGED upkeep

Init ==
    /\ pages \in Libraries
    /\ ver = [p \in Paths |-> 0]
    /\ entities \in [Entities -> {CHOOSE d \in Definitions : TRUE}]
    /\ pending = {} /\ job = Idle /\ last = Null /\ now = 0 /\ left \in Budgets
    /\ cache = Torn
    /\ search = [proc \in Procs |-> Resting(CHOOSE m \in Models : TRUE)]
    /\ memo = [sig |-> <<>>, pages |-> <<>>]
    /\ look = Null

Serve == \E proc \in Procs : SearchEmbed(proc) \/ SearchSave(proc) \/ Restart(proc)
Next ==
    \/ WritePage \/ DeletePage \/ KnowledgeAdd \/ EditEntity \/ Tick
    \/ Emit \/ Persist \/ Accept \/ Reject
    \/ Serve
    \/ LookupStat \/ LookupLoad

Spec == Init /\ [][Next]_vars

\* ---- Properties ----

\* Every page is well-formed, whoever wrote it last, and carries no stamp of the
\* future.
TypeOK ==
    /\ \A p \in DOMAIN pages : /\ p \in Paths /\ WellFormed(pages[p])
                               /\ pages[p].stamp # Null => pages[p].stamp \in 0..now
    /\ job.pc \in {"idle", "emitted"}
    /\ cache # Torn => cache.model \in Models

\* A vector that a search compares with is the one its own model gives for the
\* text as it is, whatever another process, another model, a crash or a request
\* that saw fewer pages left in the cache.
VectorsAreCurrent ==
    \A proc \in Procs : \A p \in DOMAIN search[proc].held :
        search[proc].held[p].vector = Embedding(search[proc].model, search[proc].held[p].text)

\* When the files are as the service last saw them, the links it gives for them
\* are those of the files, also when one was changed, added or deleted while they
\* were being read.
LinksAreCurrent ==
    memo.sig = Signature => \A e \in Entities : LinksFor(memo.pages, e) = LinksFor(pages, e)

\* The run's proposals are accepted, all of them and nothing else happened.
Settled == last # Null /\ last.diffs \cap pending = {}

\* "A dangling ref is never left behind": once a run's proposals are accepted,
\* every page that is not drafted by ingest itself refers to live entities and
\* to pages it can see.
SettledIsSound ==
    Settled => \A p \in DOMAIN pages :
        (~ pages[p].frozen /\ ~ Drafted(p)) =>
            /\ StaleEntities(pages[p], entities) = {}
            /\ StaleRefs(p, pages[p], {DocKey(q) : q \in DOMAIN pages}) = {}

\* Running again on the same evidence proposes nothing for the pages, and no
\* draft is flagged: the drafts are bound to what the review has accepted.  (A
\* run that removes an entity renders its drafts with it, and again without.)
RerunIsQuiet ==
    (Settled /\ ~ last.prunes) =>
        LET entries == PageEntries(last.docs, <<>>)
        IN  /\ Diffs(entries \cup RefEdits(entries, entities), <<>>) = {}
            /\ \A d \in last.docs : LET p == <<Shared, d.slug>>
                                    IN  pages[p].frozen \/ Flagged(pages[p], entities) = {}

\* For the staleness window less a day after a run, reading a page signals no
\* staleness, or a proposal of that run says why it does.  A page stamped within the
\* day before the run is not stamped again, so with a window of one day it may signal
\* staleness soon after (page_refs.py, _needs_restamp; drift.py, staleness).
CheckedPagesAreFresh ==
    (last # Null /\ now - last.at <= StalenessWindow - RestampAfter) => \A p \in DOMAIN pages :
        \/ pages[p].frozen
        \/ \E d \in last.diffs : d.at = p
        \/ ~ SignalsStaleness(pages[p], now, StalenessWindow)

\* What a search or a walk answers depends on the pages alone, so it is looked at
\* before anything but the pages has changed.
OnlyPages == /\ look = Null /\ memo.sig = <<>> /\ cache = Torn /\ job.pc = "idle" /\ now = 0
             /\ \A proc \in Procs : search[proc].pc = "idle"
\* A name that pages of two users have.
Contested(lib, slug) ==
    \E p, q \in DOMAIN lib : p # q /\ Shared \notin {p[1], q[1]} /\ p[2] = slug /\ q[2] = slug

\* User pages add and never replace: whatever the arms find, in whatever order, a page
\* the user may see is shown, as a hit or as an annotation of the shared page of its
\* name, unless the list is full; no user page stands beside the shared page of its
\* name; and no page of another user is shown.  (Of a contested name the search shows
\* the last user's page to each of them.)
SearchIsAdditive ==
    OnlyPages => \A user \in {p[1] : p \in Paths} \ {Shared}, allow \in Allows, text \in {c.text : c \in Contents} :
        LET lib == TagVisible(pages, allow)
            found == {p \in DOMAIN lib : lib[p].text = text}
        IN  \A ranked \in Rankings(Eligible(lib, user, found)) \cup Rankings(Eligible(lib, user, DOMAIN lib)),
               limit \in 1..2 :
              LET hits == Hits(lib, ranked, limit)
              IN  /\ \A p \in found \cap Visible(lib, user) :
                        \/ Len(hits) = limit
                        \/ Contested(lib, p[2])
                        \/ p \in ToSet(hits)
                        \/ \E hit \in ToSet(hits) : p \in Annotations(lib, user, hit)
                  /\ \A hit \in ToSet(hits) :
                        /\ hit \in Visible(lib, user) \/ Contested(lib, hit[2])
                        /\ hit[1] # Shared => <<Shared, hit[2]>> \notin ToSet(hits)

\* A page that a search shows can be read by its name, by the same user in the same
\* role, if it is shared or the only page of its name; and no read gives a page that
\* the user or the role may not see.  (A read looks at the first page of a name only:
\* it is refused when that is another user's, or a shared one the role may not see.)
ReadsAnswerSearches ==
    OnlyPages => \A user \in {p[1] : p \in Paths} \ {Shared}, allow \in Allows :
        LET lib == TagVisible(pages, allow)
            read(slug) == Read(pages, slug, user, allow)
            alone(p) == \A q \in DOMAIN pages : q[2] = p[2] => q = p
        IN  /\ \A ranked \in Rankings(Eligible(lib, user, DOMAIN lib)) : \A hit \in ToSet(Hits(lib, ranked, 2)) :
                  hit[1] = Shared \/ alone(hit) => read(hit[2]) = hit
            /\ \A p \in Paths : read(p[2]) # Null => read(p[2]) \in Visible(lib, user)

\* The pages within so many hops of the seeds.
Hops(lib, seeds, depth) ==
    FoldLeft(LAMBDA S, i : S \cup UNION {ToSet(Neighbors(lib, p)) : p \in S}, seeds, [i \in 1..depth |-> i])

\* The walk admits the pages within its depth and no others, through cycles and
\* dangling references; when they are too many, as many as it may.
ExpandIsReach ==
    OnlyPages => \A user \in {p[1] : p \in Paths} \ {Shared} :
        LET lib == RestrictDomain(pages, LAMBDA p : p \in Visible(pages, user))
        IN  \A seed \in DOMAIN lib, depth \in 0..2, nodes \in 1..3 :
              LET walk == Expand(lib, {seed}, depth, nodes)
                  reach == Hops(lib, {seed}, depth)
              IN  /\ walk \subseteq reach
                  /\ Cardinality(walk) = Min({nodes, Cardinality(reach)})

\* Neither cache serves what the pages no longer say (vector_cache.py;
\* core/knowledge.py).
CachesAreCurrent ==
    /\ VectorsAreCurrent
    /\ LinksAreCurrent

\* Accepting what a run proposes leaves the pages sound, and the next run silent
\* (page_drafts.py, page_refs.py).
RunsSettle ==
    /\ TypeOK
    /\ SettledIsSound
    /\ RerunIsQuiet
    /\ CheckedPagesAreFresh

\* What a user may see is found by searching and reached along references, shared
\* pages and pages alone with their name can be read, and of what the user may not see
\* only a page of a contested name is shown (retrieval.py, traversal.py,
\* core/knowledge.py).
RetrievalIsComplete ==
    /\ SearchIsAdditive
    /\ ReadsAnswerSearches
    /\ ExpandIsReach
==============================================================================
