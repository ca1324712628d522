------------------------------ MODULE Retrieval ------------------------------
(***************************************************************************)
(* Reading the knowledge pages: which pages a request sees                 *)
(* (knowledge/scope.py, core/knowledge.py), the hybrid search              *)
(* (knowledge/retrieval.py over index.py and embeddings.py), the walk      *)
(* along page references (knowledge/traversal.py), the links of a          *)
(* guardrail (knowledge/linker.py), and which references still resolve     *)
(* (knowledge/validation.py, drift.py).                                    *)
(*                                                                         *)
(* A path is <<owner, slug>>; owner 0 is knowledge/global, any other       *)
(* number a user's directory, so that paths sort as the file names do.  A  *)
(* library maps paths to pages.  Which pages the arms of the search find,  *)
(* and in which order their ranks put them, is an input.                   *)
(***************************************************************************)
EXTENDS Integers, Sequences, FiniteSetsExt, SequencesExt, Functions, TLC

CONSTANTS Null,
          Everything,  \* the wildcard of knowledge.allow_tags
          WikiLinks    \* the slugs a text links to

Shared == 0
Scope(p) == IF p[1] = Shared THEN "global" ELSE "user"
DocKey(p) == <<Scope(p), p[2]>>
Precedes(p, q) == p[1] < q[1] \/ (p[1] = q[1] /\ p[2] < q[2])

\* ---- What a request sees ----

\* _tag_visible_pages: an untagged page is outside every restrictive set.
TagVisible(lib, allow) ==
    IF allow = Everything THEN lib ELSE Restrict(lib, {p \in DOMAIN lib : lib[p].tags \cap allow # {}})

\* ScopeResolver.visible_pages: the shared pages and the user's own.
Visible(lib, user) == {p \in DOMAIN lib : p[1] \in {Shared, user}}

\* A dictionary by scope and slug, filled in path order: the last page stays.
ByKey(lib, key) == CHOOSE p \in DOMAIN lib : /\ DocKey(p) = key
                                             /\ \A q \in DOMAIN lib : DocKey(q) = key => ~ Precedes(p, q)
\* By slug alone: the shared page, or else the first of the users'.
BySlug(lib, slug) ==
    LET named == {p \in DOMAIN lib : p[2] = slug}
    IN  IF named = {} THEN Null ELSE CHOOSE p \in named : \A q \in named : ~ Precedes(q, p)

\* ---- Hybrid search ----

\* _arm_ranks: the keys of what the arms found that the request may see.
Eligible(lib, user, found) == {DocKey(p) : p \in found} \cap {DocKey(p) : p \in Visible(lib, user)}
\* _fuse: the ranks in the arms put the keys into some order.
Rankings(keys) == {ranked \in [1..Cardinality(keys) -> keys] : IsInjective(ranked)}

\* Mutant: the shared page need not be among the hits.
Collapses_AnyGlobal(lib, ranked, k) == k[1] = "user" /\ <<Shared, k[2]>> \in DOMAIN lib
\* A user page gives way to a shared page of its slug that was found as well.
Collapses(lib, ranked, k) == k[1] = "user" /\ <<"global", k[2]>> \in ToSet(ranked)

\* _build_hits: the page shown for a key is the one the dictionary has.
Hits(lib, ranked, limit) ==
    LET kept == SelectSeq(ranked, LAMBDA k : ~ Collapses(lib, ranked, k))
    IN  [i \in 1..Min({limit, Len(kept)}) |-> ByKey(lib, kept[i])]

\* _annotations_for: the user's own page of a shared hit's slug.
Annotations(lib, user, hit) ==
    {p \in Visible(lib, user) : hit[1] = Shared /\ Scope(p) = "user" /\ p[2] = hit[2]}

\* read_knowledge_page: the first page of that name decides; it is refused when
\* the user or the role may not see it.
Read(lib, slug, user, allow) ==
    LET p == BySlug(lib, slug)
    IN  IF p \in Visible(lib, user) \cap DOMAIN TagVisible(lib, allow) THEN p ELSE Null

\* ---- The walk along references ----

\* _neighbors, by slug, of the refs and of the links in the body; a slug without a
\* page is skipped.
Neighbors(lib, p) ==
    LET slugs == SetToSortSeq(lib[p].refs \cup WikiLinks[lib[p].text], <)
    IN  SelectSeq([i \in DOMAIN slugs |-> BySlug(lib, slugs[i])], LAMBDA q : q # Null)

\* _admit: once per page, up to the limit.
Admit(nodes, admitted, p, depth) ==
    IF Len(admitted) >= nodes \/ \E i \in DOMAIN admitted : DocKey(admitted[i].path) = DocKey(p)
    THEN admitted
    ELSE Append(admitted, [path |-> p, depth |-> depth])

\* expand: breadth first.  The admitted pages, in order, are the queue.
Expand(lib, seeds, maxDepth, nodes) ==
    LET start == FoldLeft(LAMBDA adm, p : Admit(nodes, adm, p, 0), <<>>, SetToSortSeq(seeds, Precedes))
        visit(adm, i) ==
            IF i > Len(adm) \/ adm[i].depth >= maxDepth THEN adm
            ELSE FoldLeft(LAMBDA a, p : Admit(nodes, a, p, adm[i].depth + 1), adm, Neighbors(lib, adm[i].path))
        walked == FoldLeft(visit, start, [i \in 1..nodes |-> i])
    IN  {walked[i].path : i \in DOMAIN walked}

\* ---- Links and references ----

\* KnowledgeLinker, of a guardrail on an entity: the shared pages bound to it.
LinksFor(lib, entity) == {p[2] : p \in {q \in DOMAIN lib : Scope(q) = "global" /\ entity \in lib[q].sl}}

\* PageIndex.is_visible: user pages also see the slugs of user pages.
SlugVisible(slugs, slug, from) ==
    \/ <<"global", slug>> \in slugs
    \/ from = "user" /\ <<"user", slug>> \in slugs

\* PruneAdvisor: what no longer resolves.  An entity is live when it has a
\* definition.
StaleEntities(page, entities) == {e \in page.sl : entities[e] = Null}
StaleRefs(p, page, slugs) == {s \in page.refs : ~ SlugVisible(slugs, s, Scope(p))}

\* DriftDetector.staleness: never validated, or longer ago than the window.
SignalsStaleness(page, now, window) == page.stamp = Null \/ now - page.stamp > window

\* DriftDetector.flagged_for_review.
Flagged(page, entities) ==
    {e \in DOMAIN page.bound : entities[e] # Null /\ entities[e] # page.bound[e]}
==============================================================================
