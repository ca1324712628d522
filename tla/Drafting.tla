------------------------------- MODULE Drafting -------------------------------
(***************************************************************************)
(* The front half of an ingest run: connections are selected, their        *)
(* evidence is gathered, modeling definitions are placed on the relations  *)
(* they speak of (DefinitionIndex), every relation becomes a draft         *)
(* (ContextBuilder), partly guessed by a language model that may fail, and *)
(* contract candidates are resolved against what the run leaves behind.    *)
(* What reconciliation decides about a draft is the module Reconciliation. *)
(***************************************************************************)
EXTENDS Integers, SequencesExt

CONSTANTS
    None,        \* no value
    Conns,       \* connection ids
    Relations,   \* bare relation names
    Columns,     \* column names
    TypeOf,      \* the normalized type of a column
    Stem,        \* a column name without its _id, _fk or _key suffix
    TotalOf,     \* the name of the measure inferred for a column
    Projects,    \* the projects a run may start in, with what their sources say
    Grains,      \* grains the model may answer
    JoinGuesses, \* joins the model may answer
    MaxGuesses,  \* bound on the joins of one answer
    MaxRetries   \* GenerationRuntime's max_retries

\* A sequence, whatever its entries are.
IsList(s) == Len(s) \in Nat /\ s = [i \in 1..Len(s) |-> s[i]]

\* What a source delivers is parsed into the models of the evidence.
Parsed(e) ==
    /\ e.k = "schema" => /\ e.rel \in Relations /\ IsList(e.fks)
                         /\ e.cols \subseteq Columns /\ IsFiniteSet(e.cols)
    /\ e.k \in {"measure", "dimension", "entity", "model"} => IsList(e.refs)
    /\ e.k = "measure" => e.flagged \in BOOLEAN
    /\ e.k = "dimension" =>
         /\ e.typed \in BOOLEAN
         /\ e.entry = [name |-> e.entry.name, cols |-> e.entry.cols, bare |-> e.entry.bare,
                       alias |-> e.entry.alias]
         /\ e.entry.bare \in BOOLEAN
    /\ e.k = "join" => /\ IsList(e.specs) /\ e.flagged \in BOOLEAN
                       /\ \A i \in DOMAIN e.specs : e.specs[i].on \in BOOLEAN
    /\ e.k = "candidate" => IsList(e.measures)
AllParsed(items) == IsList(items) /\ \A i \in DOMAIN items : Parsed(items[i])

ASSUME DraftingAssumption ==
    /\ {"id"} \subseteq Columns
    /\ DOMAIN TypeOf = Columns /\ DOMAIN Stem = Columns /\ DOMAIN TotalOf = Columns
    /\ MaxGuesses \in Nat /\ MaxRetries \in Nat
    /\ \A g \in JoinGuesses : /\ g = [col |-> g.col, to |-> g.to, ref |-> g.ref, conf |-> g.conf]
                              /\ g.conf \in Nat

\* A project's configuration and files are parsed, too.
ASSUME ProjectsAssumption ==
    \A p \in Projects :
      /\ p = [conns |-> p.conns, default |-> p.default, has |-> p.has, filter |-> p.filter,
              outcomes |-> p.outcomes, sources |-> p.sources, metrics |-> p.metrics]
      /\ IsList(p.conns) /\ ToSet(p.conns) \subseteq Conns
      /\ p.filter \in [Conns -> {None} \cup SUBSET Relations]
      /\ \A c \in Conns : IsList(p.has[c]) /\ \A i \in DOMAIN p.has[c] : AllParsed(p.has[c][i].items)
      /\ AllParsed(p.outcomes)

VARIABLES
    project,  \* canonic.yaml, the accepted files and what the sources say
    open,     \* the connectors created and not closed
    run       \* the ingest process

draftingVars == <<project, open, run>>

Seams == {"introspect_schema", "extract_definitions", "extract_evidence"}

Idle ==
    [pc |-> "idle", headless |-> FALSE, plan |-> <<>>, evidence |-> <<>>, at |-> 1,
     index |-> <<>>, skipped |-> {}, drafts |-> <<>>, others |-> <<>>, draft |-> None,
     tries |-> 0, sources |-> None, pending |-> <<>>, offered |-> <<>>,
     ready |-> <<>>, added |-> <<>>,
     held |-> <<>>,      \* the connectors the finally of _ingest closes, in their order
     spare |-> {},       \* those created for a look at their capabilities, and left
     broken |-> FALSE]   \* creating or closing a connector raised

Failed(r) == [r EXCEPT !.pc = "failed"]

DraftingInit ==
    /\ project \in Projects
    /\ open = {}
    /\ run = Idle

-----------------------------------------------------------------------------
(* cli/commands/ingest.py: which connections, which seams                   *)

\* The entries of a list at some of its places, in their order.
Keep(list, at) ==
    LET upTo[n \in 0..Len(list)] ==
          IF n = 0 THEN <<>>
          ELSE IF n \in at THEN Append(upTo[n - 1], list[n]) ELSE upTo[n - 1]
    IN  upTo[Len(list)]

HasCapability(c, cap) == \E i \in DOMAIN project.has[c] : project.has[c][i].cap = cap

\* _select_connections; the empty sequence is its error.
SelectConnections(bootstrap, named) ==
    CASE named # None -> Keep(project.conns, {i \in DOMAIN project.conns : project.conns[i] = named})
      [] named = None /\ bootstrap /\ project.conns # <<>> ->
           <<IF project.default \in ToSet(project.conns) THEN project.default
             ELSE project.conns[1]>>
      [] OTHER -> project.conns

\* _revalidate drops what does not fit its model.
Valid(e) == ~e.invalid

\* gather_evidence: one call per declared capability that has a seam.  A table
\* filter narrows introspection.
GatherCalls(c, caps, tables) ==
    LET calls == Keep(project.has[c], {i \in DOMAIN project.has[c] : project.has[c][i].cap \in caps})
        Asked(cap, e) == e.k = "schema" /\ cap = "introspect_schema"
                           => tables = None \/ e.rel \in tables
    IN  [i \in DOMAIN calls |->
           Keep(calls[i].items, {j \in DOMAIN calls[i].items :
             Valid(calls[i].items[j]) /\ Asked(calls[i].cap, calls[i].items[j])})]

\* Connectors are created one after the other, and make_drafter decides for the
\* whole run whether a model is asked.  Any of it may raise, and none of it is in
\* the try whose finally closes what was created.
Begin(pc, headless, created, held, plan) ==
    \/ \E n \in 0..Len(created) :
         /\ open' = {created[i] : i \in 1..n}
         /\ run' = [Failed(run) EXCEPT !.broken = TRUE]
    \/ /\ open' = ToSet(created)
       /\ run' = [Idle EXCEPT !.pc = pc, !.headless = headless, !.plan = plan,
                     !.held = held, !.spare = ToSet(created) \ ToSet(held)]

\* `canonic ingest [--connection c]`.
Ingest ==
    /\ run.pc = "idle"
    /\ \E headless \in BOOLEAN, named \in {None} \cup Conns :
         LET targets == SelectConnections(FALSE, named)
         IN  IF targets = <<>> THEN run' = Failed(run) /\ UNCHANGED open
             ELSE Begin("gather", headless, targets, targets,
                    FlattenSeq([i \in DOMAIN targets |->
                      GatherCalls(targets[i], Seams, project.filter[targets[i]])])
                    \o <<project.outcomes>>)
    /\ UNCHANGED project

\* `canonic ingest --bootstrap`: the schema of one connection, and the
\* definitions of all others; every other connector is created to see whether it
\* has any.
Bootstrap ==
    /\ run.pc = "idle"
    /\ \E headless \in BOOLEAN, named \in {None} \cup Conns :
         LET targets == SelectConnections(TRUE, named)
             others == Keep(project.conns, {i \in DOMAIN project.conns :
                         project.conns[i] # targets[1]})
             rest == Keep(project.conns, {i \in DOMAIN project.conns :
                       /\ project.conns[i] # targets[1]
                       /\ HasCapability(project.conns[i], "extract_definitions")})
         IN  IF targets = <<>> THEN run' = Failed(run) /\ UNCHANGED open
             ELSE Begin(IF HasCapability(targets[1], "introspect_schema") THEN "gather" ELSE "failed",
                    headless, <<targets[1]>> \o others, <<targets[1]>> \o rest,
                    GatherCalls(targets[1], {"introspect_schema"}, project.filter[targets[1]])
                    \o FlattenSeq([i \in DOMAIN rest |->
                         GatherCalls(rest[i], {"extract_definitions"}, None)]))
    /\ UNCHANGED project

\* `canonic ingest add-tables`: chosen tables that are not curated yet; a filter
\* the connection has is widened in canonic.yaml before the run.
AddTables ==
    /\ run.pc = "idle"
    /\ \E headless \in BOOLEAN, c \in ToSet(project.conns) :
         LET found == {e \in UNION {ToSet(project.has[c][i].items) : i \in DOMAIN project.has[c]} :
                         e.k = "schema" /\ e.conn = c}
             tables == {e.rel : e \in found} \ {s.name : s \in project.sources}
         IN  /\ HasCapability(c, "introspect_schema")
             /\ \E chosen \in (SUBSET tables) \ {{}} :
                  LET scope == IF project.filter[c] = None THEN chosen
                               ELSE project.filter[c] \cup chosen
                  IN  /\ project' = IF project.filter[c] = None THEN project
                                    ELSE [project EXCEPT !.filter[c] = scope]
                      /\ Begin("gather", headless, <<c>>, <<c>>,
                               GatherCalls(c, Seams, scope) \o <<project.outcomes>>)

\* _gather_evidence: a source that cannot be read fails the run.
Gather ==
    /\ run.pc = "gather" /\ run.plan # <<>>
    /\ \/ run' = [run EXCEPT !.plan = Tail(@), !.evidence = @ \o Head(run.plan)]
       \/ run' = Failed(run)
    /\ UNCHANGED <<project, open>>

Gathered ==
    /\ run.pc = "gather" /\ run.plan = <<>>
    /\ run' = [run EXCEPT !.pc = "place"]
    /\ UNCHANGED <<project, open>>

-----------------------------------------------------------------------------
(* ingestion/definitions.py: DefinitionIndex.resolve                        *)

SchemasOf(r) == {i \in DOMAIN run.evidence :
                   run.evidence[i].k = "schema" /\ run.evidence[i].rel = r}
Known(r) == SchemasOf(r) # {}
\* all_relations is keyed by the bare name, so the last schema of a name wins.
Checked(r) == CHOOSE i \in SchemasOf(r) : \A j \in SchemasOf(r) : j <= i
Schema(r) == run.evidence[Checked(r)]

Bucket(ix, r) ==
    IF \E i \in DOMAIN ix : ix[i].rel = r
    THEN ix[CHOOSE i \in DOMAIN ix : ix[i].rel = r]
    ELSE [rel |-> r, measures |-> <<>>, dims |-> <<>>, joins |-> <<>>,
          grain |-> {}, noted |-> FALSE]
PutBucket(ix, b) ==
    IF \E i \in DOMAIN ix : ix[i].rel = b.rel
    THEN [i \in DOMAIN ix |-> IF ix[i].rel = b.rel THEN b ELSE ix[i]]
    ELSE Append(ix, b)

Named(list, name) == \E i \in DOMAIN list : list[i].name = name
Conflicts(list, entry) == Named(list, entry.name) /\ entry \notin ToSet(list)
Adopt(list, entry) == IF Named(list, entry.name) THEN list ELSE Append(list, entry)

Placing == run.pc = "place" /\ run.at <= Len(run.evidence)
Placed(ix, unplaced) ==
    /\ run' = [run EXCEPT !.at = @ + 1, !.index = ix,
                 !.skipped = IF unplaced THEN @ \cup {run.at} ELSE @]
    /\ UNCHANGED <<project, open>>

SingleRelation(d) == Len(d.refs) = 1 /\ Known(d.refs[1])

\* _place_measure: an equal definition is the same one, a different one is
\* reported and noted for review.
PlaceMeasure ==
    LET d == run.evidence[run.at]
        b == Bucket(run.index, d.refs[1])
    IN  /\ Placing /\ d.k = "measure"
        /\ IF d.additivity = None \/ ~SingleRelation(d) THEN Placed(run.index, TRUE)
           ELSE Placed(PutBucket(run.index,
                         [b EXCEPT !.measures = Adopt(@, d.entry),
                                   !.noted = @ \/ Conflicts(b.measures, d.entry)
                                               \/ (d.flagged /\ ~Named(b.measures, d.entry.name))]),
                       Conflicts(b.measures, d.entry))

\* There is an expression, its columns, if it reads any, are on the relation, and
\* its type can be inferred from theirs.
Readable(d) == d.entry.cols \subseteq Schema(d.refs[1]).cols /\ d.typed

\* _place_dimension
PlaceDimension ==
    LET d == run.evidence[run.at]
        b == Bucket(run.index, d.refs[1])
    IN  /\ Placing /\ d.k = "dimension"
        /\ IF ~SingleRelation(d) THEN Placed(run.index, TRUE)
           ELSE IF ~Readable(d) THEN Placed(run.index, TRUE)
           ELSE Placed(PutBucket(run.index,
                         [b EXCEPT !.dims = Adopt(@, d.entry),
                                   !.noted = @ \/ Conflicts(b.dims, d.entry)]),
                       Conflicts(b.dims, d.entry))

\* Both relations of a join are known, on one connection, with its columns.
SpecOK(s) ==
    /\ Known(s.left) /\ Known(s.to)
    /\ Schema(s.left).conn = Schema(s.to).conn
    /\ s.col \in Schema(s.left).cols /\ s.ref \in Schema(s.to).cols

\* The specs of a join that state their predicate; the others are ignored.
Stated(d) == Keep(d.specs, {i \in DOMAIN d.specs : d.specs[i].on})

\* A fragment is the same one only with the same relationship.
PlaceSpec(ix, d, s) ==
    LET b == Bucket(ix, s.left)
        j == [to |-> s.to, col |-> s.col, ref |-> s.ref, kind |-> s.kind]
    IN  PutBucket(ix, [b EXCEPT !.joins = IF j \in ToSet(@) THEN @ ELSE Append(@, j),
                                !.noted = @ \/ d.flagged])

\* _place_join: specs are placed up to the first one that has a problem.
PlaceJoin ==
    LET d == run.evidence[run.at]
        specs == Stated(d)
        good == {n \in 0..Len(specs) : \A i \in 1..n : SpecOK(specs[i])}
        n == CHOOSE m \in good : \A k \in good : k <= m
        placed[i \in 0..n] == IF i = 0 THEN run.index ELSE PlaceSpec(placed[i - 1], d, specs[i])
    IN  /\ Placing /\ d.k = "join"
        /\ Placed(placed[n], n < Len(specs))

PlaceGrain(ix, d, r) ==
    LET b == Bucket(ix, r) IN PutBucket(ix, [b EXCEPT !.grain = IF @ = {} THEN d.grain ELSE @])

\* An entity's grain (the first one wins), a model's description: the relation
\* need not be in this run.
PlaceEntity ==
    LET d == run.evidence[run.at]
        placed[i \in 0..Len(d.refs)] ==
          IF i = 0 THEN run.index ELSE PlaceGrain(placed[i - 1], d, d.refs[i])
    IN  /\ Placing /\ d.k \in {"entity", "model"}
        /\ Placed(placed[Len(d.refs)], FALSE)

\* Anything else is no definition, or a candidate that waits for the others.
PassOver ==
    /\ Placing
    /\ run.evidence[run.at].k \notin {"measure", "dimension", "join", "entity", "model"}
    /\ Placed(run.index, FALSE)

AllPlaced ==
    /\ run.pc = "place" /\ run.at > Len(run.evidence)
    /\ run' = [run EXCEPT !.pc = "draft", !.at = 1]
    /\ UNCHANGED <<project, open>>

-----------------------------------------------------------------------------
(* ingestion/builder.py: ContextBuilder                                     *)

KeySuffixed(c) == Stem[c] # c

\* _infer_measures: a row count, and a total of every number that is no key.
InferMeasures(cols) ==
    SetToSeq({[name |-> "row_count", cols |-> {}, additive |-> TRUE, distinct |-> None]}
      \cup {[name |-> TotalOf[c], cols |-> {c}, additive |-> TRUE, distinct |-> None] :
              c \in {x \in cols : TypeOf[x] = "int" /\ ~KeySuffixed(x) /\ x # "id"}})

Inferred(c) == [name |-> c, cols |-> {c}, bare |-> TRUE, alias |-> None]
InferDimensions(cols) ==
    {Inferred(c) : c \in {x \in cols : \/ TypeOf[x] = "date"
                                       \/ TypeOf[x] = "string" /\ ~KeySuffixed(x)}}

\* A definition replaces the inferred dimension of its name or its column.
Dimensions(s, b) ==
    SetToSeq({d \in InferDimensions(s.cols) :
                /\ ~Named(b.dims, d.name)
                /\ ~\E i \in DOMAIN b.dims : b.dims[i].bare /\ d.cols = b.dims[i].cols})
    \o b.dims

\* The columns of the modelled joins that belong to this side.
JoinColumns(b) == {b.joins[i].col : i \in {j \in DOMAIN b.joins : b.joins[j].to # b.rel}}

\* Mutant: columns that a modelled join covers are offered to the model too.
CandidateColumns_Modelled(s, b) ==
    {c \in s.cols : KeySuffixed(c) /\ ~\E i \in DOMAIN s.fks : s.fks[i].col = c}

\* _join_candidate_columns: key-like columns no declared or modelled join covers.
CandidateColumns(s, b) ==
    {c \in s.cols : KeySuffixed(c) /\ ~\E i \in DOMAIN s.fks : s.fks[i].col = c}
      \ JoinColumns(b)

OtherRelations(s) ==
    {r \in {run.evidence[i].rel : i \in {j \in DOMAIN run.evidence : run.evidence[j].k = "schema"}} :
       r # s.rel /\ Schema(r).conn = s.conn}

\* _draft_schema_joins: an answer is never trusted blindly.
ValidGuesses(s, b, guesses) ==
    LET Trusted(g) == /\ g.conf >= 50
                      /\ g.col \in CandidateColumns(s, b)
                      /\ g.to \in OtherRelations(s)
                      /\ g.ref \in Schema(g.to).cols
        valid == Keep(guesses, {i \in DOMAIN guesses : Trusted(guesses[i])})
    IN  [i \in DOMAIN valid |-> [valid[i] EXCEPT !.conf = IF @ > 85 THEN 85 ELSE @]]

\* _build_joins: a modelled join replaces the foreign key it equals, and joins
\* that share a target are told apart by the stem of their column.
BuildJoins(s, guesses, modelled) ==
    LET Tag(list, by) == [i \in DOMAIN list |->
                            [to |-> list[i].to, col |-> list[i].col, ref |-> list[i].ref, by |-> by]]
        Modelled(fk) == \E i \in DOMAIN modelled :
                          /\ modelled[i].to = fk.to
                          /\ modelled[i].col = fk.col /\ modelled[i].ref = fk.ref
        all == Tag(Keep(s.fks, {i \in DOMAIN s.fks : ~Modelled(s.fks[i])}), "fk")
                 \o Tag(guesses, "llm") \o Tag(modelled, "model")
        shared(to) == \E i, j \in DOMAIN all : i # j /\ all[i].to = to /\ all[j].to = to
    IN  [i \in DOMAIN all |->
           [to |-> all[i].to, col |-> all[i].col, ref |-> all[i].ref, by |-> all[i].by,
            alias |-> IF shared(all[i].to) THEN Stem[all[i].col] ELSE all[i].to]]

Least(S) == CHOOSE x \in S : \A y \in S : x <= y

\* Mutant: a guessed join leaves the author and confidence of the draft.
Complete_AsDeclared(r, guesses) ==
    LET b == Bucket(r.index, r.draft.rel)
        s == r.evidence[r.at]
    IN  [r.draft EXCEPT
           !.conf = Least({@} \cup (IF b.noted THEN {50} ELSE {})),
           !.joins = BuildJoins(s, guesses, b.joins)]

\* The draft with its joins: a guess makes it the model's and lowers its
\* confidence, a review note caps it.
Complete(r, guesses) ==
    LET b == Bucket(r.index, r.draft.rel)
        s == r.evidence[r.at]
    IN  [r.draft EXCEPT
           !.by = IF guesses = <<>> THEN @ ELSE "llm",
           !.conf = Least({@} \cup {guesses[i].conf : i \in DOMAIN guesses}
                            \cup (IF b.noted THEN {50} ELSE {})),
           !.joins = BuildJoins(s, guesses, b.joins)]

Finished(r, guesses) ==
    [r EXCEPT !.pc = "draft", !.at = @ + 1, !.draft = None, !.tries = 0,
              !.drafts = Append(@, Complete(r, guesses))]

\* The model is asked for joins only if it can answer anything.
ToJoins(r) ==
    LET s == r.evidence[r.at]
    IN  IF CandidateColumns(s, Bucket(r.index, s.rel)) = {} \/ OtherRelations(s) = {}
        THEN Finished(r, <<>>)
        ELSE [r EXCEPT !.pc = "joins", !.tries = 0]

\* The prompt for labels reads the column of every dimension, and one that a
\* definition gives as an expression has none.
ToLabels(r) ==
    IF r.draft.dims = <<>> THEN ToJoins(r)
    ELSE IF ~r.headless /\ \E i \in DOMAIN r.draft.dims : ~r.draft.dims[i].bare
    THEN Failed(r)
    ELSE [r EXCEPT !.pc = "labels", !.tries = 0]

Building == run.pc = "draft" /\ run.at <= Len(run.evidence)

\* _build_relation_schema up to the first question to the model.
DraftRelation ==
    LET s == run.evidence[run.at]
        b == Bucket(run.index, s.rel)
        d == [rel |-> s.rel, conn |-> s.conn, from |-> run.at, cols |-> s.cols,
              grain |-> IF s.pk # {} THEN s.pk ELSE b.grain, asked |-> FALSE,
              measures |-> IF b.measures # <<>> THEN b.measures ELSE InferMeasures(s.cols),
              dims |-> Dimensions(s, b), joins |-> <<>>, by |-> "deterministic", conf |-> 100]
        r == [run EXCEPT !.draft = d, !.tries = 0]
    IN  /\ Building /\ s.k = "schema"
        /\ run' = IF d.grain # {} THEN ToLabels(r) ELSE [r EXCEPT !.pc = "grain"]
        /\ UNCHANGED <<project, open>>

\* Usage and outcome evidence become proposals of their own, prose a page draft;
\* an unknown kind, and prose no page can be drafted from, are reported.
BuildOther ==
    LET e == run.evidence[run.at]
    IN  /\ Building /\ e.k # "schema"
        /\ run' = [run EXCEPT !.at = @ + 1,
             !.others = CASE e.k = "usage" /\ e.role = "alternative" -> Append(@, "edit")
                          [] e.k = "usage" /\ e.role = "trusted_example" -> Append(@, "assertion")
                          [] e.k = "outcome" -> Append(@, "edit")
                          [] e.k = "doc" /\ e.usable -> Append(@, "page")
                          [] OTHER -> @,
             !.skipped = IF e.k = "unknown" \/ (e.k = "doc" /\ ~e.usable)
                         THEN @ \cup {run.at} ELSE @]
        /\ UNCHANGED <<project, open>>

AllDrafted ==
    /\ run.pc = "draft" /\ run.at > Len(run.evidence)
    /\ run' = [run EXCEPT !.pc = "candidates", !.at = 1]
    /\ UNCHANGED <<project, open>>

-----------------------------------------------------------------------------
(* runtime/generation.py and runtime/drafter.py: asking the model           *)

\* make_drafter: a headless run asks nobody.
Asking == run.pc \in {"grain", "labels", "joins"} /\ ~run.headless

\* A transport error is retried; when the attempts are used up the run fails.
AttemptFails ==
    /\ Asking
    /\ run' = IF run.tries < MaxRetries THEN [run EXCEPT !.tries = @ + 1] ELSE Failed(run)
    /\ UNCHANGED <<project, open>>

\* A refused request, an empty answer and one that does not parse are not.
AnswerUnusable ==
    /\ Asking
    /\ run' = Failed(run)
    /\ UNCHANGED <<project, open>>

\* NullLLMDrafter, of a headless run: an empty grain that nobody vouches for.
NullGrain == [grain |-> {}, conf |-> 30]

\* draft_grain: the confidence is capped, and none for an empty grain.
GrainAnswers ==
    IF run.headless THEN {NullGrain}
    ELSE {[grain |-> g, conf |-> IF g = {} THEN 0 ELSE Least({raw, 85})] :
            g \in Grains, raw \in {30, 100}}

AnswerGrain ==
    /\ run.pc = "grain"
    /\ \E a \in GrainAnswers :
         run' = ToLabels([run EXCEPT !.draft.grain = a.grain, !.draft.conf = a.conf,
                                     !.draft.by = "llm", !.draft.asked = TRUE])
    /\ UNCHANGED <<project, open>>

\* draft_dimension_labels: no aliases, or some for every dimension.
LabelAnswers ==
    IF run.headless THEN {{}}
    ELSE {{}, {run.draft.dims[i].name : i \in DOMAIN run.draft.dims}}

\* _enrich_dimensions: what a definition says of its dimension stays.
AnswerLabels ==
    /\ run.pc = "labels"
    /\ \E names \in LabelAnswers :
         LET Label(d) == IF d.name \in names /\ d.alias = None
                         THEN [d EXCEPT !.alias = "llm"] ELSE d
         IN  run' = ToJoins([run EXCEPT !.draft.dims =
                      [i \in DOMAIN @ |-> Label(run.draft.dims[i])]])
    /\ UNCHANGED <<project, open>>

\* draft_schema_joins
JoinAnswers == IF run.headless THEN {<<>>} ELSE BoundedSeq(JoinGuesses, MaxGuesses)

AnswerJoins ==
    /\ run.pc = "joins"
    /\ \E guesses \in JoinAnswers :
         LET s == run.evidence[run.at]
         IN  run' = Finished(run, ValidGuesses(s, Bucket(run.index, s.rel), guesses))
    /\ UNCHANGED <<project, open>>

-----------------------------------------------------------------------------
(* ingestion/candidates.py                                                  *)

\* measure_binding: the first bucket that holds the measure; an additive one is
\* bound as such, a count of distinct values of a column as that.
MeasureBinding(metric, name) ==
    LET at == {i \in DOMAIN run.index : Named(run.index[i].measures, name)}
        b == run.index[Least(at)]
        ms == b.measures
        m == ms[CHOOSE i \in DOMAIN ms : ms[i].name = name]
        P(kind, item) == [metric |-> metric, kind |-> kind, refs |-> {}, source |-> b.rel,
                          item |-> item, wants |-> {}]
    IN  CASE at = {} -> None
          [] at # {} /\ m.additive -> P("single", name)
          [] at # {} /\ ~m.additive /\ m.distinct # None -> P("distinct_count", m.distinct)
          [] OTHER -> None

\* What a candidate proposes: its binding, after those of its measures where it
\* needs them as metrics; nothing if it cannot be expressed.
Expressed(d) ==
    LET bind == [i \in DOMAIN d.measures |-> MeasureBinding(d.measures[i], d.measures[i])]
        composite == [metric |-> d.entity, kind |-> d.kind,
                      refs |-> ToSet(d.metrics) \cup ToSet(d.measures),
                      source |-> None, item |-> None, wants |-> d.wants]
        whole == d.kind \in {"offset", "derived"} \/ d.metrics # <<>>
        unbound == \E i \in DOMAIN bind : bind[i] = None
    IN  CASE whole -> <<composite>>
          [] ~whole /\ unbound -> <<>>
          [] ~whole /\ ~unbound /\ d.kind \in {"ratio", "conversion"} -> Append(bind, composite)
          [] ~whole /\ ~unbound /\ d.kind = "cumulative" ->
               IF bind[1].kind # "single" THEN <<>>
               ELSE <<[bind[1] EXCEPT !.metric = d.entity, !.kind = "cumulative",
                                      !.wants = d.wants]>>
          [] OTHER -> <<[bind[1] EXCEPT !.metric = d.entity]>>

\* build_candidate_proposals: the first proposal for a target wins.
FirstPerMetric(list) ==
    Keep(list, {i \in DOMAIN list : \A j \in 1..(i - 1) : list[j].metric # list[i].metric})

BuildCandidate ==
    LET d == run.evidence[run.at]
    IN  /\ run.pc = "candidates" /\ run.at <= Len(run.evidence)
        /\ run' = IF d.k # "candidate" THEN [run EXCEPT !.at = @ + 1]
                  ELSE [run EXCEPT !.at = @ + 1,
                          !.pending = FirstPerMetric(@ \o Expressed(d)),
                          !.skipped = IF Expressed(d) = <<>> THEN @ \cup {run.at} ELSE @]
        /\ UNCHANGED <<project, open>>

\* final_sources: the accepted sources, and the drafts the run will write.
\* Reconciliation writes a new source unless the run has another draft of it; one
\* it knows it may leave alone.
FinalSources(written) ==
    LET of(d) == [name |-> d.rel, cols |-> d.cols,
                  dims |-> {d.dims[i].name : i \in DOMAIN d.dims},
                  measures |-> {d.measures[i].name : i \in DOMAIN d.measures}]
        last(r) == CHOOSE i \in written : /\ run.drafts[i].rel = r
                                          /\ \A j \in written : run.drafts[j].rel = r => j <= i
        names == {run.drafts[i].rel : i \in written}
    IN  {x \in project.sources : x.name \notin names} \cup {of(run.drafts[last(r)]) : r \in names}

NewAndAlone(i) ==
    /\ run.drafts[i].rel \notin {x.name : x \in project.sources}
    /\ \A j \in DOMAIN run.drafts :
         (run.drafts[j].rel = run.drafts[i].rel /\ run.drafts[j].conn = run.drafts[i].conn)
           => i = j

\* Stage 1 ends and stage 2 decides about the relations.
Reconcile ==
    /\ run.pc = "candidates" /\ run.at > Len(run.evidence)
    /\ \E written \in SUBSET DOMAIN run.drafts :
         /\ \A i \in DOMAIN run.drafts : NewAndAlone(i) => i \in written
         /\ run' = [run EXCEPT !.pc = "resolve", !.sources = FinalSources(written),
                      !.offered = run.pending]
    /\ UNCHANGED <<project, open>>

\* _missing_reference finds nothing: the metrics are bound, and the source, its
\* measure, its column and the dimensions named will exist.
Grounded(p, bound) ==
    LET of == {x \in run.sources : x.name = p.source}
    IN  /\ p.refs \subseteq bound
        /\ p.kind \in {"single", "cumulative"} =>
             \E x \in of : p.item \in x.measures /\ p.wants \subseteq x.dims
        /\ p.kind = "distinct_count" => \E x \in of : p.item \in x.cols \cup x.dims
        /\ p.kind = "offset" => p.wants \subseteq UNION {x.dims : x \in run.sources}
        /\ p.kind = "conversion" =>
             p.wants \subseteq UNION {x.cols \cup x.dims : x \in run.sources}

Bound(added) == project.metrics \cup {added[i].metric : i \in DOMAIN added}

\* _waits_for_another
WaitsForAnother(p, list) ==
    \E i \in DOMAIN list : list[i].metric # p.metric /\ list[i].metric \in p.refs

\* A round of CandidateResolver.resolve: first those that wait for no other
\* candidate, and all of them once everyone waits.
NextRound ==
    LET waiting == {i \in DOMAIN run.pending : WaitsForAnother(run.pending[i], run.pending)}
        free == Keep(run.pending, DOMAIN run.pending \ waiting)
    IN  /\ run.pc = "resolve" /\ run.ready = <<>> /\ run.pending # <<>>
        /\ run' = IF free = <<>>
                  THEN [run EXCEPT !.ready = run.pending, !.pending = <<>>]
                  ELSE [run EXCEPT !.ready = free, !.pending = Keep(@, waiting)]
        /\ UNCHANGED <<project, open>>

\* _resolve_ready: a binding that exists is never changed, and a candidate with a
\* missing reference is not proposed.
DecideCandidate ==
    /\ run.pc = "resolve" /\ run.ready # <<>>
    /\ run' = [run EXCEPT !.ready = Tail(@),
         !.added = IF /\ Head(run.ready).metric \notin project.metrics
                      /\ Grounded(Head(run.ready), Bound(run.added))
                   THEN Append(@, Head(run.ready)) ELSE @]
    /\ UNCHANGED <<project, open>>

-----------------------------------------------------------------------------
(* semantic/models.py: what the validation gate asks of a draft             *)

Distinct(list, field) == \A i, j \in DOMAIN list : list[i][field] = list[j][field] => i = j
ValidSource(d) ==
    /\ Distinct(d.measures, "name") /\ Distinct(d.dims, "name") /\ Distinct(d.joins, "alias")
    /\ d.grain \subseteq d.cols
    /\ \A i \in DOMAIN d.dims : d.dims[i].cols \subseteq d.cols
    /\ \A i \in DOMAIN d.measures : d.measures[i].cols \subseteq d.cols

\* The gate sees one file per target, the last draft's, and names are unique in
\* the project.
Gate ==
    LET files == {i \in DOMAIN run.drafts : \A j \in DOMAIN run.drafts :
                    (run.drafts[j].rel = run.drafts[i].rel
                       /\ run.drafts[j].conn = run.drafts[i].conn) => j <= i}
        valid == /\ \A i \in files : ValidSource(run.drafts[i])
                 /\ \A i, j \in files : run.drafts[i].rel = run.drafts[j].rel => i = j
    IN  /\ run.pc = "resolve" /\ run.pending = <<>> /\ run.ready = <<>>
        /\ run' = [run EXCEPT !.pc = IF valid THEN "done" ELSE "failed"]
        /\ UNCHANGED <<project, open>>

\* Mutant: a failed run keeps its connectors.
Close_AfterSuccess ==
    /\ run.pc = "done" /\ run.held # <<>>
    /\ \/ open' = open \ {Head(run.held)} /\ run' = [run EXCEPT !.held = Tail(@)]
       \/ UNCHANGED open /\ run' = [Failed(run) EXCEPT !.held = <<>>, !.broken = TRUE]
    /\ UNCHANGED project

\* The finally of _ingest: one connector after the other, until an aclose raises,
\* which also takes the place of the run's result.
Close ==
    /\ run.pc \in {"done", "failed"} /\ run.held # <<>>
    /\ \/ open' = open \ {Head(run.held)} /\ run' = [run EXCEPT !.held = Tail(@)]
       \/ UNCHANGED open /\ run' = [Failed(run) EXCEPT !.held = <<>>, !.broken = TRUE]
    /\ UNCHANGED project

DraftingNext ==
    \/ Ingest \/ Bootstrap \/ AddTables \/ Gather \/ Gathered
    \/ PlaceMeasure \/ PlaceDimension \/ PlaceJoin \/ PlaceEntity \/ PassOver \/ AllPlaced
    \/ DraftRelation \/ BuildOther
    \/ AttemptFails \/ AnswerUnusable \/ AnswerGrain \/ AnswerLabels \/ AnswerJoins
    \/ AllDrafted \/ BuildCandidate \/ Reconcile \/ NextRound \/ DecideCandidate
    \/ Gate \/ Close

\* The command is one task that nothing else can hold up: connectors and the
\* model client answer or time out.
DraftingSpec == DraftingInit /\ [][DraftingNext]_draftingVars /\ WF_draftingVars(DraftingNext)

-----------------------------------------------------------------------------
(* Properties                                                               *)

\* A draft has columns, dimensions and joins of the project's names.
DraftingTypeOK ==
    /\ project.filter \in [Conns -> {None} \cup SUBSET Relations]
    /\ open \subseteq ToSet(project.conns)
    /\ run.pc \in {"idle", "gather", "place", "draft", "grain", "labels", "joins", "candidates",
                   "resolve", "done", "failed"}
    /\ run.tries \in 0..MaxRetries
    /\ run.skipped \subseteq DOMAIN run.evidence
    /\ \A i \in DOMAIN run.drafts : /\ run.drafts[i].cols \subseteq Columns
                                     /\ run.drafts[i].conf \in 0..100
                                     /\ run.drafts[i].by \in {"deterministic", "llm"}

\* The draft of the schema that definitions were checked against.
IsChecked(d) == d.from = Checked(d.rel)

\* Whatever definitions a relation is given, its draft has one dimension per name,
\* and every one reads columns the relation has: the inferred ones and the
\* definitions' never meet (builder.py, _build_relation_schema 412-418).
DimensionsAreSound ==
    \A i \in DOMAIN run.drafts :
      LET d == run.drafts[i]
      IN  IsChecked(d) => /\ Distinct(d.dims, "name")
                          /\ \A k \in DOMAIN d.dims : d.dims[k].cols \subseteq d.cols

\* A join nobody declared in the database relates columns that exist, of two
\* relations of one connection, and a guess never competes with a declared or a
\* modelled join for its column (builder.py, _draft_schema_joins; a join of a
\* relation to itself is the exception, as join_columns skips it).
JoinsAreGrounded ==
    \A i \in DOMAIN run.drafts :
      LET d == run.drafts[i]
      IN  IsChecked(d) =>
            \A k \in DOMAIN d.joins :
              LET j == d.joins[k]
              IN  /\ j.by # "fk" => /\ j.col \in d.cols
                                    /\ Known(j.to) /\ j.ref \in Schema(j.to).cols
                                    /\ Schema(j.to).conn = d.conn
                  /\ j.by = "llm" =>
                       \A m \in DOMAIN d.joins :
                         d.joins[m].by # "llm" /\ d.joins[m].to # d.rel
                           => d.joins[m].col # j.col

WellFormed(e, r) ==
    /\ e.k \in {"measure", "dimension"} /\ e.refs = <<r>>
    /\ e.k = "measure" => e.additivity # None
    /\ e.k = "dimension" => e.entry.cols \subseteq Schema(r).cols /\ e.typed
Rival(e, f) == e.k = f.k /\ e.entry.name = f.entry.name
Disputed(r) ==
    \E i, j \in DOMAIN run.evidence :
      LET e == run.evidence[i]  f == run.evidence[j]
      IN  WellFormed(e, r) /\ WellFormed(f, r) /\ Rival(e, f) /\ e.entry # f.entry
FlaggedMeasure(r) ==
    \E i \in DOMAIN run.evidence :
      LET e == run.evidence[i]
      IN  /\ WellFormed(e, r) /\ e.k = "measure" /\ e.flagged
          /\ \A j \in 1..(i - 1) : WellFormed(run.evidence[j], r) => ~Rival(e, run.evidence[j])
\* A spec of a join that is placed: it and those before it have no problem.
JoinsFrom(d, r) ==
    \E k \in DOMAIN Stated(d) : /\ Stated(d)[k].left = r
                                /\ \A l \in 1..k : SpecOK(Stated(d)[l])
FlaggedJoin(r) ==
    \E i \in DOMAIN run.evidence :
      LET e == run.evidence[i] IN e.k = "join" /\ e.flagged /\ JoinsFrom(e, r)

\* A draft that a first bootstrap would write on its own (deterministic, full
\* confidence) has no guessed grain, no guessed join, no measure or dimension that
\* is disputed, and no measure or join that is flagged for review (pipeline.py,
\* first_run_auto_acceptable; of equal measures only the flags of the first count).
\* It may hold aliases the model drafted: _enrich_dimensions leaves the draft's
\* author and confidence as they are (builder.py 682-707).
SelfAppliedIsDeclared ==
    \A i \in DOMAIN run.drafts :
      LET d == run.drafts[i]
      IN  (d.by = "deterministic" /\ d.conf = 100) =>
            /\ ~d.asked
            /\ \A k \in DOMAIN d.joins : d.joins[k].by # "llm"
            /\ ~Disputed(d.rel) /\ ~FlaggedMeasure(d.rel) /\ ~FlaggedJoin(d.rel)

\* No definition is lost: one that speaks of a measure or a dimension is on every
\* draft of its relation as it was written, or reported as skipped
\* (definitions.py, resolve; builder.py 407-418).
DefinitionsAreAccounted ==
    \A i \in DOMAIN run.drafts, k \in DOMAIN run.evidence :
      LET d == run.drafts[i]
          e == run.evidence[k]
      IN  (e.k \in {"measure", "dimension"} /\ k \notin run.skipped /\ e.refs = <<d.rel>>) =>
            \/ e.k = "measure" /\ e.entry \in ToSet(d.measures)
            \/ e.k = "dimension" /\ \E m \in DOMAIN d.dims :
                                      [d.dims[m] EXCEPT !.alias = e.entry.alias] = e.entry

Offered == ToSet(run.offered)

\* What can be bound in n rounds, by definition.
Bindable[n \in 0..Len(run.offered)] ==
    IF n = 0 THEN {}
    ELSE {p \in Offered : p.metric \notin project.metrics
            /\ Grounded(p, project.metrics \cup {q.metric : q \in Bindable[n - 1]})}

\* No candidate is its own support, through any number of others.
Acyclic ==
    ~\E S \in (SUBSET Offered) \ {{}} : \A p \in S : \E q \in S : q.metric \in p.refs

\* The candidates proposed as bindings are exactly those whose references can be
\* bound, one from another; where candidates refer to each other in a circle, no
\* more than those (candidates.py, CandidateResolver.resolve).
CandidatesAreGrounded ==
    (run.pc \in {"done", "resolve"} /\ run.pending = <<>> /\ run.ready = <<>>) =>
      LET all == Bindable[Len(run.offered)]
      IN  /\ ToSet(run.added) \subseteq all
          /\ Acyclic => ToSet(run.added) = all

\* A run ends, however often the model fails and wherever it fails, and has closed
\* every connector of its dict, unless creating or closing one raised; what a
\* bootstrap created only for its capabilities stays open (generation.py, generate;
\* ingest.py 384-431).
IngestEnds ==
    <>[](/\ run.pc \in {"done", "failed"} /\ run.held = <<>>
         /\ run.broken \/ open = run.spare)

\* A draft says what the evidence says: no dimension, join or binding without its
\* columns and references, and no measure or dimension dropped silently (builder.py,
\* definitions.py, candidates.py; a join that states no predicate is).
DraftsAreGrounded ==
    /\ DraftingTypeOK
    /\ DimensionsAreSound
    /\ JoinsAreGrounded
    /\ DefinitionsAreAccounted
    /\ CandidatesAreGrounded
==============================================================================
