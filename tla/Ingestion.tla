------------------------------ MODULE Ingestion ------------------------------
(***************************************************************************)
(* `canonic ingest` end to end: evidence is gathered, reconciled against   *)
(* the accepted files, optionally refined by a model, validated, persisted *)
(* as a pending run and partly applied, while people resolve earlier runs  *)
(* and edit files.  The decisions are those of Reconciliation; review and  *)
(* apply are one atomic step per proposal here (PendingRuns splits them).  *)
(***************************************************************************)
EXTENDS Reconciliation, FiniteSets

CONSTANTS
    Projects     \* the projects a run may be about:
                 \*   tree: the context files it starts with
                 \*   items: everything its sources may ever state, as proposals
                 \*   autoApply: whether auto-apply is enabled
                 \*   bootstrap: whether `ingest --bootstrap` is used
                 \*   maxRuns: bound on persisted runs

\* What a proposal of each kind is about.
KindTargets(kind) ==
    CASE kind = "draft" -> Sources
      [] kind \in {"deprecated", "outcome", "candidate"} -> Bindings
      [] kind = "example" -> Assertions

\* Every draft has a schema fingerprint, which covers its column types.
ASSUME IngestionAssumption ==
    \A p \in Projects :
        /\ p.tree \in [Targets -> Facts]
        /\ p.items \subseteq Proposals
        /\ p.autoApply \in BOOLEAN /\ p.bootstrap \in BOOLEAN
        /\ p.maxRuns \in Nat
        /\ IsFiniteSet(p.items)
        /\ \A i \in p.items : i.target \in KindTargets(i.kind)
        /\ \A i, j \in p.items : i.kind = "draft" /\ j.kind = "draft" =>
             i.fp # 0 /\ (i.fp = j.fp => i.types = j.types)

VARIABLES
    world,   \* what the sources state now
    files,   \* the accepted context files
    runs,    \* .canonic/pending-diffs, oldest first
    job,     \* the ingest process
    wrote,   \* history: the run whose diff a file was last written from
    settled  \* history: the evidence behind a file nobody touched since

vars == <<project, world, files, runs, job, wrote, settled>>

Idle ==
    [pc |-> "idle", first |-> FALSE, ps |-> <<>>, entries |-> {},
     refined |-> {}, store |-> [t \in Targets |-> Absent]]

\* build_candidate_proposals: one candidate per binding, the first one stated.
Candidates(items) ==
    LET stated == {i \in items : i.kind = "candidate"} IN
    {CHOOSE i \in stated : i.target = t : t \in {i.target : i \in stated}}

\* Candidate proposals are appended after all others.
Build(items) ==
    SetToSeq({i \in items : i.kind # "candidate"}) \o SetToSeq(Candidates(items))

EvidenceFor(t, ps) == {ps[i] : i \in {j \in DOMAIN ps : ps[j].target = t}}

Init ==
    /\ project \in Projects
    /\ world = {}
    /\ files = project.tree
    /\ runs = <<>>
    /\ job = Idle
    /\ wrote = [t \in Targets |-> 0]
    /\ settled = [t \in Targets |-> {}]

-----------------------------------------------------------------------------
(* The sources and the people                                               *)

\* A connector states one version of a relation, so a new one replaces it.
\* Only gathering reads the sources, so a change during a run is the same as
\* one after it, and is left to the idle state.
ChangeWorld ==
    /\ job.pc = "idle"
    /\ \E i \in project.items :
         LET rivals == {j \in project.items : /\ j.target = i.target /\ j.kind = i.kind
                                      /\ j.modeling = i.modeling /\ j.scope = i.scope}
         IN  world' = IF i \in world THEN world \ {i} ELSE (world \ rivals) \cup {i}
    /\ UNCHANGED <<project, files, runs, job, wrote, settled>>

\* Editing a file by hand: the freeze marker of a source, a new binding, the
\* expected values of an assertion.
HandEdit ==
    /\ \E t \in Targets :
         /\ \/ /\ t \in Sources /\ files[t].on /\ ~files[t].frozen
               /\ files' = [files EXCEPT ![t].frozen = TRUE]
            \/ /\ t \in Bindings /\ ~files[t].on /\ MeasureExists(t, files[BoundTo[t]])
               /\ files' = [files EXCEPT ![t] =
                    [Absent EXCEPT !.on = TRUE, !.prov = "human_curated", !.human = TRUE]]
            \/ /\ t \in Assertions /\ files[t].on /\ ~files[t].human
               /\ files' = [files EXCEPT ![t].human = TRUE]
         /\ settled' = [settled EXCEPT ![t] = {}]
         /\ wrote' = [wrote EXCEPT ![t] = IF t \in Bindings THEN 0 ELSE @]
    /\ UNCHANGED <<project, world, runs, job>>

\* apply_entry with the answers a, f, c: semantic sources take both markers,
\* metric bindings only curate, a prune takes none.
Annotated(t, after, answer) ==
    [after EXCEPT
       !.frozen = @ \/ (answer = "frozen" /\ after.on /\ t \in Sources),
       !.prov = IF answer = "curated" /\ after.on /\ t \notin Assertions
                THEN "human_curated" ELSE @]

\* One pending proposal of any run is resolved by review or apply.
Resolve ==
    /\ \E k \in DOMAIN runs : \E d \in runs[k].diffs,
          answer \in {"accepted", "rejected", "frozen", "curated"} :
         /\ runs[k].status[d] = "pending"
         /\ runs' = [runs EXCEPT ![k].status[d] = answer]
         /\ IF answer = "rejected"
            THEN UNCHANGED <<project, files, wrote, settled>>
            ELSE /\ files' = [files EXCEPT ![d.target] = Annotated(d.target, d.after, answer)]
                 /\ wrote' = [wrote EXCEPT ![d.target] = k]
                 /\ settled' = [settled EXCEPT ![d.target] = EvidenceFor(d.target, runs[k].ps)]
    /\ UNCHANGED <<project, world, job>>

-----------------------------------------------------------------------------
(* IngestionPipeline.run and .bootstrap                                     *)

\* Evidence of every connection, or of one (--connection, add-tables).
Gather ==
    /\ job.pc = "idle"
    /\ \E scope \in {0} \cup {i.scope : i \in project.items} :
         job' = [Idle EXCEPT !.pc = "gathered",
                   !.ps = Build({i \in world : scope \in {0, i.scope}})]
    /\ UNCHANGED <<project, world, files, runs, wrote, settled>>

\* bootstrap: schema and definitions only, and the emptiness check comes first.
GatherBootstrap ==
    /\ project.bootstrap
    /\ job.pc = "idle"
    /\ job' = [Idle EXCEPT !.pc = "gathered",
                 !.first = \A t \in Sources \cup Bindings : ~files[t].on,
                 !.ps = Build({i \in world : i.kind \in {"draft", "candidate"}})]
    /\ UNCHANGED <<project, world, files, runs, wrote, settled>>

\* The accepted store is read whole, once: what happens to the files afterwards
\* is not seen by the decisions.
ReconcileStep ==
    /\ job.pc = "gathered"
    /\ job' = [job EXCEPT !.pc = "reconciled", !.store = files,
                          !.entries = Reconcile(job.ps, files)]
    /\ UNCHANGED <<project, world, files, runs, wrote, settled>>

\* draft_resolution: the model picks one of the proposals for a contested target.
Winners ==
    {i \in DOMAIN job.ps : /\ job.ps[i].target \in Contested(job.entries)
                           /\ job.ps[i].kind # "candidate"}

\* The model is not asked in a headless run and may abstain, so the step is
\* optional.  It is decided against the store the run loaded.
RefineStep ==
    /\ job.pc = "reconciled"
    /\ \E i \in Winners :
         job' = [job EXCEPT !.entries = Refine(job.entries, job.ps[i], job.store),
                            !.refined = @ \cup {job.ps[i].target}]
    /\ UNCHANGED <<project, world, files, runs, wrote, settled>>

\* ValidationGate.validate over the tree as it is on disk now.
Validate ==
    /\ job.pc = "reconciled"
    /\ job' = IF GatePasses(job.ps, files) THEN [job EXCEPT !.pc = "valid"]
                                           ELSE [job EXCEPT !.pc = "refused"]
    /\ UNCHANGED <<project, world, files, runs, wrote, settled>>

\* Mutant: what the run applies itself is not recorded.
PersistManual ==
    /\ job.pc = "valid"
    /\ Len(runs) < project.maxRuns
    /\ LET manual == {d \in Diffs(job.entries) : ~d.auto} IN
       runs' = Append(runs, [diffs |-> manual, ps |-> job.ps,
                             refined |-> job.refined,
                             status |-> [d \in manual |-> "pending"]])
    /\ job' = [job EXCEPT !.pc = "persisted"]
    /\ UNCHANGED <<project, world, files, wrote, settled>>

\* PendingDiffStore.write: every diff pending, the auto-applied ones too.
Persist ==
    /\ job.pc = "valid"
    /\ Len(runs) < project.maxRuns
    /\ runs' = Append(runs, [diffs |-> Diffs(job.entries), ps |-> job.ps,
                             refined |-> job.refined,
                             status |-> [d \in Diffs(job.entries) |-> "pending"]])
    /\ job' = [job EXCEPT !.pc = "persisted"]
    /\ UNCHANGED <<project, world, files, wrote, settled>>

\* _refresh_no_ops: an unchanged source without a definition fingerprint takes
\* the proposal's as its baseline.
Refresh ==
    /\ job.pc = "persisted"
    /\ files' = [t \in Targets |->
         LET fresh == {e \in job.entries : /\ e.target = t /\ e.decision = "no_op"
                                           /\ t \in Sources /\ files[t].on
                                           /\ files[t].def = 0 /\ e.def # 0}
         IN  IF fresh = {} THEN files[t]
             ELSE [files[t] EXCEPT !.def = (CHOOSE e \in fresh : TRUE).def]]
    /\ job' = [job EXCEPT !.pc = "refreshed"]
    /\ UNCHANGED <<project, world, runs, wrote, settled>>

\* The diffs the run itself writes: auto-apply, and on a first bootstrap the
\* deterministic additions.
SelfApplied ==
    {d \in Diffs(job.entries) :
       \/ d.auto
       \/ job.first /\ d.decision = "add" /\ ~d.llm /\ d.conf = 10}

WriteSelfApplied ==
    /\ job.pc = "refreshed"
    /\ LET written == {d.target : d \in SelfApplied} IN
       /\ files' = WriteDiffs(SelfApplied, files)
       /\ wrote' = [t \in Targets |-> IF t \in written THEN Len(runs) ELSE wrote[t]]
       /\ settled' = [t \in Targets |-> IF t \in written THEN EvidenceFor(t, job.ps)
                                                         ELSE settled[t]]
    /\ job' = Idle
    /\ UNCHANGED <<project, world, runs>>

\* The error is reported, or the process dies.
EndIngest ==
    /\ job.pc # "idle"
    /\ job' = Idle
    /\ UNCHANGED <<project, world, files, runs, wrote, settled>>

Next ==
    \/ ChangeWorld \/ HandEdit \/ Resolve
    \/ Gather \/ GatherBootstrap \/ ReconcileStep \/ RefineStep \/ Validate
    \/ Persist \/ Refresh \/ WriteSelfApplied \/ EndIngest

Spec == Init /\ [][Next]_vars
-----------------------------------------------------------------------------
(* Properties                                                               *)

Entries ==
    [decision : {"add", "edit", "prune", "no_op", "contradiction"},
     target : Targets, kind : Kinds, base : Facts, after : Facts,
     auto : BOOLEAN, llm : BOOLEAN, conf : 0..10, fp : Nat, def : Nat]

\* The types of the evidence, the files, the pending runs and the process.
TypeOK ==
    /\ world \subseteq project.items
    /\ files \in [Targets -> Facts]
    /\ \A k \in DOMAIN runs :
         /\ runs[k].diffs \subseteq Entries
         /\ runs[k].ps \in Seq(project.items) /\ runs[k].refined \subseteq Targets
         /\ runs[k].status \in
              [runs[k].diffs -> {"pending", "accepted", "rejected", "frozen", "curated"}]
    /\ job.pc \in {"idle", "gathered", "reconciled", "refused", "valid",
                   "persisted", "refreshed"}
    /\ job.first \in BOOLEAN
    /\ job.ps \in Seq(project.items) /\ job.entries \subseteq Entries
    /\ job.refined \subseteq Targets /\ job.store \in [Targets -> Facts]
    /\ wrote \in [Targets -> 0..project.maxRuns]
    /\ settled \in [Targets -> SUBSET project.items]

\* No run proposes to edit or remove a fact that was frozen when it was read,
\* nor one of a higher tier, whatever the group, the candidates and the model
\* decided.  The additive deprecated-alternative merge is the exception the
\* code makes for the tier.  Nothing is read again before a run writes, so a
\* diff may stand against a file that is protected by then; but only when
\* somebody changed the file after the run had loaded it.
ProtectedNeverProposed ==
    /\ \A d \in Diffs(job.entries) \cup UNION {runs[k].diffs : k \in DOMAIN runs} :
         d.decision \in {"edit", "prune"} =>
             /\ ~d.base.frozen
             /\ d.kind # "deprecated" => d.base.prov = "inferred"
    /\ \A d \in Diffs(job.entries) :
         LET fact == files[d.target] IN
         (/\ d.target \notin Assertions /\ fact.on
          /\ fact.frozen \/ (d.kind # "deprecated" /\ fact.prov # "inferred")) =>
             fact # job.store[d.target]

\* What a proposal wrote is always on record: the run of a file's last write
\* was persisted before the write, and holds the diff the file came from.
EveryWriteWasProposed ==
    \A t \in Targets : wrote[t] # 0 =>
        /\ wrote[t] \in DOMAIN runs
        /\ \E d \in runs[wrote[t]].diffs :
             /\ d.target = t
             /\ files[t].on = d.after.on
             /\ files[t].fp = d.after.fp /\ files[t].struct = d.after.struct

\* A run has at most one diff per target, so the order in which a reviewer
\* applies it does not matter.  One combination escapes the engine: a
\* deprecated alternative of a metric nobody bound, decided with its group, and
\* a candidate for the same metric, decided apart, are both added.
OneDiffPerTarget ==
    \A k \in DOMAIN runs : \A d, e \in runs[k].diffs :
        d.target = e.target => d = e \/ {d.kind, e.kind} = {"deprecated", "candidate"}

\* Unless the model was asked, no side of a disagreement silently wins: when a
\* run changes a source, all the evidence of the highest curation rank agreed,
\* and nothing of a lower rank states other column types.
NoSilentWinner ==
    \A k \in DOMAIN runs : \A d \in runs[k].diffs :
        (/\ d.decision \in {"add", "edit"} /\ d.kind = "draft"
         /\ d.target \notin runs[k].refined) =>
            LET said == EvidenceFor(d.target, runs[k].ps)
                top == {p \in said : \A q \in said : CurationRank(q) <= CurationRank(p)}
            IN  /\ \A p, q \in top : Signature(p) = Signature(q)
                /\ \A p \in top, q \in said \ top :
                     p.types = 0 \/ q.types = 0 \/ p.types = q.types

\* A source written from some evidence and left alone is not proposed again as
\* long as the evidence for it stays the same: a run that is persisted has no
\* diff for it.  Two ways round are left: the file changed while the run was
\* under way, and the model chose between proposals that disagree.
QuietAfterApply ==
    [][Len(runs') > Len(runs) =>
         \A d \in runs'[Len(runs')].diffs :
            (/\ d.target \in Sources \ job.refined /\ settled[d.target] # {}
             /\ files[d.target] = job.store[d.target]) =>
                settled[d.target] # EvidenceFor(d.target, job.ps)]_vars

\* Propose-only: unless auto-apply is on or a first bootstrap runs, an ingest
\* changes nothing about an accepted file but its freshness baseline.
ProposeOnly ==
    [][(job.pc # "idle" /\ job' # job /\ ~project.autoApply /\ ~job.first) =>
         \A t \in Targets : files' # files =>
            files'[t] = [files[t] EXCEPT !.def = files'[t].def]]_vars

\* Every run, pending or in progress, has the shape its readers rely on, and a
\* reviewer may resolve its diffs in any order (emitter.py, reconciliation.py).
RunsAreWellFormed ==
    /\ TypeOK
    /\ OneDiffPerTarget

\* An ingest disturbs nothing that is settled: it repeats no proposal that was
\* taken, and writes no file it was not allowed to (pipeline.py, run; reconciliation.py).
IngestIsQuiet ==
    /\ QuietAfterApply
    /\ ProposeOnly
=============================================================================
