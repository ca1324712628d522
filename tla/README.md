# Formal models of canonic

canonic keeps a *context layer* for agents that query a warehouse: YAML files under
`semantics/` and `contracts/` and Markdown under `knowledge/`, committed to git. `canonic setup`
creates a project, `canonic ingest` drafts changes to its files from what connectors report,
people resolve the drafts with `canonic review` and `canonic apply`, and an MCP daemon compiles
questions to SQL and answers them from the accepted files. This directory holds TLA+ models of
`src/canonic/`, the TLC runs that check them, and TLAPS proofs of what holds for every instance.

## Inventory

| Part | State it keeps | Operations | What makes it correct | Modules |
| --- | --- | --- | --- | --- |
| Pending-diff store (`ingestion/pending.py`), `review`, `apply`, `gc` (`cli/commands`) | `.canonic/pending-diffs/<run>/`; the list a session loaded | write, load, update status, expire; a/r/s/f/c/q per proposal | one writer per run; a recorded decision was carried out and stays; nothing unreviewed removed | `PendingRuns` |
| Reconciliation, gate, pipeline (`ingestion/reconciliation.py`, `validation.py`, `pipeline.py`, `emitter.py`) | one run in memory, audit trail | decide, merge, prune, refine, validate, persist, auto-apply | facts protected when a run reads them are not proposed against; no side wins silently; unchanged evidence is quiet | `Reconciliation`, `Ingestion` |
| Evidence, builder, candidates, model runtime (`ingestion/source.py`, `definitions.py`, `builder.py`, `candidates.py`, `runtime/`) | evidence and drafts of a run, open connectors | select connections, gather, place definitions, infer, ask the model, resolve candidates | drafts are grounded, no guessed grain or join is applied unseen, the run ends | `Drafting` |
| Knowledge pages (`ingestion/page_drafts.py`, `page_refs.py`, `knowledge/`, `core/knowledge.py`) | pages, memo, vector cache | draft, check references, restamp, search, read, walk | references resolve, caches are current, a user sees what is theirs and shared | `Retrieval`, `Knowledge` |
| Event log (`instrumentation/`) | active file and rotated segments | append, rotate, expire, read | no event lost, durable events in order | `EventLog` |
| Feedback, trust (`feedback/`, `trust/`) | folds over the event log, `.canonic/assertions.json` | outcome history, verdicts, score | a mark counts for the last answer to its query, whatever was rotated and pruned; the worst signal dominates | `Feedback`, `Trust` |
| MCP daemon (`mcp/daemon.py`, `cli/commands/mcp.py`) | state file, port, process | start, stop, status, stdio | one daemon, and it can be found | `Daemon` |
| Reloader, service, query serving (`core/project.py`, `context.py`, `query.py`, `reports.py`, `service.py`) | loaded project, its signature, last failure, pinned states | load, reload, serve, record | a request sees one state that was valid; the service knows where it stands | `Serving`, `ServedSnapshot` |
| Credentials (`credentials.py`, `connectors/redshift.py`) | cached secret and its expiry | refresh, inject | a dead secret opens no connection | `Credentials` |
| Contracts (`contracts/`) | bindings, guardrails, roles, tenancy, finality | validate, resolve, authorize | what is accepted resolves; a role never widens | `Contracts` |
| Compiler (`compiler/`, `semantic/duration.py`) | none | plan joins and leaves, fuse, compose | no fan-out, every scan scoped, values mean what the metric says | `SemanticGraph`, `Compiler`, `Calendar`, `Answers` |
| Decompose (`core/decompose*.py`), assertion harness | one request; verdicts | overall, split, merge trust, record | parts add up to the change; the tier is earned | `Decompose` |
| Setup, packs, contract generation, connections (`cli/commands/setup.py`, `connection.py`, `packs/`, `contracts/bootstrap.py`) | `canonic.yaml`, checkpoint, installed files | every prompt, install, upgrade, generate | answers survive, installs are whole, nothing is overwritten | `ProjectSetup` |
| Auto-PR, drivers of the connectors, evaluation harness | external | I/O | not modelled | |

The parts meet in files. Ingest writes runs, review and apply turn them into context files, the
next ingest reads those back, the daemon's reloader watches them, the daemon writes the event
log, and feedback and trust are computed from it. No lock covers the context files or the pending
runs, every command is its own process, and any of them can be killed. That is where the hard
behaviours are: two commands on one run, a crash between two writes, a file that changes between
the read a decision was based on and the write it leads to, and long sequences of ingests, answers
and hand edits. The compiler is hard for another reason: it is sequential, but NULL keys, ties,
month ends, fan-out and watermarks meet in combinations nobody lists by hand. `PROJECT.json` lists
these hazards at their lines with the properties aimed at them.

## Modules

Control is kept and data abstracted: a fingerprint, a text or a definition is a number, SQL is the
set of rows it selects, and a file is what its readers tell apart. Operators commented *Mutant* are
plausible slips in the definition that follows; each makes one property fail. `MC*` modules give
the constants values.

**`PendingRuns`** models the store and its three users. Each file operation is an action, so that
every other process, and a crash, can come between any two. The directory of a run is a pair of
the second it was named after and the collision suffix; a proposal is its number, with its target
and operation as constants; a target is a semantic source, a metric binding or another file, which
decides the markers it can carry. `status.yaml` is missing, torn (opened for writing) or a list.
`session` is a review or apply process with the list it loaded; `done` is a history variable, the
file work that finished.

| Code | Actions |
| --- | --- |
| `PendingDiffStore.write`, `_unique_run_dir` | `UniqueRunDir`, `MakeRunDir`, `Collide`, `WriteReport`, `WriteStatus` |
| `review` | `OpenReview`, `Show`, `Accept`, `Reject`, `Postpone`, `LeaveSession` |
| `apply` | `OpenApply`, `SkipProposal`, `Accept`, `FinishApply` |
| `apply_entry`, `write_emitted_diffs` | `WriteContent`, `Annotate` |
| `update_status` | `TruncateStatus`, `StoreStatus` |
| `gc`, `expired_pending_runs` | `GcScan`, `GcUnlink`, `GcRmdir` |
| a killed process | `CrashIngest`, `CrashSession`, `GcCrash` |

**`Reconciliation`** holds the engine as operators: authority tiers, curation rank, fingerprint
equality, the auto-apply policy, the decision table (`ReconcileOne`), disagreeing groups
(`ResolveGroup`), candidates, prunes, the model's refinement, the tree the gate validates and
the diffs that are emitted. Every proposal the code builds is `inferred`, so the proposal's
provenance is not a field. A run's proposals are a sequence in the order in which they were gathered,
a group is the set of indexes of one relation, and each binding gets one candidate. Every draft has
a schema fingerprint that covers the types of its columns (`compute_fingerprint`), which
`IngestionAssumption` states.

**`Ingestion`** composes it with the world: `world` is what the connectors would report, as
proposals; `files` the accepted context; `runs` the pending runs; `job` the ingest in progress,
one action per stage (`Gather` or `GatherBootstrap`, `ReconcileStep`, `RefineStep`, `Validate`,
`Persist`, `Refresh`, `WriteSelfApplied`; `EndIngest` is an error or a kill at any point).
`ReconcileStep` loads the accepted store, once, into `job.store`; the model's choices are decided against
that copy too, while the gate, the refresh and the writes meet the files as they are by then.
`HandEdit` and `Resolve` interleave with every stage; `ChangeWorld` happens between runs, which
loses nothing since only gathering reads the sources. `Resolve` is one atomic answer here, since
`PendingRuns` takes it apart. `wrote` and `settled` are history variables: the run a file was last
written from, and the evidence it was written from while nobody touched it since.

**`Drafting`** is the front half of an ingest: which connections a run opens and what they deliver
(`Ingest`, `Bootstrap`, `AddTables`, `Gather`), the definitions placed on relations (`PlaceMeasure`,
`PlaceDimension`, `PlaceJoin`, `PlaceEntity`), drafts built from keys, names and types
(`DraftRelation`), the model that fills the gaps and may fail (`AttemptFails`, `AnswerUnusable`,
`AnswerGrain`, `AnswerLabels`, `AnswerJoins`), candidates resolved against each other
(`BuildCandidate`, `NextRound`, `DecideCandidate`), the gate, and closing the connectors. Connectors are
created one by one (`Begin`), which may raise before the `try` that closes them; those that a bootstrap
creates only to see what they can do are `run.spare`; `Close` takes them one by one until one raises.

**`Retrieval`** holds what a request sees of the pages: scopes and tags, the page that
a search shows for a name, collapsing a user's page into the shared one, reading by slug, walking
references and `[[links]]`, links of an entity, staleness. What the arms of a search find, and the order
their ranks put it into, are inputs. The clock ticks by parts of a day. **`Knowledge`** is the life
of the pages: written and deleted by people, drafted, checked and restamped by runs (`Emit`,
`Persist`), accepted or rejected, and read by serving processes through the memo (`LookupStat`,
`LookupLoad`) and the vector cache they share (`Serve`).

**`EventLog`** models `.canonic/events.jsonl`: writers that build an event, take the lock, rotate if
their own policy says so and append (`Create`, `Lock`, `CopyOut`, `ReplaceSegment`,
`ReplaceActive`, `Retain`, `WriteLine`), `canonic gc` (`GcScan`, `GcUnlink`) and a reader without
the lock (`ListPaths`, `ReadSegment`, `FailRead`, `ReadActive`, `ReadOutcomes`). The daemon has
the configured policy, most commands the defaults, so one log has writers that disagree about
limits and compression. A line has size one. The rotated files are a set, ordered by the stamp in
their names, and `OfKinds` keeps the lines of some kinds in their order. `retention_days` may cut off any number of the oldest
files. A reader of an unfinished segment sees any part of it, or fails if it is gzipped. `recorded`
and `dropped` are history: the events whose append returned, and those whose last file was removed.
A kill loses the event in hand; a torn line is not modelled, since a line is written by one call.
**`Feedback`** computes on what the reader found: the last mark per answer, the last answer per query
hash, the records of a binding and `is_capped`. The window is the parameter `since`.

**`Daemon`** has the commands as processes that talk to the daemon through the state file, signals
and the port: `ReadState`, `JudgeDown`, `JudgeRunning`, `JudgeTenant`, `StopSignal`, `StopRemove`,
`Spawn`, `SawExit`, `Connected`, `TimedOut`, `WriteState`, `Exit`; `Interrupt` kills a command,
`Die` a daemon, `RunForeground` is a server without a state file. The operating system's and
uvicorn's part (`Bind`, `ShutDown`) is external.

**`Serving`** is the service on its event loop. A request gives way only where it awaits the
warehouse, a reload blocks all of them and reads one part of the project per step (`LoadStep`), and
files are edited between any two steps (`Edit`). `BeginCurrent`, `BeginReload` and `BeginDriftCheck`
are the three ways `refresh` ends for a request; `Execute`, `Finished`, `CompileFails`,
`GateRefuses` and `Cancelled` the fates of a statement. **`ServedSnapshot`** is what this promises: a
request takes the current snapshot, and everything it answers and records comes from that one.
`Serving` implements it under the mapping in `Abstract`, which is the property `Snapshots`.

**`Credentials`** has tasks that refresh the held credential in a worker thread under a lock
(`Acquire`, `TakeLock`, `StillGood`, `CallProvider`, `Fetched`, `FetchFailed`) and a driver hook that
later stamps whatever the cache holds (`Connect`), against a clock. Its specification is `CacheSpec`.

**`SemanticGraph`** holds join planning and name binding, **`Contracts`** what validation accepts and what
the resolver makes of a name, and **`Compiler`** takes a query through the pipeline: `BindPrincipal`,
`ResolveMetrics`, `Enforce`, `PlanNext`, `RestrictSource`, `Compose`. A leaf stands for one select: the
aliases it scans, its predicates, its columns. The code's recursions over joins, bindings and nested
metrics are recursive functions bounded by the number of aliases (`Len(Order)`) or of bindings; an
accepted project needs no more. `Populations` says which populations a reading of a metric is meant
to have, by what is around it, apart from how the planner gets there. **`Calendar`** has dates as day numbers with the clamping
of durations and the clocks of zones, and **`Answers`** evaluates the statements on tables, one action per builder of a
strategy (`BuildSimple` ... `BuildFinality`) and for the composition (`BuildSpine`, `Project`);
`AskAgain` asks the next day.

**`Trust`** has the caps of the signals; **`Decompose`** runs an attribution statement by statement
(`Receive`, `RunOverall`, `RunSplit`, `Finish`, `Interrupted`) with exact rationals, while `Load`
changes the warehouse and the assertion harness runs, fails or records its verdicts (`Recorded`, a fold).

**`ProjectSetup`** is a project directory and the commands that build it, prompt by prompt and file by
file: the wizard with its checkpoint, the menu, packs, contract generation, `connection add` and
`remove`; `Interrupt` stops any of them, `HumanEdit` changes what they wrote.

**`PendingRunsProofs`**, **`IngestionProofs`**, **`EventLogProofs`**, **`ServingProofs`**,
**`ProjectSetupProofs`**, **`KnowledgeProofs`** and **`CompilerProofs`** hold the theorems about the
module they are named after and the modules it extends (`EventLogProofs` also those about `Feedback`,
`PendingRunsProofs` those about `Drafting`, whose specification is `DraftingSpec`),
**`ProcessProofs`** those about `Daemon`, `Credentials` and `Decompose`, which share no name (the
specification of `Decompose` is `AttributionSpec`).

## Runs

| Run | Instance | Shows |
| --- | --- | --- |
| `pr` | two ingests that may choose one name, one session at a time, a source and a metric binding, gc, crashes | decisions are recorded after their work, keep their markers and are never reverted; what was rejected stays out; gc removes reviewed runs only; one writer per directory |
| `ing` | a table that changes and disappears under the default policy, over two runs and next to a worked example; auto-apply with candidate, outcome and deprecated alternative; connectors that disagree about one relation | no proposal against a fact that was protected when it was read, every write on record, one diff per target, no silent winner, applied evidence stays quiet, propose-only unless allowed |
| `log` | a daemon that rotates at one line and keeps one segment, a command that rotates at two and gzips, gc, a reader; with kills and three events, without kills and four, and with a mark that is taken back | nothing recorded is lost, durable events keep their order, a reader misses only what was moved under it, a mark counts for the last answer to its query or not at all, nobody is stuck |
| `daemon` | one command at a time, three processes, two versions, kills, a foreground server | at most one daemon, and the commands can find it, also when a start meets a process that still drains |
| `serve` | two requests of up to two statements, two edits, valid or not | only loaded states are served, the reloader knows where it stands, connectors are returned; implements `ServedSnapshot` |
| `cred` | two tasks, two lifetimes of a credential, failing fetches | one fetch per life, no connection with a dead credential, every refresh returns |
| `compile` | every pair of 19 candidate bindings over every kind; one rich project under tenancy, roles, guardrails and finality | what is accepted resolves, and binds where no name is shadowed; every scan is joined and scoped, finality branches included; every leaf keeps its rows through populations, fusion and fan-out |
| `answers` | rows around month and week ends for every strategy, offsets of offsets, watermarks in UTC, behind it and ahead of it, filters with AND, OR and NOT | rows count once and are shown; values are computed from the whole of their time; a day is split at the watermark's own day only, and what ended before it stays final |
| `decompose` | any subset of six facts around a month end, final and provisional, loads, failures, lost events, assertions in any verdicts | what adds up is explained whole; the tier is earned, and an event that is written tells it |
| `setup` | two connections, packs in two versions, two sources with one measure name | prompted connections were tested and the default is configured; installs are whole; nothing generated is replaced, and answers are kept until the configuration stands |
| `knowledge` | four pages of two users, an entity, a document, two processes with two models | caches are current; accepted runs leave sound pages and a silent rerun; what a user may see is found and reached, and of other users' pages only one of a contested name is shown |
| `draft` | a warehouse and a modelling source in several selections and orders, two retries | drafts are grounded, no guessed grain or join and nothing disputed or flagged is applied unseen, the run ends with the connectors it holds closed |

Many of these properties are conjunctions of named parts; each part has its own comment where it
is defined. The type invariants are among the parts.

Why the bounds are enough. *pr*: the store's hazards need two processes on one directory; two
proposals give a list that is partly resolved; two seconds give an old run beside a new one. Once
both ingests have started they share a second and runs are applied as a whole (`Overlap`); reviews
proposal by proposal are explored on one ingest's run. *ing*: two runs give a stale pending run, and
the evidence sets hold one item for each row of the decision table. *log*: four events give two
rotations, three with a kill in the first, so that answers are duplicated, pruned and asked for
again. *daemon*: three processes are an old daemon, a new one and a foreground server. *serve*: two
edits give one that a reload reads half of. *cred*: the clock outlives one credential and the skew of
the next. *compile*: a pair of bindings is the smallest nesting and the smallest cycle, and the rich
project nests deeper. *answers*, *decompose*: values are distinct powers of two or small facts, so a
sum tells which rows it counts; five months contain a short February and week ends. An attribution is followed to
its answer (`Unanswered`), which nothing that happens later touches. *knowledge*: a
library with a shared page and a user's page of one name, and one with pages of two users of one name,
give the collisions of slugs; a day is two ticks and the window two days, so that a run, a stamp and a
reading fall within parts of a day. *draft*: definitions come in agreeing, repeated and conflicting pairs,
joins also without a predicate, with another relationship and flagged. Interchangeable
ingests, requests and processes use symmetry, in runs without liveness.

`CHECK_DEADLOCK FALSE` everywhere but in `setup`: commands and events are bounded, a compiled or
answered query is done, every process may be killed, and when the bounds are used up the system has
really stopped. In `setup` a person can always start the next command.

Exceptions the code makes, written into the properties: `TerminalIsFinal` and `GcKeepsUnreviewed` are
checked with one session at a time (two that share a run do revert each other's decisions);
`OneDiffPerTarget` leaves out a deprecated alternative and a candidate for one unbound metric;
`LookedMeansKnows` an edit that raced the start-up load; `NoOrphan` the child of a start that was
killed; `RestrictedIsFinal` comparisons written literal first or under OR and NOT, and gates by the wall clock of a
zone behind UTC; `OneRealizationPerDay` and `FinalStaysFinal` the warehouse's day that the watermark of
another zone falls within; `ShiftKeepsItsRows` an offset of an offset under a range; `ReadsRecover` logs with kills;
`AcceptedBinds` projects with mandatory
filters or shadowed names (`Clear`); `EveryScanIsScoped` branches of a realization declared unlike its
owner; `FusionKeepsEachLeaf` rules that differ in roles alone; `NothingCountedTwice` opaque leaves;
`SplitIsExact` aggregates that do not add up, members with a numerator and no denominator, and loads
between statements, where the response carries a residual; `OpenValuesAreCapped` projects with
`trust.flag_open_periods` off; `CandidatesAreGrounded`
circles of candidates; `SelfAppliedIsDeclared` labels and aliases the model drafted; `IngestEnds` connectors
when creating or closing one raises, and those a bootstrap created to look at; `CheckedPagesAreFresh` the last day of the window, in which a page stamped just
before the run may signal staleness; `SearchIsAdditive` and `ReadsAnswerSearches` names that pages of two
users have, or of a user and a page the role may not see; `NeverOpensWithExpired` a task that stays away longer than the skew.

Fairness. `PendingRuns`, `Ingestion`, `Daemon`, `Serving`, `Compiler`, `Answers`, `Decompose`, `ProjectSetup` and
`Knowledge` assume none: their steps are commands, edits and requests that nobody has to make, and no
liveness is claimed. `EventLog` assumes weak fairness of the steps a writer takes while it holds the
lock, and of a reader that is run again and again: the first is what an operating system gives a
process that waits for nobody, the second is the question itself, whether trying again helps.
`ReadsRecover` holds because the events are bounded: rotations that never pause could fail every read.
`Credentials` assumes strong fairness of taking the lock
(every holder does at most one fetch and leaves, and the lock is not handed past the same waiter
forever), and that a provider call returns or fails. `Drafting` assumes that a run that can go on
does; the model's retries are bounded by the code.

## Proofs

The theorems hold for every value of the constants that the named assumption of the component's
module allows: any number of processes, proposals, events and edits, and any data. An assumption gives
the constants their types, keeps markers such as "nobody" apart from real values, and in `Ingestion`
says of drafts what was said above. Each proof has a lemma for the initial states and one for
the steps, with a step per action; the strengthened invariants were checked by TLC before they were
proved. Three hypotheses go further, and each of them is a condition under which the code's promise is
meant:

- `OneSession` (`DecisionsAreFinal`, `GcIsSafe`, `MarkersBackStatus`): reviews and applies do not
  overlap. Without it the statements are false, see the first divergence below.
- `OneAtATime` (`OneDaemon`): commands that start or stop a daemon do not overlap. No lock covers the
  state file between reading and writing it.
- `Skew < Lifetime` (`NeverExpired`): a credential lives longer than the 60 seconds of
  `credentials.py`. Otherwise every fetched credential is stale at once.

`PendingRunsProofs`, from `PendingRunsAssumption`, with or without crashes:

- `TypeCorrect`: `Spec => []TypeOK`. `TypeOK` alone is not inductive, because the cursor is
  advanced without a test after a proposal was written or saved; `CursorOK` says that it stands
  on a proposal there.
- `AppliedFirst`: `Spec => []AppliedBeforeRecorded`, for any number of sessions on one run, which no
  run checks. A session saves its whole list, so what is on disk is only as good as what sessions
  hold: the strengthening `HeldIsApplied` says the same of every list in memory. Loading copies from
  disk to memory, saving copies back, and only the end of `apply_entry` adds an entry, together with
  its record in `done`.
- `OneWriter`: `Spec => []OneWriterPerRun`. It needs `StoreOK`: a `status.yaml` lies in a
  directory that exists, and gc never holds a directory that an ingest is filling, because it
  picked it when its `status.yaml` was complete and `mkdir` refuses a directory that exists.
- `DecisionsAreFinal` (`TerminalIsFinal`) and `GcIsSafe` (`GcKeepsUnreviewed`), from `DecisionInv`:
  a session knows every decision its run has recorded and works on a proposal it holds as pending, and
  what gc has picked stays resolved until it is removed.
- `MarkersBackStatus` (`ProtectionRecorded`), from `MarkerInv`: also what a session is going to save is
  backed by the files.

The second part of the same module is about `DraftingSpec`, what is on its way into the store. From
`DraftingAssumption` and `ProjectsAssumption` (what a source delivers and what a project says has the
fields of its model; a relation has finitely many columns) it has `DraftsStayGrounded`
(`DraftsAreGrounded`) and `SelfAppliedStaysDeclared` (`SelfAppliedIsDeclared`), for any connections,
evidence, definitions, answers of the model and retries. Neither is inductive: a draft is built
from the index, the index from the evidence before it, and a binding from the bindings of earlier
rounds. `DraftingInv` follows these. `RunOK` and `ProjectOK` give the run and the project their
fields. `Indexed`: after n pieces of evidence the index has exactly one entry per name, each read off
one of them, every well-formed piece that is not skipped is in it, and a bucket is noted when a
measure or dimension was disputed, or a measure or join flagged. `Drafted`: what is said of finished drafts, and of the one whose
answers are still awaited (`InProgress`), which is not deterministic once a grain was guessed. `CandidatesOK`: every binding rests on those before it (hence at most as many
rounds as candidates), and without circles nothing that is decided waits for something undecided.
Where there is no circle, some candidate that is left refers to none of the others, so a round is
never the one that gives up on all of them. `Keep`, the comprehension with a condition that the
code uses throughout, is shown by induction on the list to have the chosen entries and no others.

`IngestionProofs`, from `IngestionAssumption` and `ReconciliationAssumption`: `ProtectionHolds`
(`ProtectedNeverProposed`), `WritesAreProposed` (`EveryWriteWasProposed`), `RunsHaveTheirShape`
(`RunsAreWellFormed`), `NobodyWinsSilently` (`NoSilentWinner`), `IngestDisturbsNothing`
(`IngestIsQuiet`). The first half are lemmas about the engine's operators, one per operator of
`Reconciliation`, that end in `SoundReport`: what every report of the engine satisfies, after
reconciling and after the model refined it. `IngestionInv` carries it through the process: `Reports`
(the job and all runs are sound), `LastRun` (what is about to be applied is what was persisted last),
`Written` and `SettledStays` (a file settled on some evidence still says what that evidence said).
`Judged` ties the decisions to the store the run loaded (`job.store`): an edit or a prune is about the
fact it found there, and a source that is up to date there has no diff unless the model was asked.
`SettledStays` and `Judged` are why a second ingest is quiet: the group decides on the same evidence in
whatever order it comes, and meets its own fingerprint in the store. Both theorems name what the code
leaves open: nothing is read again before a run writes, and the model may choose differently each time.

`EventLogProofs`, from `EventLogAssumption`: `EventsAreKept` (`LogKeepsEvents`), `ReadersMissOnlyMoved`
(`ReaderMissesOnlyMoved`) and `MarksAreJoinedToLast` (`MarksFollowLastAnswer` of `Feedback`). The invariant `LogInv`
has five parts. `Unique`: no two events have one stamp. `FilesAreSound`: every recorded event is in
the active file, in a finished segment or dropped, and of the answers recorded after a line that a file
has, each is in that file or in a newer one. The latter survives a kill between the two `replace`
calls, which duplicates lines, and the removal of the oldest file, and it makes "the last answer
for a query" the same in the log that a reader puts together as in the history. `Discipline`: the lock
is exclusive, a rotation in progress has its files, and what gc will remove is older than all else.
`ReaderInv`: what the files still to be read owe the reader, who takes no lock. What `OfKinds` computes
is shown by induction on the length of a sequence. The library's induction theorems take an operator;
instead the least-number principle is derived from its `WFMin`, and induction over a set of
numbers from that.

`ServingProofs`, from `ServingAssumption`: `ServiceSound` (`ServiceIsSound`) and
`ServingImplementsSnapshots`: `Spec => Snapshots`, the refinement of `ServedSnapshot`. `BaseInv` ties a
reload to the one request that waits for it; `KnowsInv` says that no recorded signature is ahead of
the files, so that one that still matches means that nobody has written since.

`ProcessProofs`, from `DaemonAssumption`: `OneDaemon` (`OneFindableDaemon`), from what a command knows
of the live daemons at each of its steps (`CommandInv`); and from `ClockAssumption`: `CacheSound` (`CacheIsSound`) and `NeverExpired` (`NeverOpensWithExpired`); `RefreshInv` relates the
credential in the cache, whoever fetched it, to the time a task's refresh returned.

From `CalendarAssumption` and `DecomposeAssumption` (requests and facts lie on the calendar, a verdict is
pass or fail) the same module has `EarnedTier` (`TierIsEarned`), for any
facts, loads and requests. `AttributionInv` has five parts: `RequestInv` (how far an attribution is, and that it has recorded
nothing before its answer), `TiersInv` (there is a tier per statement, and the answer merges them),
`HarnessInv` (what the history says of a binding is what the outcomes were merged to), `CapInv` (an open period
that shows in a number, or a provisional row that was read, capped some statement) and `EarnedInv` (a
trusted statement had all its leaves pass). `RecordedIs` shows by induction what the merge of the outcomes, in
their order, amounts to. Months ascend, so the later of two periods ends later: a statement that reads a row of an open
period has an open latest period and was capped for it. The tier of the answer is the least of the
statements' tiers, hence no better than any.

`ProjectSetupProofs`, from `ProjectSetupAssumption`: `ConfigurationIsSound` (`ConfigIsSound`),
`InstallsAreWhole` (`InstallIsWhole`) and `WorkIsKept` (`WorkSurvives`), for any connections, packs and
sources. `SetupInv` says where each command stands and whether it carries a pack, that a configuration
on its way to the file is as sound as the file, and that the wizard holds what its checkpoint
holds while it asks. `InstalledOK` says that the files written so far stand where they belong and that
their targets are claimed, so that no later file of the pack replaces one, and `ClearOK` that the
configuration is whole when the checkpoint is about to go. That removing a connection
keeps the others is induction on the list, as above.

`KnowledgeProofs`, from the assumptions of `Knowledge` (the paths are finitely many pairs of owner and
slug, pages and evidence have their fields, a draft's source is the evidence with what it was bound
to, no page starts with a stamp from the future): `CachesStayCurrent` (`CachesAreCurrent`) and
`RunsAlwaysSettle` (`RunsSettle`), for any pages, documents, entities, models and processes.
`KnowledgeInv` has five parts. `UpkeepOK`: pages and proposals are well-formed, and a proposed page
carries no stamp. `RunOK` and `LastOK` say where the pages are heading: `Leads` is the library and
the index that the proposals still to be reviewed would give, `Settles` that these are sound and that a
second run has nothing to propose. `RunIsSound` and `RunIsQuiet` show it of a run that decides;
accepting a proposal or stamping a page does not change where the pages lead, and when nothing is left
to review they are there. `VectorsOK`: the vectors in memory and on disk are those of the model they are
filed under. `MemoOK`: the pages kept are those of the signature, no signature is ahead of the files, and
a page whose signature still matches is kept as it is. `RecentlyStamped`, a part of `LastOK`, says of the
pages a run left alone when they were stamped: that none signals staleness is not inductive, because
time passes.

`CompilerProofs`, from `OrderAssumption` (every alias is listed) and `RequestAssumption` (projects have
their fields, a query lists its metrics), for any graph of joins, any nesting of metrics, any callers:

- `ScansStayScoped` (`ScansAreScoped`): every alias a leaf scans is joined to its owner and carries the
  tenant predicate its caller has. The alias tree and the simple paths only meet listed aliases, so
  `PlanJoins` reaches every alias a leaf names; `PlanLeaf` scopes every alias it joins; a finality
  branch keeps the owner's predicates, moved to its realization, and is scoped when the realization is
  declared like the owner (`DeclaredAlike`). `ScopeInv` says so of all leaves planned so far.
- `LeavesStayKept` (`LeavesKeepTheirRows`): each reading of a metric ends in a leaf with exactly its
  populations, the leaves that `compose` fuses agree on their rows, and a join that multiplies rows, in
  a leaf or in a branch, is refused unless rows are deduplicated or only looked up. Resolved bindings form levels (`Levels`), along which the
  readings and `Populations` unfold in step; leaves of one `SelectKey` can only differ in a measure, and
  names tell the measures apart; the key has the sources of a finality rule but not their roles, so
  the branches agree where no two rules differ in that alone (`RulesTellApart`). `RowsInv` carries this through `PlanNext` and `Compose`.

A recursion inside a LET is reasoned about through the function it defines: a lemma that this function
exists up to a bound, then induction over the numbers, as in `EventLogProofs`.

Only model-checked:

- Liveness under fairness, which the prover cannot do: `LogMovesOn`, `RefreshReturns`, `IngestEnds`.
- `AcceptedNamesBind` of `Compiler`: that everything validation accepts resolves and binds needs an
  argument along the order that an acyclic project has, and the same search for a path twice over.
- What `Answers` computes, and `PartsExplainTheChange` of `Decompose`: they add up, and divide exactly,
  over sets of rows, and their properties say what such a sum is for every table.
- `RetrievalIsComplete` of `Knowledge`: what ranking, collapsing and walking give for every library.

## Where the code and its documents part

Met while modelling; none of the properties above claims these cannot happen. No run of this version
exhibits them: the first five had violation runs in an earlier version, which found the counterexamples
described here and were dropped so that more of the system could be covered; the others come from
reading the code.

- Two sessions on one run apply what the other already resolved (`apply.py:62`; `docs/cli-reference/review-apply.mdx:44` says terminal proposals are skipped).
- `auto_apply.max_provenance` is compared with the proposal's tier, so the deprecated-alternative merge rewrites a human-curated binding (`reconciliation.py:713`; `docs/reference/config-schema.mdx:158`).
- A prune and a binding to the pruned source pass the gate together (`pipeline.py:268`; `pipeline.py:173`).
- A writer killed while it fills a gzipped segment leaves a `.gz.tmp` all readers fail on (`events.py:62`; `docs/concepts/instrumentation-and-eval.mdx:65`).
- A mark moves to the binding that answers the same query next (`history.py:79`; `docs/concepts/ingestion-and-reconciliation.mdx:72`).
- "Started" is satisfied by any process on the port, a stopped daemon that still drains among them, and the child that is recorded then dies of the held port (`daemon.py:209`).
- An edit that races the start-up load goes unnoticed (`project.py:217`).
- `distinct_on` and population names bind to a joined dimension before the owner's column, and are ambiguous where two joined sources have one (`_helpers.py:1143`, docstring of `_bind_name`); the references of a mandatory filter are never validated (`validate.py:898`); a ratio of ratios, percentiles or semi-additive metrics is accepted and refused by every query (`validate.py:59`); `_addable_everywhere` compares bare names (`compiler/pipeline.py:695`).
- The reach of a rolling window is added once, which near a month end is not the inverse of subtracting it (`rolling.py:319`); `literal op column` is read the wrong way round (`simple_additive.py:155`), and a bound under OR or NOT counts as one of the whole window (`simple_additive.py:149`).
- Under an offset of an offset each prefilter moves the range by its own offset and reads the stored column, so rows are lost (`offset.py:141`, `leaf.py:505`; "a `time_range` on the shifted column moved back by the offset", `_helpers.py:141`).
- The watermark ends a day of the rule's zone, while the warehouse groups by its own days: the day it falls within has a final and a provisional row, and its final value still grows (`finality.py:76`; "rows with `created_at <= watermark` fall on or before that day", `finality.py:55`). SQLite and MySQL gate by the wall clock of the zone (`dialect.py:363`, `docs/concepts/compiler.mdx:131`), while `restrict_source` judges the window in UTC (`simple_additive.py:203`).
- A realization of a finality rule may be declared differently from its owner in the tenancy policy or in its joins; its branch is scoped with the owner's predicates all the same (`_helpers.py:1331`). The fusion key has the sources of a rule and not their roles (`leaf.py:611`), and a guardrail's predicate names the source behind a role (`_helpers.py:618`). A filter behind a fanning join repeats the rows of an opaque metric (`opaque.py:131`).
- A leaf without a finality rule is repeated on the final and on the provisional row of a key (`compose.py:613`).
- Measures of kind single may be MIN, MAX or AVG, whose members do not add up to the change, so the residual of their split is not 0 (`decompose.py:250`; "every method is exact", `docs/mcp-integration/tools-reference.mdx:153`; `decompose_methods.py:4`). A failure to write the answer event is logged and dropped (`decompose.py:522`; "Writes one answer event ... also when it fails", `decompose.py:125`).
- An open period without rows does not cap the tier (`periods.py:193`; `docs/mcp-integration/tools-reference.mdx:167`), and a NULL denominator that the zero policy replaces is not counted in `zero_denominators`.
- A wizard interrupted after `canonic.yaml` is written meets the menu and does not resume (`setup.py:281`); removing a connection that another names as `target_connection` makes the file unloadable (`connection.py:273`, `config.py:732`).
- Of two users' own pages with one slug the search shows the last to both of them (`retrieval.py:73`, `:191`; "never another user's", `scope.py:8`), and a read is refused to the user whose page sorts second (`core/knowledge.py:203`). With `staleness_window_days: 1` a page stamped within the day before a run is not stamped by it and signals staleness a few hours later (`page_refs.py:131`, `drift.py:91`; "refreshes the stamp on every page whose references all still resolve", `docs/concepts/knowledge-layer.mdx:84`).
- `apply` re-emits diffs from `report.yaml`, so hand edits of a `.diff` are not applied (`pending.py:229`); freezing a metric binding sets no marker (`pending.py:316`); of two ingests that choose one directory the slower dies with `FileExistsError` (`pending.py:122`, the action `Collide`); a crash inside `update_status` leaves a torn file (`pending.py:272`), as one inside the dump of `canonic.yaml` does (`config.py:831`).
- A candidate is auto-applied when `min_confidence` is 0.5 (`reconciliation.py:712`); an assertion of a trusted example is proposed by every run (`reconciliation.py:172`); auto-apply writes over a file frozen after it was read (`pipeline.py:92`); a run with nothing but answer outcomes is refused by the gate (`validation.py:283`); an ingest scoped to one connection proposes to prune the inferred sources of the others (`reconciliation.py:644`).
- Two processes may both append a milestone that neither found (`events.py:215`); one mark on two metrics of one binding counts twice (`history.py:85`); durable events alone can reach `max_bytes`, and then every answer gets a segment (`events.py:127`).
- A failed push leaves the branch behind, and the retry fails on it (`autopr.py:120`); a connector whose close fails keeps the ones after it open (`cli/commands/ingest.py:430`), connectors are created before the `try` that closes them (`:384`), and those a bootstrap creates without using are never closed (`:398`; "always closes connectors", `:382`).
- Labels and aliases the model drafted do not mark a draft, which a first bootstrap then applies on its own (`builder.py:682`; "Every result is labelled `drafted_by: llm`", `builder.py:194`).
- A close that raises loses the event of a statement (`core/query.py:313`).

## Not modelled

- The text of drafts, patches, SQL, reports, prompts and logs; dialects; parsing of files.
- Auto-PR (a straight line of git commands), the drivers and parsers behind the connectors, model
  providers, the evaluation harness: I/O without a protocol of their own.
- In `PendingRuns`: `rmtree` is two steps (all files, then the directory); writes of context files are
  atomic, since a torn context file is found by the next load and not lost silently.
- In `Ingestion`: the live schema probe, dry runs and the auto-PR. One ingest runs at a time.
- In `EventLog`: sizes in bytes, clocks that run backwards, platforms without `fcntl`,
  `read_events(last=n)`, and the pattern gate computed from marks.
- In `Serving`: a connector whose close raises.
- In `Answers`: zones that change their clocks, and rows in the fraction of a second after 23:59:59,
  which lie past the watermark of their own day (`finality.py:89`).
- In `Knowledge`: the scores of the search's arms. In `ProjectSetup`: fetching a pack, agent
  integrations.

## Plan

1. Core of ingestion and the first proofs: done.
2. Daemon, serving with its abstract specification, credentials, contracts, compiler, answers,
   decompose, setup, knowledge, drafting: done.
3. Proofs of the store, ingestion, the event log, the daemon, serving, credentials, setup, the
   knowledge pages, the compiler, decompose and drafting: done.
4. Next: `AcceptedNamesBind` of `Compiler`, along the order of an acyclic project.
