---------------------------- MODULE ProjectSetup -----------------------------
(***************************************************************************)
(* A project directory and the commands that build it: `canonic setup`     *)
(* (cli/commands/setup.py) with its checkpoint (cli/setup_state.py), the   *)
(* context packs it and `canonic pack add` install (packs/install.py), the *)
(* metric contracts it infers (contracts/bootstrap.py), and `canonic       *)
(* connection` (cli/commands/connection.py).  A command runs alone, prompt *)
(* by prompt and file by file, and may be interrupted between any two of   *)
(* its steps.                                                              *)
(*                                                                         *)
(* Names are sequences of words, so that a source-qualified name is a      *)
(* concatenation.  Prompts are choices; what is printed is left out.       *)
(***************************************************************************)
EXTENDS Integers, Sequences, FiniteSetsExt, SequencesExt

CONSTANTS Null,
          Torn,         \* a file that was truncated and not written again
          Connections,  \* what a user may configure: id, type, target
          Packs,        \* what the pack repository offers
          Discovered,   \* the sources a bootstrap finds, with their measures
          MaxConns      \* bound on the connections of a project

\* A name is a sequence of words, a target a directory and a name.
Names == Seq(STRING)
Targets == STRING \X Names
\* A connection of canonic.yaml, and whether it came through a test.
Entries == [id : STRING, type : STRING, target : STRING \cup {Null}, tested : BOOLEAN]
Configs == [conns : Seq(Entries), default : STRING \cup {Null}, llm : BOOLEAN]
\* SetupState; `fresh` is not saved, it says that no checkpoint was found.
WizardSteps == {"name", "connection", "llm", "schema"}
States == [steps : SUBSET WizardSteps, conn : Entries \cup {Null}, llm : BOOLEAN, fresh : BOOLEAN]
\* A pack on its way into the project: the files written and the targets claimed.
Jobs == [pack : Packs, conn : STRING \cup {Null}, written : Nat, claimed : SUBSET Targets]
Writes == [config : Configs, then : {"none", "menu", "clear", "pack_params"}]

ASSUME ProjectSetupAssumption ==
    /\ Connections \subseteq [id : STRING, type : STRING, target : STRING \cup {Null}]
    /\ \A p \in Packs : p.files \in Seq([dir : STRING, name : Names \cup {Null}])
    /\ MaxConns \in Nat \ {0}
    /\ Null # Torn
    /\ \A x \in {Null, Torn} :
         /\ x \notin STRING /\ x \notin Entries /\ x \notin Configs
         /\ x \notin States /\ x \notin Jobs /\ x \notin Writes

VARIABLES config,      \* canonic.yaml
          checkpoint,  \* .canonic/setup-state.json
          files,       \* semantics/ and contracts/, a function of targets
          pc,          \* where the running command stands
          kind,        \* which command it is
          draft,       \* the SetupState of a running wizard
          writing,     \* a configuration being written, and what follows
          job,         \* a pack being installed
          todo         \* the contracts still to generate

vars == <<config, checkpoint, files, pc, kind, draft, writing, job, todo>>

\* ---- The configuration ----

IsFile(c) == c \notin {Null, Torn}
Ids(c) == {c.conns[i].id : i \in DOMAIN c.conns}
\* load_config: a torn file has no version, a dangling target is refused.
Loadable(c) == IsFile(c) /\ \A i \in DOMAIN c.conns : c.conns[i].target \in Ids(c) \cup {Null}
Configured(conns, default, llm) == [conns |-> conns, default |-> default, llm |-> llm]
\* The connections but those of this id, in their order.
Without(conns, id) ==
    LET upTo[n \in 0..Len(conns)] ==
          IF n = 0 THEN <<>>
          ELSE IF conns[n].id = id THEN upTo[n - 1] ELSE Append(upTo[n - 1], conns[n])
    IN  upTo[Len(conns)]
Entry(c, tested) == [id |-> c.id, type |-> c.type, target |-> c.target, tested |-> tested]

\* dump_config and write_raw_config open the file for writing, which empties
\* it, and then write it.
BeginWrite(new, then) ==
    /\ config' = Torn
    /\ writing' = [config |-> new, then |-> then]
    /\ pc' = "dumping"

FinishWrite ==
    /\ pc = "dumping"
    /\ config' = writing.config
    /\ pc' = writing.then
    /\ writing' = Null
    /\ UNCHANGED <<checkpoint, files, kind, draft, job, todo>>

\* ---- The wizard ----

NoState == [steps |-> {}, conn |-> Null, llm |-> FALSE, fresh |-> TRUE]
\* Mutant: the checkpoint is not read.
LoadState_Forgets(c) == NoState
\* load_state: an absent or unreadable checkpoint starts a fresh run.
LoadState(c) == IF IsFile(c) THEN [c EXCEPT !.fresh = FALSE] ELSE NoState

\* A command ends; the menu asks again after each of its choices.
EndTo(next) ==
    /\ pc' = next
    /\ kind' = IF next = "menu" THEN "menu" ELSE "none"
    /\ job' = Null
    /\ draft' = NoState
Back == IF kind = "menu" THEN "menu" ELSE "none"

\* setup: an existing canonic.yaml leads to the menu, whatever it holds.
Setup ==
    /\ pc = "none"
    /\ IF config # Null
       THEN kind' = "menu" /\ pc' = "menu" /\ UNCHANGED draft
       ELSE kind' = "wizard" /\ pc' = "name" /\ draft' = LoadState(checkpoint)
    /\ UNCHANGED <<config, checkpoint, files, writing, job, todo>>

\* A step done before is skipped; otherwise its answer is saved at once.
SkipStep(step, next) ==
    /\ step \in draft.steps
    /\ pc' = next
    /\ UNCHANGED <<checkpoint, draft>>
\* The step is marked done and the state is saved before the next question.
Answer(step, answered, next) ==
    /\ step \notin draft.steps
    /\ draft' = [answered EXCEPT !.steps = @ \cup {step}]
    /\ checkpoint' = draft'
    /\ pc' = next

NameStep ==
    /\ pc = "name"
    /\ LET next == IF draft.fresh THEN "offer" ELSE "connection"
       IN  SkipStep("name", next) \/ Answer("name", draft, next)
    /\ UNCHANGED <<config, files, kind, writing, job, todo>>

\* _prompt_connection: asks until a connection passes its test, or the user
\* gives up and the command ends.
\* Only a connection that was tested with status ok is taken.
Passed(c, tested) == c \in Connections /\ tested

ConnectionStep ==
    /\ pc = "connection"
    /\ \/ SkipStep("connection", "llm")
       \/ Answer("connection", draft, "llm")
       \/ \E c \in Connections, tested \in BOOLEAN :
             /\ Passed(c, tested)
             /\ Answer("connection", [draft EXCEPT !.conn = Entry(c, tested)], "llm")
    /\ UNCHANGED <<config, files, kind, writing, job, todo>>

LlmStep ==
    /\ pc = "llm"
    /\ \/ SkipStep("llm", "schema")
       \/ \E llm \in BOOLEAN : Answer("llm", [draft EXCEPT !.llm = llm], "schema")
    /\ UNCHANGED <<config, files, kind, writing, job, todo>>

SchemaStep ==
    /\ pc = "schema"
    /\ SkipStep("schema", "write") \/ Answer("schema", draft, "write")
    /\ UNCHANGED <<config, files, kind, writing, job, todo>>

WriteConfig ==
    /\ pc = "write"
    /\ BeginWrite(IF draft.conn = Null
                  THEN Configured(<<>>, Null, draft.llm)
                  ELSE Configured(<<draft.conn>>, draft.conn.id, draft.llm), "clear")
    /\ UNCHANGED <<checkpoint, files, kind, draft, job, todo>>

\* _run_minimal_setup.
MinimalSetup ==
    /\ pc = "none"
    /\ config = Null
    /\ kind' = "minimal"
    /\ BeginWrite(Configured(<<>>, Null, FALSE), "clear")
    /\ UNCHANGED <<checkpoint, files, draft, job, todo>>

\* The file is read back, then the checkpoint is dropped.
ClearState ==
    /\ pc = "clear"
    /\ checkpoint' = Null
    /\ \/ kind = "minimal" /\ EndTo("none")
       \/ /\ kind # "minimal"
          /\ pc' = IF job # Null THEN "pack_params" ELSE "bootstrap"
          /\ UNCHANGED <<kind, draft, job>>
    /\ UNCHANGED <<config, files, writing, todo>>

\* ---- The golden path ----

Semantics(conn, name) == <<"semantics", <<conn>> \o name>>
Contract(name) == <<"metrics", name>>
Written(by, source, content) == [by |-> by, source |-> source, content |-> content]
\* The files after one of them was written.
With(target, file) == [t \in DOMAIN files \cup {target} |-> IF t = target THEN file ELSE files[t]]

\* _bootstrap_connection: the sources found on the default connection; a
\* failure is reported and skipped.
Bootstrap ==
    /\ pc = "bootstrap"
    /\ \/ UNCHANGED files
       \/ /\ config.conns # <<>>
          /\ files' = [t \in DOMAIN files \cup {Semantics(config.default, d.name) : d \in ToSet(Discovered)}
                         |-> IF t \in DOMAIN files THEN files[t] ELSE Written("ingest", Null, Null)]
    /\ pc' = "contracts"
    /\ UNCHANGED <<config, checkpoint, kind, draft, writing, job, todo>>

\* The measures of the sources the project holds, in the order of the sources.
Pairs ==
    LET held == SelectSeq(Discovered, LAMBDA d : \E conn \in {c.id : c \in Connections} :
                                                    Semantics(conn, d.name) \in DOMAIN files)
    IN  FlattenSeq([i \in DOMAIN held |->
            [j \in DOMAIN held[i].measures |-> [source |-> held[i].name, measure |-> held[i].measures[j]]]])

\* Asked once, at the end of the wizard, or chosen in the menu.
GenerateContracts ==
    /\ pc = "contracts"
    /\ \/ Pairs # <<>> /\ todo' = Pairs /\ pc' = "generate" /\ UNCHANGED <<kind, job, draft>>
       \/ UNCHANGED todo /\ EndTo(Back)
    /\ UNCHANGED <<config, checkpoint, files, writing>>

\* write_inferred_contracts, of one measure: its file, or a source-qualified one
\* when another source's contract has the name, or none.
ContractTarget(p) ==
    LET plain == Contract(p.measure)
        qualified == Contract(p.source \o p.measure)
    IN  CASE plain \notin DOMAIN files -> plain
          [] plain \in DOMAIN files /\ files[plain].source \in {Null, p.source} -> Null
          [] OTHER -> IF qualified \in DOMAIN files THEN Null ELSE qualified

WriteContract ==
    /\ pc = "generate"
    /\ todo # <<>>
    /\ LET target == ContractTarget(Head(todo))
       IN  files' = IF target = Null THEN files
                    ELSE With(target, Written("inferred", Head(todo).source, Null))
    /\ todo' = Tail(todo)
    /\ UNCHANGED <<config, checkpoint, pc, kind, draft, writing, job>>

EndGenerate ==
    /\ pc = "generate"
    /\ todo = <<>>
    /\ EndTo(Back)
    /\ UNCHANGED <<config, checkpoint, files, writing, todo>>

\* ---- Context packs ----

Install(pack, conn) == [pack |-> pack, conn |-> conn, written |-> 0, claimed |-> {}]

\* _offer_context_packs, on a fresh run: something else, a pack, or one that
\* needs a newer canonic, which ends the command.
OfferPacks ==
    /\ pc = "offer"
    /\ \/ pc' = "connection" /\ UNCHANGED <<kind, job, draft>>
       \/ \E p \in Packs :
             IF p.compatible
             THEN job' = Install(p, Null) /\ pc' = "pack_connection" /\ UNCHANGED <<kind, draft>>
             ELSE EndTo("none")
    /\ UNCHANGED <<config, checkpoint, files, writing, todo>>

\* _prompt_pack_connection: of the connector the pack needs; the configuration
\* is written before the parameters are asked.
PackConnection ==
    /\ pc = "pack_connection"
    /\ \E c \in Connections, tested \in BOOLEAN :
          /\ Passed(c, tested)
          /\ c.type = job.pack.connector
          /\ job' = [job EXCEPT !.conn = c.id]
          /\ IF kind = "wizard"
             THEN BeginWrite(Configured(<<Entry(c, tested)>>, c.id, FALSE), "clear")
             ELSE /\ Len(config.conns) < MaxConns
                  /\ BeginWrite([config EXCEPT !.conns = Append(@, Entry(c, tested))], "pack_params")
    /\ UNCHANGED <<checkpoint, files, kind, draft, todo>>

\* check_required_tables and the preview: the tables are missing, the user
\* declines, or the files are written.
PackParams ==
    /\ pc = "pack_params"
    /\ \/ pc' = "install" /\ UNCHANGED <<kind, job, draft>>
       \/ EndTo("none")
       \/ EndTo(Back)
    /\ UNCHANGED <<config, checkpoint, files, writing, todo>>

\* Where a file of a pack goes, by the name inside it.
PackTarget(f, conn) == IF f.dir = "semantics" THEN Semantics(conn, f.name) ELSE <<f.dir, f.name>>

\* Mutant: two files of a pack may share a target.
Claimed_Never(target) == FALSE
\* _claim: another file of this install has written the target.
Claimed(target) == target \in job.claimed

\* install_pack, of one file: a missing name or a claimed target is an error
\* that leaves what is written; any other file is replaced.
InstallFile ==
    /\ pc = "install"
    /\ job.written < Len(job.pack.files)
    /\ LET f == job.pack.files[job.written + 1]
           target == PackTarget(f, job.conn)
       IN  IF f.name = Null \/ Claimed(target)
           THEN EndTo("none") /\ UNCHANGED files
           ELSE /\ files' = With(target, Written("pack", Null, <<job.pack.id, job.pack.version, job.written + 1>>))
                /\ job' = [job EXCEPT !.written = @ + 1, !.claimed = @ \cup {target}]
                /\ UNCHANGED <<pc, kind, draft>>
    /\ UNCHANGED <<config, checkpoint, writing, todo>>

EndInstall ==
    /\ pc = "install"
    /\ job.written = Len(job.pack.files)
    /\ EndTo(Back)
    /\ UNCHANGED <<config, checkpoint, files, writing, todo>>

Candidates(p) == {i \in DOMAIN config.conns : config.conns[i].type = p.connector}

\* pack add: an existing connection, and none is an error.
PackAdd ==
    /\ pc = "none"
    /\ Loadable(config)
    /\ \E p \in Packs : \E i \in Candidates(p) :
          /\ p.compatible
          /\ job' = Install(p, config.conns[i].id)
    /\ kind' = "cli"
    /\ pc' = "pack_params"
    /\ UNCHANGED <<config, checkpoint, files, draft, writing, todo>>

\* ---- The menu of an existing project ----

\* _add_connection_to_existing: an existing id is replaced once confirmed.
MenuAddConnection ==
    /\ pc = "menu"
    /\ Loadable(config)
    /\ \E c \in Connections, tested \in BOOLEAN :
          LET kept == Without(config.conns, c.id)
          IN  /\ Passed(c, tested)
              /\ Len(kept) < MaxConns
              /\ BeginWrite([config EXCEPT !.conns = Append(kept, Entry(c, tested))], "menu")
    /\ UNCHANGED <<checkpoint, files, kind, draft, job, todo>>

MenuGenerate ==
    /\ pc = "menu"
    /\ Pairs # <<>>
    /\ todo' = Pairs
    /\ pc' = "generate"
    /\ UNCHANGED <<config, checkpoint, files, kind, draft, writing, job>>

MenuLlm ==
    /\ pc = "menu"
    /\ Loadable(config)
    /\ BeginWrite([config EXCEPT !.llm = TRUE], "menu")
    /\ UNCHANGED <<checkpoint, files, kind, draft, job, todo>>

\* _add_pack_to_existing: a connection of the pack's connector, or a new one.
MenuPack ==
    /\ pc = "menu"
    /\ Loadable(config)
    /\ \E p \in Packs :
          /\ p.compatible
          /\ IF Candidates(p) = {}
             THEN job' = Install(p, Null) /\ pc' = "pack_connection"
             ELSE \E i \in Candidates(p) : job' = Install(p, config.conns[i].id) /\ pc' = "pack_params"
    /\ UNCHANGED <<config, checkpoint, files, kind, draft, writing, todo>>

\* ---- canonic connection ----

ConnectionAdd ==
    /\ pc = "none"
    /\ Loadable(config)
    /\ \E c \in Connections, default \in BOOLEAN :
          /\ c.id \notin Ids(config)
          /\ Len(config.conns) < MaxConns
          /\ BeginWrite(Configured(Append(config.conns, Entry(c, FALSE)),
                                   IF default THEN c.id ELSE config.default, config.llm), "none")
    /\ UNCHANGED <<checkpoint, files, kind, draft, job, todo>>

\* Mutant: the default is not cleared.
AfterRemove_KeepsDefault(id) == [config EXCEPT !.conns = Without(@, id)]
\* remove: the default goes with its connection.
AfterRemove(id) ==
    Configured(Without(config.conns, id),
               IF config.default = id THEN Null ELSE config.default, config.llm)

ConnectionRemove ==
    /\ pc = "none"
    /\ Loadable(config)
    /\ \E id \in Ids(config) : BeginWrite(AfterRemove(id), "none")
    /\ UNCHANGED <<checkpoint, files, kind, draft, job, todo>>

\* ---- The user ----

\* Ctrl-C, giving up, the end of a prompt or a crash.  While an answer is being
\* saved the checkpoint may be left torn.
Steps == {"name", "offer", "connection", "llm", "schema"}
Interrupt ==
    /\ pc # "none"
    /\ EndTo("none")
    /\ checkpoint' \in {checkpoint} \cup (IF pc \in Steps THEN {Torn} ELSE {})
    /\ writing' = Null
    /\ todo' = <<>>
    /\ UNCHANGED <<config, files>>

\* A contract is rewritten by hand: its source can no longer be told.
HumanEdit ==
    /\ pc = "none"
    /\ \E t \in DOMAIN files :
          /\ t[1] = "metrics"
          /\ files[t].by # "human"
          /\ files' = [files EXCEPT ![t] = Written("human", Null, Null)]
    /\ UNCHANGED <<config, checkpoint, pc, kind, draft, writing, job, todo>>

\* canonic.yaml is deleted, to set the project up again.
StartOver ==
    /\ pc = "none"
    /\ config # Null
    /\ config' = Null
    /\ UNCHANGED <<checkpoint, files, pc, kind, draft, writing, job, todo>>

Init ==
    /\ config = Null /\ checkpoint = Null /\ files = <<>>
    /\ pc = "none" /\ kind = "none" /\ draft = NoState
    /\ writing = Null /\ job = Null /\ todo = <<>>

Wizard ==
    \/ Setup \/ NameStep \/ OfferPacks \/ ConnectionStep \/ LlmStep \/ SchemaStep
    \/ WriteConfig \/ MinimalSetup \/ ClearState \/ Bootstrap
Next ==
    \/ Wizard
    \/ FinishWrite
    \/ GenerateContracts \/ WriteContract \/ EndGenerate
    \/ PackConnection \/ PackParams \/ InstallFile \/ EndInstall \/ PackAdd
    \/ MenuAddConnection \/ MenuGenerate \/ MenuLlm \/ MenuPack
    \/ ConnectionAdd \/ ConnectionRemove
    \/ Interrupt \/ HumanEdit \/ StartOver

Spec == Init /\ [][Next]_vars

\* ---- Properties ----

\* The fields of a state have the shapes the code gives them.
TypeOK ==
    /\ config \in Configs \cup {Null, Torn}
    /\ IsFile(config) => Len(config.conns) <= MaxConns
    /\ checkpoint \in States \cup {Null, Torn}
    /\ IsFile(checkpoint) => checkpoint.steps # {}
    /\ kind \in {"wizard", "minimal", "menu", "cli", "none"}
    /\ draft \in States
    /\ writing \in Writes \cup {Null}
    /\ job \in Jobs \cup {Null}
    /\ (writing # Null) <=> (pc = "dumping")
    /\ (todo # <<>>) => pc = "generate"
    /\ (pc = "install") => job # Null /\ job.conn # Null

Untested(c) == {i \in DOMAIN c.conns : ~ c.conns[i].tested}

\* The module's text on the checkpoint: a connection is recorded only after its
\* test passed, so whatever run resumes, no connection that came through a
\* prompt reaches canonic.yaml untested; those of `connection add` may.
PromptedMeansTested ==
    /\ (IsFile(checkpoint) /\ checkpoint.conn # Null) => checkpoint.conn.tested
    /\ (pc = "dumping" /\ kind = "wizard") => Untested(writing.config) = {}

\* The default connection is always one of the configured ones, through adding,
\* replacing and removing connections.
DefaultIsConfigured == IsFile(config) => config.default \in Ids(config) \cup {Null}

\* When an install is through, every file the pack lists stands in the project
\* as this version of the pack wrote it, whatever an interrupted install, an
\* older version or a hand edit had left there: no two of its files shared a
\* target.
InstallIsWhole ==
    (pc = "install" /\ job.written = Len(job.pack.files)) =>
        \A i \in DOMAIN job.pack.files :
           LET target == PackTarget(job.pack.files[i], job.conn)
           IN  target \in DOMAIN files /\ files[target].content = <<job.pack.id, job.pack.version, i>>

\* Generating contracts writes new files only: neither a hand edit nor what an
\* earlier run or a pack wrote is replaced.
GenerateOnlyAdds ==
    [][pc = "generate" => \A t \in DOMAIN files : t \in DOMAIN files' /\ files'[t] = files[t]]_vars

\* The saved answers are given up only once a whole canonic.yaml holds what they
\* were for (setup.py: dump_config before clear_state).
DumpedBeforeCleared ==
    [][(checkpoint # Null /\ checkpoint' = Null) => IsFile(config)]_vars

\* An answer that was saved is not asked again: however often the wizard is
\* interrupted and run again, it keeps the answer until the project is written
\* or the checkpoint itself is lost.
AnswersSurvive ==
    [][(IsFile(checkpoint) /\ IsFile(checkpoint')) =>
          /\ checkpoint.steps \subseteq checkpoint'.steps
          /\ "connection" \in checkpoint.steps => checkpoint'.conn = checkpoint.conn
          /\ "llm" \in checkpoint.steps => checkpoint'.llm = checkpoint.llm]_vars

\* What the wizard and the connection commands leave in the configuration was
\* tested, where it came through a prompt, and names its own default (setup.py,
\* connection.py; _maybe_narrow_schema narrows a connection after its test).
ConfigIsSound ==
    /\ TypeOK
    /\ PromptedMeansTested
    /\ DefaultIsConfigured

\* Running a command again takes nothing away: neither a person's answers nor
\* contracts that exist (setup.py, bootstrap.py).
WorkSurvives ==
    /\ GenerateOnlyAdds
    /\ DumpedBeforeCleared
    /\ AnswersSurvive
==============================================================================
