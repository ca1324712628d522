----------------------------- MODULE PendingRuns -----------------------------
(***************************************************************************)
(* The pending-diff store under .canonic/pending-diffs/ and the commands   *)
(* that share it without a lock: `canonic ingest` creating a run           *)
(* directory, `canonic review` and `canonic apply` resolving its           *)
(* proposals, and `canonic gc` removing resolved runs.  Any command can    *)
(* crash between two file operations.                                      *)
(*                                                                         *)
(* A run directory is named after the second it was created in plus a      *)
(* collision suffix.  Every run carries the same number of proposals;      *)
(* what a proposal says is abstracted to its target and its operation.     *)
(***************************************************************************)
EXTENDS Naturals

CONSTANTS
    Ingests,      \* ingest processes, one run each
    Sessions,     \* review/apply processes, reused after they exit
    Targets,      \* context files
    NumProps,     \* proposals per run
    Target,       \* the file a proposal is about
    Op,           \* "write" (add or edit) or "prune"
    Surface,      \* what kind of file a target is
    MayCrash,     \* whether commands crash between two file operations
    MaxSecond,    \* bound on the clock
    MaxSuffix     \* bound on the collision suffix

Props == 1..NumProps
Runs == (1..MaxSecond) \X (1..MaxSuffix)

ASSUME PendingRunsAssumption ==
    /\ NumProps \in Nat \ {0}
    /\ MayCrash \in BOOLEAN
    /\ MaxSecond \in Nat \ {0}
    /\ MaxSuffix \in Nat \ {0}
    /\ Target \in [Props -> Targets]
    /\ Op \in [Props -> {"write", "prune"}]
    /\ Surface \in [Targets -> {"source", "metric", "other"}]

\* ProposalStatus: "pending" is the only status that is not terminal.
Statuses == {"pending", "accepted", "rejected", "frozen", "curated"}
\* What the answers a, f, c of a review turn a proposal into.
Applying == {"accepted", "frozen", "curated"}

VARIABLES
    clock,    \* the current second
    made,     \* run directories that exist
    report,   \* those whose report.yaml is written
    status,   \* status.yaml of each run: missing, being written, or a list
    diff,     \* the .diff files that are there
    aged,     \* runs whose status.yaml is older than the gc cutoff
    ingest,   \* per ingest: program counter and chosen run directory
    session,  \* per review/apply: program counter and its in-memory state
    doomed,   \* runs a gc scan found expired and has not removed yet
    file,     \* the context files
    done      \* history: <<run, proposal, status>> whose file work finished

store == <<made, report, status, diff, aged>>
vars == <<clock, store, ingest, session, doomed, file, done>>

Pending(list) == {p \in Props : list[p] = "pending"}
AllPending == [p \in Props |-> "pending"]
NoStatus == [on |-> "missing", list |-> AllPending]

\* PendingRun.load succeeds: both files are there and status.yaml parses.
Loadable(r) == r \in made /\ r \in report /\ status[r].on = "list"

IdleSession ==
    [pc |-> "idle", kind |-> "review", run |-> <<1, 1>>, list |-> AllPending,
     cur |-> 1, as |-> "accepted"]

Init ==
    /\ clock = 1
    /\ made = {}
    /\ report = {}
    /\ status = [r \in Runs |-> NoStatus]
    /\ diff = [r \in Runs |-> {}]
    /\ aged = {}
    /\ ingest = [i \in Ingests |-> [pc |-> "idle", run |-> <<1, 1>>]]
    /\ session = [s \in Sessions |-> IdleSession]
    /\ doomed = {}
    /\ file = [t \in Targets |->
                 [on |-> FALSE, by |-> {}, frozen |-> FALSE, curated |-> FALSE]]
    /\ done = {}

-----------------------------------------------------------------------------
(* PendingDiffStore.write                                                   *)

\* _unique_run_dir: the first name of this second that does not exist yet.
UniqueRunDir(i) ==
    /\ ingest[i].pc = "idle"
    /\ \E k \in 1..MaxSuffix :
         /\ <<clock, k>> \notin made
         /\ \A j \in 1..(k - 1) : <<clock, j>> \in made
         /\ ingest' = [ingest EXCEPT ![i] = [pc |-> "chosen", run |-> <<clock, k>>]]
    /\ UNCHANGED <<clock, store, session, doomed, file, done>>

\* Mutant: mkdir(exist_ok=True).
MakeRunDirExistOk(i) ==
    LET r == ingest[i].run IN
    /\ ingest[i].pc = "chosen"
    /\ made' = made \cup {r}
    /\ diff' = [diff EXCEPT ![r] = Props]
    /\ ingest' = [ingest EXCEPT ![i].pc = "made"]
    /\ UNCHANGED <<clock, report, status, aged, session, doomed, file, done>>

\* proposals_dir.mkdir(parents=True): exclusive, then the .diff files.
MakeRunDir(i) ==
    LET r == ingest[i].run IN
    /\ ingest[i].pc = "chosen"
    /\ r \notin made
    /\ made' = made \cup {r}
    /\ diff' = [diff EXCEPT ![r] = Props]
    /\ ingest' = [ingest EXCEPT ![i].pc = "made"]
    /\ UNCHANGED <<clock, report, status, aged, session, doomed, file, done>>

\* The directory appeared after it was chosen: mkdir raises FileExistsError.
Collide(i) ==
    /\ ingest[i].pc = "chosen"
    /\ ingest[i].run \in made
    /\ ingest' = [ingest EXCEPT ![i].pc = "collided"]
    /\ UNCHANGED <<clock, store, session, doomed, file, done>>

WriteReport(i) ==
    /\ ingest[i].pc = "made"
    /\ report' = report \cup {ingest[i].run}
    /\ ingest' = [ingest EXCEPT ![i].pc = "reported"]
    /\ UNCHANGED <<clock, made, status, diff, aged, session, doomed, file, done>>

\* status.yaml last, with every proposal pending.
WriteStatus(i) ==
    LET r == ingest[i].run IN
    /\ ingest[i].pc = "reported"
    /\ status' = [status EXCEPT ![r] = [on |-> "list", list |-> AllPending]]
    /\ aged' = aged \ {r}
    /\ ingest' = [ingest EXCEPT ![i].pc = "done"]
    /\ UNCHANGED <<clock, made, report, diff, session, doomed, file, done>>

CrashIngest(i) ==
    /\ MayCrash
    /\ ingest[i].pc \in {"chosen", "made", "reported"}
    /\ ingest' = [ingest EXCEPT ![i].pc = "crashed"]
    /\ UNCHANGED <<clock, store, session, doomed, file, done>>

-----------------------------------------------------------------------------
(* canonic review and canonic apply                                         *)

OpenReview(s) ==
    /\ session[s].pc = "idle"
    /\ \E r \in made :
         /\ Loadable(r)
         /\ Pending(status[r].list) # {}
         /\ session' = [session EXCEPT ![s] =
              [IdleSession EXCEPT !.pc = "next", !.run = r, !.list = status[r].list]]
    /\ UNCHANGED <<clock, store, ingest, doomed, file, done>>

OpenApply(s) ==
    /\ session[s].pc = "idle"
    /\ \E r \in made :
         /\ Loadable(r)
         /\ session' = [session EXCEPT ![s] =
              [IdleSession EXCEPT !.pc = "next", !.kind = "apply", !.run = r,
                                  !.list = status[r].list]]
    /\ UNCHANGED <<clock, store, ingest, doomed, file, done>>

\* The session stands at a proposal it loaded as pending.
AtPending(s) ==
    /\ session[s].pc = "next"
    /\ session[s].cur \in Props
    /\ session[s].list[session[s].cur] = "pending"

HasDiff(s) == session[s].cur \in diff[session[s].run]

\* review prints the diff file and waits at the prompt.
Show(s) ==
    /\ session[s].kind = "review"
    /\ AtPending(s)
    /\ HasDiff(s)
    /\ session' = [session EXCEPT ![s].pc = "shown"]
    /\ UNCHANGED <<clock, store, ingest, doomed, file, done>>

\* The proposal is about to be applied: apply found the diff file, or the
\* person answers the prompt.
Ready(s) ==
    \/ session[s].pc = "shown"
    \/ session[s].kind = "apply" /\ AtPending(s) /\ HasDiff(s)

\* Mutant: the cursor is not compared with the end of the list.
SkipPastEnd(s) ==
    /\ session[s].pc = "next"
    /\ ~AtPending(s)
    /\ session' = [session EXCEPT ![s].cur = @ + 1]
    /\ UNCHANGED <<clock, store, ingest, doomed, file, done>>

\* Not pending at load time; for apply also: the diff file was deleted.
SkipProposal(s) ==
    /\ session[s].pc = "next"
    /\ session[s].cur \in Props
    /\ AtPending(s) => (session[s].kind = "apply" /\ ~HasDiff(s))
    /\ session' = [session EXCEPT ![s].cur = @ + 1]
    /\ UNCHANGED <<clock, store, ingest, doomed, file, done>>

\* Mutant: the answer is recorded before the file is written.
AcceptBeforeWriting(s, as) ==
    /\ Ready(s)
    /\ session[s].kind = "apply" => as = "accepted"
    /\ session' = [session EXCEPT ![s].pc = "save", ![s].as = as,
                                  ![s].list[session[s].cur] = as]
    /\ UNCHANGED <<clock, store, ingest, doomed, file, done>>

\* The answers a, f and c; apply takes a for every proposal it does not skip.
Accept(s, as) ==
    /\ Ready(s)
    /\ session[s].kind = "apply" => as = "accepted"
    /\ session' = [session EXCEPT ![s].pc = "write", ![s].as = as]
    /\ UNCHANGED <<clock, store, ingest, doomed, file, done>>

\* The answer r: nothing is written but the status.
Reject(s) ==
    /\ session[s].pc = "shown"
    /\ session' = [session EXCEPT ![s].pc = "save",
                                  ![s].list[session[s].cur] = "rejected"]
    /\ UNCHANGED <<clock, store, ingest, doomed, file, done>>

\* The answer s: the proposal stays pending and nothing is saved.
Postpone(s) ==
    /\ session[s].pc = "shown"
    /\ session' = [session EXCEPT ![s].pc = "next", ![s].cur = @ + 1]
    /\ UNCHANGED <<clock, store, ingest, doomed, file, done>>

\* After the file work: review saves the list at once, apply only after its
\* last proposal.
Resolved(s) ==
    [session EXCEPT ![s].list[session[s].cur] = session[s].as,
                    ![s].pc = IF session[s].kind = "review" THEN "save" ELSE "next",
                    ![s].cur = IF session[s].kind = "review" THEN @ ELSE @ + 1]

\* write_emitted_diffs: unlink for a prune, else the `after` text re-emitted
\* from report.yaml, over whatever the file holds now.
Written(s) ==
    IF Op[session[s].cur] = "prune"
    THEN [file[Target[session[s].cur]] EXCEPT !.on = FALSE]
    ELSE [on |-> TRUE, by |-> {<<session[s].run, session[s].cur>>},
          frozen |-> FALSE, curated |-> FALSE]

\* Mutant: freezing and curating stop after the content is written.
WriteContentOnly(s) ==
    LET p == session[s].cur IN
    /\ session[s].pc = "write"
    /\ file' = [file EXCEPT ![Target[p]] = Written(s)]
    /\ session' = Resolved(s)
    /\ done' = done \cup {<<session[s].run, p, session[s].as>>}
    /\ UNCHANGED <<clock, store, ingest, doomed>>

\* apply_entry for a, or for a prune, where f and c are ignored.
WriteContent(s) ==
    LET p == session[s].cur IN
    /\ session[s].pc = "write"
    /\ file' = [file EXCEPT ![Target[p]] = Written(s)]
    /\ IF session[s].as = "accepted" \/ Op[p] = "prune"
       THEN /\ session' = Resolved(s)
            /\ done' = done \cup {<<session[s].run, p, session[s].as>>}
       ELSE /\ session' = [session EXCEPT ![s].pc = "annotate"]
            /\ done' = done
    /\ UNCHANGED <<clock, store, ingest, doomed>>

\* The marker is set on the surfaces that have a field for it.
Marks(t, as, marker, surfaces) == file[t].on /\ as = marker /\ Surface[t] \in surfaces

\* apply_entry's second write: reload the file, set the flag, write it back.
Annotate(s) ==
    LET p == session[s].cur
        t == Target[p] IN
    /\ session[s].pc = "annotate"
    /\ file' = [file EXCEPT
         ![t].frozen = @ \/ Marks(t, session[s].as, "frozen", {"source"}),
         ![t].curated = @ \/ Marks(t, session[s].as, "curated", {"source", "metric"})]
    /\ session' = Resolved(s)
    /\ done' = done \cup {<<session[s].run, p, session[s].as>>}
    /\ UNCHANGED <<clock, store, ingest, doomed>>

\* apply reached the end of its list.
FinishApply(s) ==
    /\ session[s].pc = "next"
    /\ session[s].kind = "apply"
    /\ session[s].cur \notin Props
    /\ session' = [session EXCEPT ![s].pc = "save"]
    /\ UNCHANGED <<clock, store, ingest, doomed, file, done>>

\* update_status, first half: read status.yaml back, then open it for writing,
\* which truncates it.
TruncateStatus(s) ==
    LET r == session[s].run IN
    /\ session[s].pc = "save"
    /\ r \in made /\ status[r].on = "list"
    /\ status' = [status EXCEPT ![r].on = "torn"]
    /\ aged' = aged \ {r}
    /\ session' = [session EXCEPT ![s].pc = "store"]
    /\ UNCHANGED <<clock, made, report, diff, ingest, doomed, file, done>>

\* Mutant: only the entry just answered is saved.
StoreStatusOne(s) ==
    LET r == session[s].run
        p == session[s].cur IN
    /\ session[s].pc = "store"
    /\ status' = [status EXCEPT ![r] =
         [on |-> "list", list |-> [q \in Props |-> IF q = p THEN session[s].list[q]
                                                            ELSE "pending"]]]
    /\ aged' = aged \ {r}
    /\ session' = [session EXCEPT ![s] =
         IF session[s].kind = "review"
         THEN [session[s] EXCEPT !.pc = "next", !.cur = @ + 1]
         ELSE IdleSession]
    /\ UNCHANGED <<clock, made, report, diff, ingest, doomed, file, done>>

\* update_status, second half: the session's whole in-memory list lands.
StoreStatus(s) ==
    LET r == session[s].run IN
    /\ session[s].pc = "store"
    /\ IF r \in made /\ status[r].on = "torn"
       THEN status' = [status EXCEPT ![r] = [on |-> "list", list |-> session[s].list]]
       ELSE status' = status
    /\ aged' = aged \ {r}
    /\ session' = [session EXCEPT ![s] =
         IF session[s].kind = "review"
         THEN [session[s] EXCEPT !.pc = "next", !.cur = @ + 1]
         ELSE IdleSession]
    /\ UNCHANGED <<clock, made, report, diff, ingest, doomed, file, done>>

\* The review ran out of proposals, the answer q, or an error: a deleted diff
\* file under review, a status.yaml that cannot be read back.
LeaveSession(s) ==
    /\ \/ session[s].pc \in {"next", "shown"} /\ session[s].kind = "review"
       \/ /\ session[s].pc = "save"
          /\ ~(session[s].run \in made /\ status[session[s].run].on = "list")
    /\ session' = [session EXCEPT ![s] = IdleSession]
    /\ UNCHANGED <<clock, store, ingest, doomed, file, done>>

CrashSession(s) ==
    /\ MayCrash
    /\ session[s].pc # "idle"
    /\ session' = [session EXCEPT ![s] = IdleSession]
    /\ UNCHANGED <<clock, store, ingest, doomed, file, done>>

-----------------------------------------------------------------------------
(* canonic gc --apply --pending-diffs-older-than                            *)

\* Mutant: the age alone decides.
ExpiredByAge(r) == r \in made /\ r \in aged /\ status[r].on = "list"

\* expired_pending_runs: old enough, readable, and nothing pending.
Expired(r) ==
    /\ r \in made /\ r \in aged
    /\ status[r].on = "list"
    /\ Pending(status[r].list) = {}

GcScan ==
    /\ doomed = {}
    /\ doomed' = {r \in made : Expired(r)}
    /\ doomed' # {}
    /\ UNCHANGED <<clock, store, ingest, session, file, done>>

\* shutil.rmtree, half way: the files are gone, the directory is not.
GcUnlink ==
    /\ \E r \in doomed :
         /\ status[r].on # "missing"
         /\ status' = [status EXCEPT ![r] = NoStatus]
         /\ report' = report \ {r}
         /\ diff' = [diff EXCEPT ![r] = {}]
    /\ UNCHANGED <<clock, made, aged, ingest, session, doomed, file, done>>

GcRmdir ==
    /\ \E r \in doomed :
         /\ status[r].on = "missing"
         /\ made' = made \ {r}
         /\ doomed' = doomed \ {r}
    /\ UNCHANGED <<clock, report, status, diff, aged, ingest, session, file, done>>

GcCrash ==
    /\ MayCrash
    /\ doomed # {}
    /\ doomed' = {}
    /\ UNCHANGED <<clock, store, ingest, session, file, done>>

-----------------------------------------------------------------------------
(* The user and time                                                        *)

\* The user deletes a .diff file to keep apply from taking the proposal.
DeleteDiff ==
    /\ \E r \in report : \E p \in diff[r] : diff' = [diff EXCEPT ![r] = @ \ {p}]
    /\ UNCHANGED <<clock, made, report, status, aged, ingest, session, doomed,
                   file, done>>

Tick ==
    /\ clock < MaxSecond
    /\ clock' = clock + 1
    /\ UNCHANGED <<store, ingest, session, doomed, file, done>>

\* status.yaml of a run grows older than the cutoff.
Age ==
    /\ \E r \in made \ aged :
         /\ r[1] < clock
         /\ status[r].on # "missing"
         /\ aged' = aged \cup {r}
    /\ UNCHANGED <<clock, made, report, status, diff, ingest, session, doomed,
                   file, done>>

IngestStep(i) ==
    \/ UniqueRunDir(i) \/ MakeRunDir(i) \/ Collide(i)
    \/ WriteReport(i) \/ WriteStatus(i) \/ CrashIngest(i)

SessionStep(s) ==
    \/ OpenReview(s) \/ OpenApply(s) \/ Show(s) \/ SkipProposal(s) \/ Postpone(s)
    \/ \E as \in Applying : Accept(s, as)
    \/ Reject(s) \/ WriteContent(s) \/ Annotate(s) \/ FinishApply(s)
    \/ TruncateStatus(s) \/ StoreStatus(s) \/ LeaveSession(s) \/ CrashSession(s)

GcStep == GcScan \/ GcUnlink \/ GcRmdir \/ GcCrash

Next ==
    \/ \E i \in Ingests : IngestStep(i)
    \/ \E s \in Sessions : SessionStep(s)
    \/ GcStep \/ DeleteDiff \/ Tick \/ Age

Spec == Init /\ [][Next]_vars
-----------------------------------------------------------------------------
(* Properties                                                               *)

SessionRecord ==
    [pc : {"idle", "next", "shown", "write", "annotate", "save", "store"},
     kind : {"review", "apply"}, run : Runs, list : [Props -> Statuses],
     cur : 1..(NumProps + 1), as : Applying]

FileRecord ==
    [on : BOOLEAN, by : SUBSET (Runs \X Props),
     frozen : BOOLEAN, curated : BOOLEAN]

RunStatus == [on : {"missing", "torn", "list"}, list : [Props -> Statuses]]

\* The types of the store, the processes and the files.
TypeOK ==
    /\ clock \in 1..MaxSecond
    /\ made \subseteq Runs /\ report \subseteq Runs
    /\ aged \subseteq Runs /\ doomed \subseteq Runs
    /\ status \in [Runs -> RunStatus]
    /\ diff \in [Runs -> SUBSET Props]
    /\ ingest \in [Ingests ->
         [pc : {"idle", "chosen", "made", "reported", "done", "collided", "crashed"},
          run : Runs]]
    /\ session \in [Sessions -> SessionRecord]
    /\ file \in [Targets -> FileRecord]
    /\ done \subseteq Runs \X Props \X Applying

\* A run directory has one writer, and the writer starts from a directory
\* without recorded decisions: an ingest that is still filling its directory
\* shares it with no other ingest, and no status.yaml is there to be replaced.
OneWriterPerRun ==
    \A i \in Ingests :
        ingest[i].pc \in {"made", "reported"} =>
            /\ ingest[i].run \in made
            /\ status[ingest[i].run].on = "missing"
            /\ \A j \in Ingests \ {i} :
                 ingest[j].pc \in {"made", "reported"} => ingest[j].run # ingest[i].run

\* apply_entry comes before update_status: a proposal recorded as accepted,
\* frozen or curated has had its file work finished in just that way, whoever
\* crashed and whoever else had the run open.
AppliedBeforeRecorded ==
    \A r \in Runs, p \in Props :
        status[r].list[p] \in Applying => <<r, p, status[r].list[p]>> \in done

\* The file still holds what a proposal wrote.
StillHolds(r, p) ==
    Op[p] = "write" /\ file[Target[p]].on /\ file[Target[p]].by = {<<r, p>>}

\* While the file still holds what this proposal wrote, the status "frozen" or
\* "curated" is backed by the marker that makes the next ingest respect it, on
\* every surface that has such a marker.
ProtectionRecorded ==
    \A r \in Runs, p \in Props :
        LET t == Target[p] IN
        StillHolds(r, p) =>
            /\ status[r].list[p] = "frozen" /\ Surface[t] = "source" => file[t].frozen
            /\ status[r].list[p] = "curated" /\ Surface[t] # "other" => file[t].curated

\* A decision, once recorded, is never reverted or replaced while its run
\* exists, and no review or apply that starts or goes on after a rejection
\* carries the proposal out: both skip what is not pending.
TerminalIsFinal ==
    [][\A r \in Runs, p \in Props :
         /\ (status[r].list[p] # "pending" /\ status'[r].on # "missing") =>
               status'[r].list[p] = status[r].list[p]
         /\ status[r].list[p] = "rejected" =>
               \A as \in Applying : <<r, p, as>> \notin done' \ done]_vars

\* canonic gc never removes a run that still has a pending proposal, also when
\* a review works on the run between the scan and the removal.
GcKeepsUnreviewed ==
    [][\A r \in Runs :
         (status[r].on # "missing" /\ status'[r].on = "missing") =>
             Pending(status[r].list) = {}]_vars

=============================================================================
