------------------------------ MODULE Serving -------------------------------
(***************************************************************************)
(* The service that answers queries from a project whose files change:     *)
(* src/canonic/core/project.py (ProjectState, ProjectReloader),            *)
(* core/context.py (request pinning, execution), core/query.py (query,     *)
(* run_sql, answer events), core/reports.py (a request of several          *)
(* queries), core/service.py (start-up).                                   *)
(*                                                                         *)
(* Python serves requests on one event loop: a request gives way to        *)
(* another only where it awaits the warehouse, and a reload blocks them    *)
(* all.  The files are edited by other processes at any moment, between    *)
(* two reads of one reload too, so a reload is one step per part it reads. *)
(***************************************************************************)
EXTENDS Integers, Sequences, FiniteSets

CONSTANTS
    Requests,     \* request slots
    Good,         \* contents of a file that load
    Bad,          \* contents that do not validate
    None,         \* no snapshot, no failure
    MaxEdits,     \* bound: edits of the project's files
    MaxAnswers    \* bound: answers given

Parts == {"config", "contracts", "semantics"}

ASSUME ServingAssumption ==
    /\ Good \cap Bad = {} /\ MaxEdits \in Nat
    /\ None \notin Good \cup Bad \cup Requests \cup {"boot"} \cup [Parts -> Nat]
    /\ "boot" \notin Requests

Contents == Good \cup Bad
\* The order ProjectState.load reads in.
LoadOrder == <<"config", "fingerprint", "contracts", "semantics">>

VARIABLES
    disk,      \* [Parts -> [content, stamp]]: the files, with size and mtime as a stamp
    mode,      \* project.reload: auto or off
    up,        \* the process has started serving
    work,      \* the reload in progress: who waits for it, what it has read so far
    served,    \* ProjectReloader._state: the content of each part, and the fingerprint
    sig,       \* _signature
    failure,   \* _failure: the signature that did not load, or None
    checked,   \* _checked_signature
    drift,     \* _files_changed
    req,       \* [Requests -> where the request stands]
    asked,     \* [Requests -> what it asked for: a query, a report, raw SQL]
    left,      \* [Requests -> statements it still has to run]
    pin,       \* [Requests -> the state the request is served from]
    open,      \* [Requests -> connectors it holds open]
    log,       \* the answer events
    noticed,   \* the signature the last finished look at the files was about
    raced      \* an edit fell between the start-up load and its signature

diskVars == <<disk, mode>>
reloaderVars == <<served, sig, failure, checked, drift, noticed, raced>>
reqVars == <<req, asked, left, pin, open, log>>
vars == <<diskVars, up, work, reloaderVars, reqVars>>

Signature == [p \in Parts |-> disk[p].stamp]
Fingerprint == [p \in Parts |-> disk[p].content]
Edits == disk["config"].stamp + disk["contracts"].stamp + disk["semantics"].stamp
Idle == [who |-> None]
NothingRead == [p \in Parts |-> None]
NoState == [parts |-> NothingRead, fp |-> NothingRead]

Init ==
    /\ \E content \in Good : disk = [p \in Parts |-> [content |-> content, stamp |-> 0]]
    /\ mode \in {"auto", "off"}
    /\ up = FALSE
    /\ work = Idle
    /\ served = NoState
    /\ sig = Signature /\ checked = Signature /\ noticed = Signature
    /\ failure = None
    /\ drift = FALSE /\ raced = FALSE
    /\ req = [r \in Requests |-> "idle"]
    /\ asked = [r \in Requests |-> "query"]
    /\ left = [r \in Requests |-> 0]
    /\ pin = [r \in Requests |-> NoState]
    /\ open = [r \in Requests |-> 0]
    /\ log = << >>

-----------------------------------------------------------------------------
(* Other processes.                                                         *)

\* Someone writes a file: new content, the old content again, or content that
\* does not validate.
Edit(p, content) ==
    /\ Edits < MaxEdits
    /\ disk' = [disk EXCEPT ![p] = [content |-> content, stamp |-> @.stamp + 1]]
    /\ raced' = (raced \/ (~up /\ work # Idle))
    /\ UNCHANGED <<mode, up, work, served, sig, failure, checked, drift, noticed, reqVars>>

-----------------------------------------------------------------------------
(* Loading.                                                                 *)

StartLoad(who) ==
    work' = [who |-> who, step |-> 1, sig |-> Signature,
             parts |-> NothingRead, fp |-> NothingRead]

Reading == work # Idle /\ "step" \in DOMAIN work /\ work.step <= Len(LoadOrder)
AtPart == LoadOrder[work.step]
Unreadable == AtPart \in Parts /\ disk[AtPart].content \in Bad

\* ProjectState.load: config, the fingerprint of all files, contracts, sources.
LoadStep ==
    /\ Reading /\ ~Unreadable
    /\ work' = IF AtPart = "fingerprint"
               THEN [work EXCEPT !.fp = Fingerprint, !.step = @ + 1]
               ELSE [work EXCEPT !.parts[AtPart] = disk[AtPart].content, !.step = @ + 1]
    /\ UNCHANGED <<diskVars, up, reloaderVars, reqVars>>

Loaded == [parts |-> work.parts, fp |-> work.fp]
LoadDone == work # Idle /\ "step" \in DOMAIN work /\ work.step > Len(LoadOrder)

\* from_project, at start-up.
Boot ==
    /\ ~up /\ work = Idle
    /\ StartLoad("boot")
    /\ raced' = FALSE
    /\ UNCHANGED <<diskVars, up, served, sig, failure, checked, drift, noticed, reqVars>>

BootFails ==
    /\ Reading /\ Unreadable /\ work.who = "boot"
    /\ work' = Idle
    /\ UNCHANGED <<diskVars, up, reloaderVars, reqVars>>

\* ProjectReloader.__init__ reads the signature after the load.
BootDone ==
    /\ LoadDone /\ work.who = "boot"
    /\ up' = TRUE
    /\ served' = Loaded
    /\ sig' = Signature /\ checked' = Signature /\ noticed' = Signature
    /\ work' = Idle
    /\ UNCHANGED <<diskVars, failure, drift, raced, reqVars>>

-----------------------------------------------------------------------------
(* Requests.                                                                *)

Free == up /\ work = Idle
Kinds == {"query", "report", "sql"}
Statements(k) == IF k = "report" THEN 2 ELSE 1

\* ServiceContext.request: the outermost call pins the state refresh returned.
Pin(r, state) ==
    /\ req' = [req EXCEPT ![r] = IF req[r] = "idle" THEN "pinned" ELSE @]
    /\ pin' = [pin EXCEPT ![r] = state]

Ask(r, k) ==
    /\ asked' = [asked EXCEPT ![r] = k]
    /\ left' = [left EXCEPT ![r] = Statements(k)]

\* refresh, when there is nothing to load.
BeginCurrent(r, k) ==
    /\ Free /\ req[r] = "idle" /\ Len(log) < MaxAnswers
    /\ IF mode = "auto" THEN Signature = sig \/ failure = Signature
                        ELSE Signature = checked
    /\ failure' = IF mode = "auto" /\ Signature = sig THEN None ELSE failure
    /\ noticed' = Signature
    /\ Pin(r, served) /\ Ask(r, k)
    /\ UNCHANGED <<diskVars, up, work, served, sig, checked, drift, raced, open, log>>

\* refresh under auto, when a file changed: load first.
BeginReload(r, k) ==
    /\ Free /\ req[r] = "idle" /\ Len(log) < MaxAnswers
    /\ mode = "auto" /\ Signature # sig /\ failure # Signature
    /\ StartLoad(r)
    /\ Ask(r, k)
    /\ UNCHANGED <<diskVars, up, reloaderVars, req, pin, open, log>>

\* Mutant: the signature is taken after the load.
ReloadDoneLateSignature ==
    /\ LoadDone /\ work.who \in Requests
    /\ served' = Loaded
    /\ sig' = Signature /\ noticed' = Signature
    /\ failure' = None
    /\ Pin(work.who, Loaded)
    /\ work' = Idle
    /\ UNCHANGED <<diskVars, up, checked, drift, raced, asked, left, open, log>>

ReloadDone ==
    /\ LoadDone /\ work.who \in Requests
    /\ served' = Loaded
    /\ sig' = work.sig /\ noticed' = work.sig
    /\ failure' = None
    /\ Pin(work.who, Loaded)
    /\ work' = Idle
    /\ UNCHANGED <<diskVars, up, checked, drift, raced, asked, left, open, log>>

\* A change that does not validate: the previous state keeps serving, and the
\* same files are not parsed again.
ReloadFails ==
    /\ Reading /\ Unreadable /\ work.who \in Requests
    /\ failure' = work.sig /\ noticed' = work.sig
    /\ Pin(work.who, served)
    /\ work' = Idle
    /\ UNCHANGED <<diskVars, up, served, sig, checked, drift, raced, asked, left, open, log>>

\* refresh under off: _note_drift reads the signature ...
BeginDriftCheck(r, k) ==
    /\ Free /\ req[r] = "idle" /\ Len(log) < MaxAnswers
    /\ mode = "off" /\ Signature # checked
    /\ work' = [who |-> r, sig |-> Signature]
    /\ checked' = Signature
    /\ Ask(r, k)
    /\ UNCHANGED <<diskVars, up, served, sig, failure, drift, noticed, raced, req, pin, open, log>>

\* ... and compares the content with the loaded state's.
DriftChecked ==
    /\ work # Idle /\ "step" \notin DOMAIN work
    /\ drift' = (Fingerprint # served.fp)
    /\ noticed' = work.sig
    /\ Pin(work.who, served)
    /\ work' = Idle
    /\ UNCHANGED <<diskVars, up, served, sig, failure, checked, raced, asked, left, open, log>>

\* Mutant: a statement runs on the latest state, not on the pinned one.
StateOfLatest(r) == served

\* ServiceContext.state inside a request.
StateOf(r) == pin[r]

\* The event names the state the answer was computed from.
AppendEvent(r) ==
    log' = Append(log, [who |-> r, from |-> StateOf(r), recorded |-> StateOf(r)])

\* A compile that fails raises out of query, which still records an event; the
\* sections of a report go on, other requests end.
CompileFails(r) ==
    /\ Free /\ req[r] = "pinned" /\ left[r] > 0 /\ asked[r] # "sql"
    /\ AppendEvent(r)
    /\ left' = [left EXCEPT ![r] = @ - 1]
    /\ UNCHANGED <<diskVars, up, work, reloaderVars, req, asked, pin, open>>

\* The statement is compiled, or the run_sql gate passed, and a connector of its
\* own is opened; from here the request awaits.
Execute(r) ==
    /\ Free /\ req[r] = "pinned" /\ left[r] > 0
    /\ req' = [req EXCEPT ![r] = "executing"]
    /\ open' = [open EXCEPT ![r] = @ + 1]
    /\ UNCHANGED <<diskVars, up, work, reloaderVars, asked, left, pin, log>>

\* The run_sql gate refuses before a connector is opened, and before the code
\* that records an event.
GateRefuses(r) ==
    /\ Free /\ req[r] = "pinned" /\ left[r] = 1 /\ asked[r] = "sql"
    /\ left' = [left EXCEPT ![r] = 0]
    /\ UNCHANGED <<diskVars, up, work, reloaderVars, req, asked, pin, open, log>>

\* The warehouse answered or failed: the connector is closed and the event
\* written in either case.
Finished(r) ==
    /\ Free /\ req[r] = "executing"
    /\ open' = [open EXCEPT ![r] = @ - 1]
    /\ AppendEvent(r)
    /\ left' = [left EXCEPT ![r] = @ - 1]
    /\ req' = [req EXCEPT ![r] = "pinned"]
    /\ UNCHANGED <<diskVars, up, work, reloaderVars, asked, pin>>

\* The client gave up: the finally blocks run on the way out of the request.
Cancelled(r) ==
    /\ Free /\ req[r] = "executing"
    /\ open' = [open EXCEPT ![r] = @ - 1]
    /\ AppendEvent(r)
    /\ left' = [left EXCEPT ![r] = 0]
    /\ req' = [req EXCEPT ![r] = "idle"]
    /\ pin' = [pin EXCEPT ![r] = NoState]
    /\ UNCHANGED <<diskVars, up, work, reloaderVars, asked>>

EndRequest(r) ==
    /\ Free /\ req[r] = "pinned" /\ left[r] = 0
    /\ req' = [req EXCEPT ![r] = "idle"]
    /\ pin' = [pin EXCEPT ![r] = NoState]
    /\ UNCHANGED <<diskVars, up, work, reloaderVars, asked, left, open, log>>

Next ==
    \/ \E p \in Parts, content \in Contents : Edit(p, content)
    \/ Boot \/ BootFails \/ BootDone \/ LoadStep
    \/ ReloadDone \/ ReloadFails \/ DriftChecked
    \/ \E r \in Requests :
         \/ \E k \in Kinds :
              BeginCurrent(r, k) \/ BeginReload(r, k) \/ BeginDriftCheck(r, k)
         \/ CompileFails(r) \/ Execute(r) \/ GateRefuses(r)
         \/ Finished(r) \/ Cancelled(r) \/ EndRequest(r)

Spec == Init /\ [][Next]_vars

-----------------------------------------------------------------------------
(* Properties.                                                              *)

State == [parts : [Parts -> Contents \cup {None}], fp : [Parts -> Contents \cup {None}]]

TypeOK ==
    /\ disk \in [Parts -> [content : Contents, stamp : 0..MaxEdits]]
    /\ mode \in {"auto", "off"} /\ up \in BOOLEAN
    /\ drift \in BOOLEAN /\ raced \in BOOLEAN
    /\ served \in State
    /\ {sig, checked, noticed} \subseteq [Parts -> 0..MaxEdits]
    /\ req \in [Requests -> {"idle", "pinned", "executing"}]
    /\ asked \in [Requests -> Kinds]
    /\ left \in [Requests -> 0..2] /\ open \in [Requests -> 0..2]
    /\ pin \in [Requests -> State]

\* What is served has been loaded: a change that does not validate never reaches
\* a request, not even the part of it that was read before the error
\* (project.py: refresh).
ServesOnlyLoaded ==
    \A p \in Parts : up => /\ served.parts[p] \in Good
                          /\ \A r \in Requests : req[r] # "idle" => pin[r].parts[p] \in Good

\* Once the service has looked at files that did not change since, it knows where
\* it stands: under auto it serves their content or holds them as the failure,
\* under off it says whether they differ.  An edit that raced the start-up load
\* is the exception (project.py: refresh, _note_drift, __init__).
LookedMeansKnows ==
    up /\ work = Idle /\ noticed = Signature /\ ~raced =>
      IF mode = "off" THEN drift = (Fingerprint # served.parts)
      ELSE IF \A p \in Parts : disk[p].content \in Good
           THEN served.parts = Fingerprint /\ failure = None
           ELSE failure = Signature

\* A request holds a connector exactly while a statement of it is at the
\* warehouse, however the statement ends (context.py: execute; query.py: run_sql),
\* where closing it does not raise.
ConnectorsReturned ==
    \A r \in Requests : open[r] = IF req[r] = "executing" THEN 1 ELSE 0

\* The service implements ServedSnapshot: a reload never lands in the middle of a
\* request, and an answer's event names the state the answer came from.
Abstract == INSTANCE ServedSnapshot WITH
    Snapshots <- State, NoSnapshot <- NoState, current <- served, pinned <- pin
Snapshots == Abstract!Spec

\* Between two steps of the event loop the service is in order: it serves what
\* loaded, knows how that relates to the files, and holds no connector it does not
\* use (project.py: refresh; context.py: execute).
ServiceIsSound ==
    /\ TypeOK
    /\ ServesOnlyLoaded
    /\ LookedMeansKnows
    /\ ConnectorsReturned
=============================================================================
