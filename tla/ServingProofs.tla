---------------------------- MODULE ServingProofs ----------------------------
(***************************************************************************)
(* Theorems about the reloader and the service for any number of requests, *)
(* contents, edits and answers: the service is sound between any two of    *)
(* its steps, and it implements ServedSnapshot.                            *)
(***************************************************************************)
EXTENDS Serving, TLAPS

-----------------------------------------------------------------------------
(* Inductive invariants                                                     *)

Stamps == [Parts -> 0..MaxEdits]

LoadRecord ==
    [who : Requests \cup {"boot"}, step : 1..5, sig : Stamps,
     parts : [Parts -> Good \cup {None}], fp : [Parts -> Contents \cup {None}]]
DriftRecord == [who : Requests, sig : Stamps]

Loading == work \in LoadRecord
Drifting == work \in DriftRecord

TypeInv ==
    /\ TypeOK
    /\ work = Idle \/ Loading \/ Drifting
    /\ failure \in Stamps \cup {None}

\* Before the service is up only the start-up load runs and nothing was looked at;
\* afterwards a load or a drift check runs for one request that waits for it.
PhaseInv ==
    /\ ~up => /\ work = Idle \/ (Loading /\ work.who = "boot")
              /\ failure = None /\ ~drift
              /\ \A r \in Requests : req[r] = "idle"
    /\ up /\ work # Idle => work.who \in Requests /\ req[work.who] = "idle"
    /\ up /\ Loading => mode = "auto"
    /\ Drifting => up /\ mode = "off" /\ checked = work.sig

\* A statement at the warehouse is one of those left; only a request in progress
\* has a snapshot.
RequestInv ==
    /\ ConnectorsReturned
    /\ \A r \in Requests : req[r] = "executing" => left[r] > 0
    /\ \A r \in Requests : req[r] = "idle" => pin[r] = NoState

\* A load has read the parts before its step.
Passed(p) ==
    \/ p = "config" /\ work.step > 1
    \/ p = "contracts" /\ work.step > 3
    \/ p = "semantics" /\ work.step > 4

LoadInv ==
    /\ Loading => \A p \in Parts : Passed(p) => work.parts[p] \in Good
    /\ ServesOnlyLoaded

BaseInv == TypeInv /\ PhaseInv /\ RequestInv /\ LoadInv

\* No recorded signature is ahead of the files: an edit therefore differs from all
\* of them, and a recorded signature that still matches means nobody wrote since.
Behind(s) == \A p \in Parts : s[p] <= disk[p].stamp

SignaturesBehind ==
    /\ Behind(sig) /\ Behind(checked) /\ Behind(noticed)
    /\ failure # None => Behind(failure)
    /\ work # Idle => Behind(work.sig)

\* What a load has read is what the files hold, while its signature matches.
LoadIsCurrent ==
    Loading /\ work.sig = Signature =>
      /\ \A p \in Parts : Passed(p) => work.parts[p] = disk[p].content
      /\ work.step > 2 => work.fp = Fingerprint

\* A start-up load that no edit raced still has its signature.
UnracedBoot == ~up /\ work # Idle /\ ~raced => work.sig = Signature

\* What the recorded signatures stand for.
SignaturesMean ==
    /\ up /\ ~raced /\ sig = Signature => served.parts = Fingerprint
    /\ failure = Signature => \E p \in Parts : disk[p].content \in Bad
    /\ up /\ ~raced /\ mode = "off" => served.fp = served.parts
    /\ up /\ mode = "off" /\ work = Idle => noticed = checked

KnowsInv == SignaturesBehind /\ LoadIsCurrent /\ UnracedBoot /\ SignaturesMean /\ LookedMeansKnows

-----------------------------------------------------------------------------
(* Facts about the reload in progress                                       *)

LEMMA WorkKinds ==
    /\ Idle \notin LoadRecord /\ Idle \notin DriftRecord
    /\ \A w \in LoadRecord : "step" \in DOMAIN w /\ w \notin DriftRecord
    /\ \A w \in DriftRecord : "step" \notin DOMAIN w
  BY ServingAssumption DEF LoadRecord, DriftRecord, Idle

LEMMA LoadOrderIs ==
    /\ Len(LoadOrder) = 4
    /\ LoadOrder[1] = "config" /\ LoadOrder[2] = "fingerprint"
    /\ LoadOrder[3] = "contracts" /\ LoadOrder[4] = "semantics"
  BY DEF LoadOrder

LEMMA ReadingMeans ==
    ASSUME TypeInv, Reading
    PROVE  /\ Loading /\ work.step \in 1..4
           /\ AtPart = "config" <=> work.step = 1
           /\ AtPart = "fingerprint" <=> work.step = 2
           /\ AtPart = "contracts" <=> work.step = 3
           /\ AtPart = "semantics" <=> work.step = 4
           /\ AtPart \in Parts <=> work.step # 2
  BY WorkKinds, LoadOrderIs DEF TypeInv, Reading, Loading, Drifting, LoadRecord, AtPart, Parts

LEMMA LoadDoneMeans ==
    ASSUME TypeInv, LoadDone
    PROVE  Loading /\ work.step = 5 /\ \A p \in Parts : Passed(p)
  BY WorkKinds, LoadOrderIs DEF TypeInv, LoadDone, Loading, Drifting, LoadRecord, Passed, Parts

-----------------------------------------------------------------------------
(* The base invariant: types, phases, requests and what was loaded *)

LEMMA NothingIsTyped ==
    /\ NothingRead \in [Parts -> Good \cup {None}]
    /\ NothingRead \in [Parts -> Contents \cup {None}]
    /\ NoState \in State
  BY DEF NothingRead, NoState, State

\* One more part read keeps the record of the load in shape.
LEMMA FingerprintTaken ==
    ASSUME NEW w \in LoadRecord, w.step \in 1..4, NEW f \in [Parts -> Contents \cup {None}]
    PROVE  [w EXCEPT !.fp = f, !.step = @ + 1] \in LoadRecord
  <1> DEFINE Fs == [Parts -> Contents \cup {None}]
  <1>1. w.step + 1 \in 1..5 /\ f \in Fs
    OBVIOUS
  <1> HIDE DEF Fs
  <1> QED
    BY <1>1 DEF LoadRecord, Fs

LEMMA PartTaken ==
    ASSUME NEW w \in LoadRecord, w.step \in 1..4, NEW p \in Parts, NEW good \in Good
    PROVE  [w EXCEPT !.parts[p] = good, !.step = @ + 1] \in LoadRecord
  <1> DEFINE Ps == [Parts -> Good \cup {None}]
             g == [w.parts EXCEPT ![p] = good]
  <1>1. w.parts \in Ps /\ w.step + 1 \in 1..5
    BY DEF LoadRecord
  <1>2. g \in Ps
    BY <1>1
  <1> HIDE DEF g
  <1>3. [w EXCEPT !.parts = g, !.step = @ + 1] \in LoadRecord
    BY <1>1, <1>2 DEF LoadRecord
  <1> QED
    BY <1>3 DEF g

LEMMA DiskIsTyped ==
    ASSUME disk \in [Parts -> [content : Contents, stamp : 0..MaxEdits]]
    PROVE  Signature \in Stamps /\ Fingerprint \in [Parts -> Contents \cup {None}]
  BY DEF Signature, Stamps, Fingerprint

LEMMA TypeInit == Init => TypeInv
  <1> SUFFICES ASSUME Init PROVE TypeInv
    OBVIOUS
  <1>1. disk \in [Parts -> [content : Contents, stamp : 0..MaxEdits]]
    BY ServingAssumption DEF Init, Contents
  <1>2. {sig, checked, noticed} \subseteq [Parts -> 0..MaxEdits]
    BY <1>1, DiskIsTyped DEF Init, Stamps
  <1>3. /\ req \in [Requests -> {"idle", "pinned", "executing"}]
        /\ asked \in [Requests -> Kinds] /\ pin \in [Requests -> State]
        /\ left \in [Requests -> 0..2] /\ open \in [Requests -> 0..2]
    BY NothingIsTyped DEF Init, Kinds
  <1> QED
    BY <1>1, <1>2, <1>3, NothingIsTyped DEF Init, TypeInv, TypeOK

\* What a request writes when it asks and when it is pinned.
LEMMA AskIsTyped ==
    ASSUME TypeOK, NEW r \in Requests, NEW k \in Kinds, Ask(r, k)
    PROVE  asked' \in [Requests -> Kinds] /\ left' \in [Requests -> 0..2]
  <1>1. Statements(k) \in 0..2
    BY DEF Statements
  <1> QED
    BY <1>1 DEF TypeOK, Ask

LEMMA PinIsTyped ==
    ASSUME TypeOK, NEW r \in Requests, NEW x \in State, Pin(r, x)
    PROVE  req' \in [Requests -> {"idle", "pinned", "executing"}] /\ pin' \in [Requests -> State]
  BY DEF TypeOK, Pin

\* A load that starts, and one that reads the next part.
LEMMA StartLoadMeans ==
    ASSUME TypeOK, NEW w \in Requests \cup {"boot"}, StartLoad(w)
    PROVE  /\ work' \in LoadRecord /\ work' # Idle /\ work' \notin DriftRecord
           /\ work'.who = w /\ work'.step = 1 /\ work'.sig = Signature
  <1>1. /\ work'.who = w /\ work'.step = 1 /\ work'.sig = Signature
    BY DEF StartLoad
  <1>2. work' \in LoadRecord
    BY DiskIsTyped, NothingIsTyped DEF TypeOK, StartLoad, LoadRecord
  <1> QED
    BY <1>1, <1>2, WorkKinds

LEMMA LoadStepMeans ==
    ASSUME TypeInv, LoadStep
    PROVE  /\ Loading /\ work.step \in 1..4
           /\ work' \in LoadRecord /\ work' # Idle /\ work' \notin DriftRecord
           /\ work'.who = work.who /\ work'.step = work.step + 1 /\ work'.sig = work.sig
           /\ work'.fp = IF work.step = 2 THEN Fingerprint ELSE work.fp
           /\ \A p \in Parts :
                IF AtPart = p THEN work'.parts[p] = disk[p].content /\ work'.parts[p] \in Good
                              ELSE work'.parts[p] = work.parts[p]
  <1>1. Loading /\ work.step \in 1..4
    BY ReadingMeans DEF LoadStep
  <1>2. CASE AtPart = "fingerprint"
    <2>1. work' = [work EXCEPT !.fp = Fingerprint, !.step = @ + 1]
      BY <1>2 DEF LoadStep
    <2>2. work' \in LoadRecord
      BY <1>1, <2>1, FingerprintTaken, DiskIsTyped DEF TypeInv, TypeOK, Loading
    <2>3. /\ work'.who = work.who /\ work'.step = work.step + 1 /\ work'.sig = work.sig
          /\ work'.fp = Fingerprint /\ work'.parts = work.parts
      BY <1>1, <2>1 DEF Loading, LoadRecord
    <2>4. AtPart \notin Parts /\ work.step = 2
      BY <1>2, ReadingMeans DEF LoadStep
    <2> QED
      BY <1>1, <2>2, <2>3, <2>4, WorkKinds
  <1>3. CASE AtPart # "fingerprint"
    <2>1. work' = [work EXCEPT !.parts[AtPart] = disk[AtPart].content, !.step = @ + 1]
      BY <1>3 DEF LoadStep
    <2>2. AtPart \in Parts /\ disk[AtPart].content \in Good /\ work.step # 2
      BY <1>3, ReadingMeans DEF TypeInv, TypeOK, LoadStep, Unreadable, Contents
    <2>3. work' \in LoadRecord
      BY <1>1, <2>1, <2>2, PartTaken DEF Loading
    <2>4. /\ work'.who = work.who /\ work'.step = work.step + 1 /\ work'.sig = work.sig
          /\ work'.fp = work.fp
          /\ work'.parts = [work.parts EXCEPT ![AtPart] = disk[AtPart].content]
      BY <1>1, <2>1 DEF Loading, LoadRecord
    <2>5. work.parts \in [Parts -> Good \cup {None}]
      BY <1>1 DEF Loading, LoadRecord
    <2> QED
      BY <1>1, <2>2, <2>3, <2>4, <2>5, WorkKinds
  <1> QED
    BY <1>2, <1>3

LEMMA TypeStep ==
    ASSUME BaseInv, [Next]_vars
    PROVE  TypeInv'
  <1> USE ServingAssumption, NothingIsTyped
      DEF BaseInv, TypeInv, TypeOK, Stamps, Loading, Drifting, diskVars, reloaderVars, reqVars
  <1>0. Signature \in Stamps /\ Fingerprint \in [Parts -> Contents \cup {None}]
    BY DiskIsTyped
  <1>1. ASSUME NEW p \in Parts, NEW content \in Contents, Edit(p, content)
        PROVE  TypeInv'
    <2>1. disk[p].stamp + 1 \in 0..MaxEdits
      BY <1>1 DEF Edit, Edits, Parts
    <2>2. disk' \in [Parts -> [content : Contents, stamp : 0..MaxEdits]]
      BY <1>1, <2>1 DEF Edit
    <2> QED
      BY <1>1, <2>2 DEF Edit
  <1>2. CASE Boot
    <2>1. work' \in LoadRecord
      BY <1>0, <1>2 DEF Boot, StartLoad, LoadRecord
    <2> QED
      BY <1>2, <2>1 DEF Boot
  <1>3. CASE BootFails
    BY <1>3 DEF BootFails
  <1>4. CASE BootDone
    <2>1. Loaded \in State
      BY <1>4, LoadDoneMeans DEF BootDone, Loaded, LoadRecord, State, Contents
    <2> QED
      BY <1>0, <1>4, <2>1 DEF BootDone
  <1>5. CASE LoadStep
    <2>1. work' \in LoadRecord
      BY <1>5, LoadStepMeans
    <2> QED
      BY <1>5, <2>1 DEF LoadStep
  <1>6. CASE ReloadDone
    <2>1. Loaded \in State /\ work.who \in Requests /\ work.sig \in Stamps
      BY <1>6, LoadDoneMeans DEF ReloadDone, Loaded, LoadRecord, State, Contents
    <2> QED
      BY <1>6, <2>1 DEF ReloadDone, Pin
  <1>7. CASE ReloadFails
    <2>1. work.who \in Requests /\ work.sig \in Stamps
      BY <1>7, ReadingMeans DEF ReloadFails, LoadRecord
    <2> QED
      BY <1>7, <2>1 DEF ReloadFails, Pin
  <1>8. CASE DriftChecked
    <2>1. Drifting
      BY <1>8, WorkKinds DEF DriftChecked
    <2>2. work.who \in Requests /\ work.sig \in Stamps
      BY <2>1 DEF DriftRecord
    <2> QED
      BY <1>8, <2>2 DEF DriftChecked, Pin
  <1>9. ASSUME NEW r \in Requests, NEW k \in Kinds, BeginCurrent(r, k) PROVE TypeInv'
    <2>1. noticed' \in Stamps /\ failure' \in Stamps \cup {None}
      BY <1>0, <1>9 DEF BeginCurrent
    <2>2. /\ req' \in [Requests -> {"idle", "pinned", "executing"}]
          /\ pin' \in [Requests -> State]
          /\ asked' \in [Requests -> Kinds] /\ left' \in [Requests -> 0..2]
      BY <1>9, AskIsTyped, PinIsTyped DEF BeginCurrent
    <2>3. UNCHANGED <<disk, mode, up, work, served, sig, checked, drift, raced, open>>
      BY <1>9 DEF BeginCurrent
    <2>4. {sig, checked, noticed}' \subseteq [Parts -> 0..MaxEdits]
      BY <2>1, <2>3
    <2>5. TypeOK'
      BY <2>2, <2>3, <2>4
    <2>6. (work = Idle \/ Loading \/ Drifting)'
      BY <2>3
    <2> QED
      BY <2>1, <2>5, <2>6
  <1>10. ASSUME NEW r \in Requests, NEW k \in Kinds, BeginReload(r, k) PROVE TypeInv'
    <2>1. work' \in LoadRecord
      BY <1>0, <1>10, SMTT(30) DEF BeginReload, StartLoad, LoadRecord
    <2> QED
      BY <1>10, <2>1 DEF BeginReload, Ask, Statements, Kinds
  <1>11. ASSUME NEW r \in Requests, NEW k \in Kinds, BeginDriftCheck(r, k) PROVE TypeInv'
    <2>1. work' \in DriftRecord
      BY <1>0, <1>11 DEF BeginDriftCheck, DriftRecord
    <2> QED
      BY <1>0, <1>11, <2>1, AskIsTyped DEF BeginDriftCheck
  <1>12. ASSUME NEW r \in Requests, CompileFails(r) PROVE TypeInv'
    BY <1>12 DEF CompileFails
  <1>13. ASSUME NEW r \in Requests, Execute(r) PROVE TypeInv'
    BY <1>13 DEF Execute, RequestInv, ConnectorsReturned
  <1>14. ASSUME NEW r \in Requests, GateRefuses(r) PROVE TypeInv'
    BY <1>14 DEF GateRefuses
  <1>15. ASSUME NEW r \in Requests, Finished(r) PROVE TypeInv'
    BY <1>15 DEF Finished, RequestInv, ConnectorsReturned
  <1>16. ASSUME NEW r \in Requests, Cancelled(r) PROVE TypeInv'
    BY <1>16 DEF Cancelled, RequestInv, ConnectorsReturned
  <1>17. ASSUME NEW r \in Requests, EndRequest(r) PROVE TypeInv'
    BY <1>17 DEF EndRequest
  <1>18. CASE UNCHANGED vars
    BY <1>18 DEF vars
  <1> QED
    BY <1>1, <1>2, <1>3, <1>4, <1>5, <1>6, <1>7, <1>8, <1>9,
       <1>10, <1>11, <1>12, <1>13, <1>14, <1>15, <1>16, <1>17, <1>18 DEF Next

LEMMA PhaseStep ==
    ASSUME BaseInv, [Next]_vars
    PROVE  PhaseInv'
  <1>0. TypeInv'
    BY TypeStep
  <1> USE ServingAssumption, WorkKinds
      DEF BaseInv, TypeInv, TypeOK, PhaseInv, Loading, Drifting, diskVars, reloaderVars, reqVars
  <1>1. ASSUME NEW p \in Parts, NEW content \in Contents, Edit(p, content)
        PROVE  PhaseInv'
    BY <1>1 DEF Edit
  <1>2. CASE Boot
    BY <1>2, StartLoadMeans DEF Boot
  <1>3. CASE BootFails
    BY <1>3 DEF BootFails
  <1>4. CASE BootDone
    BY <1>4 DEF BootDone
  <1>5. CASE LoadStep
    BY <1>5, LoadStepMeans DEF LoadStep
  <1>6. CASE ReloadDone
    BY <1>6, LoadDoneMeans DEF ReloadDone, Pin
  <1>7. CASE ReloadFails
    BY <1>7, ReadingMeans DEF ReloadFails, Pin
  <1>8. CASE DriftChecked
    BY <1>8 DEF DriftChecked, Pin
  <1>9. ASSUME NEW r \in Requests, NEW k \in Kinds, BeginCurrent(r, k) PROVE PhaseInv'
    BY <1>9 DEF BeginCurrent, Pin, Ask, Free
  <1>10. ASSUME NEW r \in Requests, NEW k \in Kinds, BeginReload(r, k) PROVE PhaseInv'
    BY <1>10, StartLoadMeans DEF BeginReload, Free
  <1>11. ASSUME NEW r \in Requests, NEW k \in Kinds, BeginDriftCheck(r, k) PROVE PhaseInv'
    BY <1>11 DEF BeginDriftCheck, Pin, Ask, Free
  <1>12. ASSUME NEW r \in Requests, CompileFails(r) PROVE PhaseInv'
    BY <1>12 DEF CompileFails, Free
  <1>13. ASSUME NEW r \in Requests, Execute(r) PROVE PhaseInv'
    BY <1>13 DEF Execute, Free
  <1>14. ASSUME NEW r \in Requests, GateRefuses(r) PROVE PhaseInv'
    BY <1>14 DEF GateRefuses, Free
  <1>15. ASSUME NEW r \in Requests, Finished(r) PROVE PhaseInv'
    BY <1>15 DEF Finished, Free
  <1>16. ASSUME NEW r \in Requests, Cancelled(r) PROVE PhaseInv'
    BY <1>16 DEF Cancelled, Free
  <1>17. ASSUME NEW r \in Requests, EndRequest(r) PROVE PhaseInv'
    BY <1>17 DEF EndRequest, Free
  <1>18. CASE UNCHANGED vars
    BY <1>18 DEF vars
  <1> QED
    BY <1>1, <1>2, <1>3, <1>4, <1>5, <1>6, <1>7, <1>8, <1>9,
       <1>10, <1>11, <1>12, <1>13, <1>14, <1>15, <1>16, <1>17, <1>18 DEF Next

LEMMA RequestStep ==
    ASSUME BaseInv, [Next]_vars
    PROVE  RequestInv'
  <1> USE DEF BaseInv, TypeInv, TypeOK, RequestInv, ConnectorsReturned, diskVars, reloaderVars, reqVars
  <1>1. ASSUME NEW p \in Parts, NEW content \in Contents, Edit(p, content)
        PROVE  RequestInv'
    BY <1>1 DEF Edit
  <1>2. CASE Boot
    BY <1>2 DEF Boot
  <1>3. CASE BootFails
    BY <1>3 DEF BootFails
  <1>4. CASE BootDone
    BY <1>4 DEF BootDone
  <1>5. CASE LoadStep
    BY <1>5 DEF LoadStep
  <1>6. CASE ReloadDone
    BY <1>6 DEF ReloadDone, Pin, PhaseInv
  <1>7. CASE ReloadFails
    BY <1>7 DEF ReloadFails, Pin, PhaseInv
  <1>8. CASE DriftChecked
    BY <1>8 DEF DriftChecked, Pin, PhaseInv
  <1>9. ASSUME NEW r \in Requests, NEW k \in Kinds, BeginCurrent(r, k) PROVE RequestInv'
    BY <1>9 DEF BeginCurrent, Pin, Ask, Statements, Free
  <1>10. ASSUME NEW r \in Requests, NEW k \in Kinds, BeginReload(r, k) PROVE RequestInv'
    BY <1>10 DEF BeginReload, Pin, Ask, Statements, Free
  <1>11. ASSUME NEW r \in Requests, NEW k \in Kinds, BeginDriftCheck(r, k) PROVE RequestInv'
    BY <1>11 DEF BeginDriftCheck, Pin, Ask, Statements, Free
  <1>12. ASSUME NEW r \in Requests, CompileFails(r) PROVE RequestInv'
    BY <1>12 DEF CompileFails
  <1>13. ASSUME NEW r \in Requests, Execute(r) PROVE RequestInv'
    BY <1>13 DEF Execute
  <1>14. ASSUME NEW r \in Requests, GateRefuses(r) PROVE RequestInv'
    BY <1>14 DEF GateRefuses
  <1>15. ASSUME NEW r \in Requests, Finished(r) PROVE RequestInv'
    BY <1>15 DEF Finished
  <1>16. ASSUME NEW r \in Requests, Cancelled(r) PROVE RequestInv'
    BY <1>16 DEF Cancelled
  <1>17. ASSUME NEW r \in Requests, EndRequest(r) PROVE RequestInv'
    BY <1>17 DEF EndRequest
  <1>18. CASE UNCHANGED vars
    BY <1>18 DEF vars
  <1> QED
    BY <1>1, <1>2, <1>3, <1>4, <1>5, <1>6, <1>7, <1>8, <1>9,
       <1>10, <1>11, <1>12, <1>13, <1>14, <1>15, <1>16, <1>17, <1>18 DEF Next

LEMMA LoadInvStep ==
    ASSUME BaseInv, [Next]_vars
    PROVE  LoadInv'
  <1> USE ServingAssumption, WorkKinds
      DEF BaseInv, TypeInv, TypeOK, LoadInv, ServesOnlyLoaded, Loading, Passed,
          diskVars, reloaderVars, reqVars
  <1>1. ASSUME NEW p \in Parts, NEW content \in Contents, Edit(p, content)
        PROVE  LoadInv'
    BY <1>1 DEF Edit
  <1>2. CASE Boot
    BY <1>2 DEF Boot, StartLoad
  <1>3. CASE BootFails
    BY <1>3 DEF BootFails
  <1>4. CASE BootDone
    <2>1. \A p \in Parts : Loaded.parts[p] \in Good
      BY <1>4, LoadDoneMeans DEF BootDone, Loaded
    <2> QED
      BY <1>4, <2>1 DEF BootDone, PhaseInv
  <1>5. CASE LoadStep
    <2>1. \A p \in Parts : Passed(p)' => work'.parts[p] \in Good
      BY <1>5, LoadStepMeans, ReadingMeans DEF LoadStep, Parts
    <2> QED
      BY <1>5, <2>1 DEF LoadStep
  <1>6. CASE ReloadDone
    <2>1. \A p \in Parts : Loaded.parts[p] \in Good
      BY <1>6, LoadDoneMeans DEF ReloadDone, Loaded
    <2> QED
      BY <1>6, <2>1 DEF ReloadDone, Pin, PhaseInv
  <1>7. CASE ReloadFails
    BY <1>7, ReadingMeans DEF ReloadFails, Pin, PhaseInv
  <1>8. CASE DriftChecked
    BY <1>8 DEF DriftChecked, Pin, PhaseInv, Drifting
  <1>9. ASSUME NEW r \in Requests, NEW k \in Kinds, BeginCurrent(r, k) PROVE LoadInv'
    BY <1>9 DEF BeginCurrent, Pin, Ask, Free, StartLoad, PhaseInv
  <1>10. ASSUME NEW r \in Requests, NEW k \in Kinds, BeginReload(r, k) PROVE LoadInv'
    BY <1>10 DEF BeginReload, Pin, Ask, Free, StartLoad, PhaseInv
  <1>11. ASSUME NEW r \in Requests, NEW k \in Kinds, BeginDriftCheck(r, k) PROVE LoadInv'
    BY <1>11 DEF BeginDriftCheck, Pin, Ask, Free, StartLoad, PhaseInv
  <1>12. ASSUME NEW r \in Requests, CompileFails(r) PROVE LoadInv'
    BY <1>12 DEF CompileFails
  <1>13. ASSUME NEW r \in Requests, Execute(r) PROVE LoadInv'
    BY <1>13 DEF Execute
  <1>14. ASSUME NEW r \in Requests, GateRefuses(r) PROVE LoadInv'
    BY <1>14 DEF GateRefuses
  <1>15. ASSUME NEW r \in Requests, Finished(r) PROVE LoadInv'
    BY <1>15 DEF Finished
  <1>16. ASSUME NEW r \in Requests, Cancelled(r) PROVE LoadInv'
    BY <1>16 DEF Cancelled
  <1>17. ASSUME NEW r \in Requests, EndRequest(r) PROVE LoadInv'
    BY <1>17 DEF EndRequest
  <1>18. CASE UNCHANGED vars
    BY <1>18 DEF vars
  <1> QED
    BY <1>1, <1>2, <1>3, <1>4, <1>5, <1>6, <1>7, <1>8, <1>9,
       <1>10, <1>11, <1>12, <1>13, <1>14, <1>15, <1>16, <1>17, <1>18 DEF Next

LEMMA BaseInit == Init => BaseInv
  <1> SUFFICES ASSUME Init PROVE BaseInv
    OBVIOUS
  <1>1. PhaseInv /\ LoadInv
    BY WorkKinds DEF Init, PhaseInv, LoadInv, ServesOnlyLoaded, Loading, Drifting
  <1>2. RequestInv
    BY DEF Init, RequestInv, ConnectorsReturned
  <1> QED
    BY <1>1, <1>2, TypeInit DEF BaseInv

LEMMA BaseStep == BaseInv /\ [Next]_vars => BaseInv'
  BY TypeStep, PhaseStep, RequestStep, LoadInvStep DEF BaseInv

-----------------------------------------------------------------------------
(* What the service knows of the files                                      *)

\* The signature and the content of the files as they are now.
LEMMA DiskNow ==
    ASSUME TypeOK
    PROVE  /\ Signature \in Stamps /\ Behind(Signature)
           /\ \A p \in Parts : Fingerprint[p] = disk[p].content /\ Signature[p] = disk[p].stamp
           /\ \A f \in [Parts -> Good \cup {None}] :
                (\A p \in Parts : f[p] = disk[p].content) => f = Fingerprint
  BY DiskIsTyped DEF TypeOK, Behind, Signature, Fingerprint

\* An edit leaves every recorded signature behind.
LEMMA EditMoves ==
    ASSUME TypeOK, NEW p \in Parts, NEW content \in Contents, Edit(p, content),
           NEW s \in Stamps, Behind(s)
    PROVE  Behind(s)' /\ s # Signature'
  <1>1. /\ disk'[p].stamp = disk[p].stamp + 1
        /\ \A q \in Parts : q # p => disk'[q].stamp = disk[q].stamp
    BY DEF TypeOK, Edit
  <1>2. \A q \in Parts : s[q] \in Int /\ disk[q].stamp \in Int /\ s[q] <= disk[q].stamp
    BY DEF TypeOK, Stamps, Behind
  <1>3. s[p] < disk'[p].stamp
    BY <1>1, <1>2
  <1>4. Behind(s)'
    BY <1>1, <1>2 DEF Behind
  <1>5. Signature'[p] = disk'[p].stamp
    BY DEF Signature
  <1> QED
    BY <1>2, <1>3, <1>4, <1>5

LEMMA KnowsUnchanged ==
    ASSUME KnowsInv, UNCHANGED <<disk, mode, up, work, served, sig, failure, checked, drift, noticed, raced>>
    PROVE  KnowsInv'
  BY DEF KnowsInv, SignaturesBehind, Behind, LoadIsCurrent, Loading, Passed, Signature, Fingerprint,
         UnracedBoot, SignaturesMean, LookedMeansKnows

LEMMA KnowsInit == Init => KnowsInv
  <1> SUFFICES ASSUME Init PROVE KnowsInv
    OBVIOUS
  <1>1. TypeOK
    BY TypeInit DEF TypeInv
  <1>2. failure # Signature
    BY <1>1, DiskNow, ServingAssumption DEF Init, Stamps
  <1> QED
    BY <1>1, <1>2, DiskNow, WorkKinds
    DEF Init, KnowsInv, SignaturesBehind, LoadIsCurrent, Loading, UnracedBoot, SignaturesMean, LookedMeansKnows

LEMMA KnowsEdit ==
    ASSUME BaseInv, KnowsInv, NEW p \in Parts, NEW content \in Contents, Edit(p, content)
    PROVE  KnowsInv'
  <1>1. /\ TypeOK /\ {sig, checked, noticed} \subseteq Stamps
        /\ failure \in Stamps \cup {None} /\ (work # Idle => work.sig \in Stamps)
    BY DEF BaseInv, TypeInv, TypeOK, Stamps, Loading, LoadRecord, Drifting, DriftRecord
  <1>2. UNCHANGED <<mode, up, work, served, sig, failure, checked, drift, noticed>>
    BY DEF Edit
  <1>3. /\ sig # Signature' /\ checked # Signature' /\ noticed # Signature'
        /\ (failure # None => failure # Signature')
        /\ (work # Idle => work.sig # Signature')
        /\ SignaturesBehind'
    BY <1>1, <1>2, EditMoves DEF KnowsInv, SignaturesBehind
  <1>4. failure # Signature'
    <2>1. disk' \in [Parts -> [content : Contents, stamp : Nat]]
      BY <1>1 DEF TypeOK, Edit
    <2>2. Signature' \in [Parts -> Nat]
      BY <2>1 DEF Signature
    <2> QED
      BY <1>3, <2>2, ServingAssumption
  <1>5. UnracedBoot'
    <2>1. ~up /\ work # Idle => raced'
      BY DEF Edit
    <2> QED
      BY <1>2, <2>1 DEF UnracedBoot
  <1>6. SignaturesMean'
    <2>1. raced => raced'
      BY DEF Edit
    <2> QED
      BY <1>2, <1>3, <1>4, <2>1 DEF KnowsInv, SignaturesMean
  <1>7. LoadIsCurrent' /\ LookedMeansKnows'
    BY <1>2, <1>3, WorkKinds DEF LoadIsCurrent, Loading, LookedMeansKnows
  <1> QED
    BY <1>3, <1>5, <1>6, <1>7 DEF KnowsInv

\* The load reads the files as they are, and a signature that still matches at its
\* end vouches for all of it.
LEMMA LoadedIsCurrent ==
    ASSUME BaseInv, KnowsInv, LoadDone, work.sig = Signature
    PROVE  Loaded.parts = Fingerprint /\ Loaded.fp = Fingerprint
  <1>1. Loading /\ work.step = 5 /\ \A p \in Parts : Passed(p)
    BY LoadDoneMeans DEF BaseInv
  <1>2. work.parts \in [Parts -> Good \cup {None}]
    BY <1>1 DEF Loading, LoadRecord
  <1>3. \A p \in Parts : work.parts[p] = disk[p].content
    BY <1>1 DEF KnowsInv, LoadIsCurrent
  <1>4. work.parts = Fingerprint
    BY <1>2, <1>3, DiskNow DEF BaseInv, TypeInv
  <1>5. work.fp = Fingerprint
    BY <1>1 DEF KnowsInv, LoadIsCurrent
  <1> QED
    BY <1>4, <1>5 DEF Loaded

LEMMA KnowsLoading ==
    ASSUME BaseInv, KnowsInv, Boot \/ BootFails \/ LoadStep
    PROVE  KnowsInv'
  <1> USE DEF BaseInv, TypeInv, diskVars, reloaderVars
  <1>1. UNCHANGED <<disk, mode, up, served, sig, failure, checked, drift, noticed>>
    BY DEF Boot, BootFails, LoadStep
  <1>2. ASSUME LoadIsCurrent', UnracedBoot', (work # Idle => Behind(work.sig))', (work = Idle => ~up)',
               UNCHANGED raced \/ ~up
        PROVE  KnowsInv'
    BY <1>1, <1>2
    DEF KnowsInv, SignaturesBehind, Behind, Signature, Fingerprint, SignaturesMean, LookedMeansKnows
  <1>3. CASE Boot
    <2>1. LoadIsCurrent' /\ UnracedBoot' /\ Behind(work.sig)'
      BY <1>1, <1>3, StartLoadMeans, DiskNow
      DEF Boot, LoadIsCurrent, Passed, Parts, UnracedBoot, Behind, Signature
    <2> QED
      BY <1>2, <1>3, <2>1, StartLoadMeans DEF Boot
  <1>4. CASE BootFails
    <2>1. ~up
      BY <1>4, ServingAssumption, WorkKinds, ReadingMeans DEF BootFails, PhaseInv, Reading
    <2>2. LoadIsCurrent' /\ UnracedBoot'
      BY <1>4, WorkKinds DEF BootFails, LoadIsCurrent, Loading, UnracedBoot
    <2> QED
      BY <1>2, <1>4, <2>1, <2>2 DEF BootFails
  <1>5. CASE LoadStep
    <2>1. work # Idle /\ work' # Idle /\ work'.sig = work.sig /\ UNCHANGED raced
      BY <1>5, LoadStepMeans, WorkKinds DEF LoadStep, Loading
    <2>2. LoadIsCurrent'
      <3> SUFFICES ASSUME work.sig = Signature
                   PROVE  /\ \A p \in Parts : Passed(p)' => work'.parts[p] = disk[p].content
                          /\ work'.step > 2 => work'.fp = Fingerprint
        BY <1>1, <2>1 DEF LoadIsCurrent, Signature, Fingerprint
      <3>1. /\ \A p \in Parts : Passed(p) => work.parts[p] = disk[p].content
            /\ work.step > 2 => work.fp = Fingerprint
        BY <1>5, LoadStepMeans DEF KnowsInv, LoadIsCurrent
      <3> QED
        BY <1>5, <3>1, LoadStepMeans, ReadingMeans DEF LoadStep, Passed, Parts
    <2>3. UnracedBoot' /\ Behind(work.sig)'
      BY <1>1, <2>1 DEF KnowsInv, UnracedBoot, SignaturesBehind, Behind, Signature
    <2> QED
      BY <1>2, <2>1, <2>2, <2>3
  <1> QED
    BY <1>3, <1>4, <1>5

LEMMA KnowsBootDone ==
    ASSUME BaseInv, KnowsInv, BootDone
    PROVE  KnowsInv'
  <1> USE DEF BaseInv, TypeInv, diskVars
  <1>1. UNCHANGED <<disk, mode, failure, drift, raced>> /\ work' = Idle /\ served' = Loaded
    BY DEF BootDone
  <1>2. Signature' = Signature /\ Fingerprint' = Fingerprint
    BY <1>1 DEF Signature, Fingerprint
  <1>3. sig' = Signature /\ checked' = Signature /\ noticed' = Signature /\ up'
    BY DEF BootDone
  <1>4. ~up /\ work # Idle /\ failure = None /\ ~drift
    BY ServingAssumption, WorkKinds, LoadDoneMeans DEF BootDone, LoadDone, PhaseInv
  <1>5. ~raced => Loaded.parts = Fingerprint /\ Loaded.fp = Fingerprint
    BY <1>4, LoadedIsCurrent DEF BootDone, KnowsInv, UnracedBoot
  <1>6. SignaturesBehind'
    BY <1>1, <1>2, <1>3, <1>4, DiskNow DEF SignaturesBehind, Behind, Signature
  <1>7. SignaturesMean'
    <2>1. failure' # Signature'
      BY <1>1, <1>2, <1>4, DiskNow, ServingAssumption DEF Stamps
    <2> QED
      BY <1>1, <1>2, <1>3, <1>5, <2>1 DEF SignaturesMean
  <1>8. LookedMeansKnows'
    <2>1. \A p \in Parts : Loaded.parts[p] \in Good
      BY LoadDoneMeans DEF BootDone, LoadInv, Loaded
    <2>2. ~raced => \A p \in Parts : disk[p].content \in Good
      BY <1>5, <2>1, DiskNow
    <2>3. drift = FALSE
      BY <1>4 DEF TypeOK
    <2>4. ~raced => drift' = (Fingerprint # served.parts)'
      BY <1>1, <1>2, <1>5, <2>3
    <2>5. ~raced => (served.parts = Fingerprint /\ failure = None)'
      BY <1>1, <1>2, <1>4, <1>5
    <2> QED
      BY <1>1, <2>2, <2>4, <2>5 DEF LookedMeansKnows
  <1> QED
    BY <1>1, <1>3, <1>6, <1>7, <1>8, WorkKinds DEF KnowsInv, LoadIsCurrent, Loading, UnracedBoot

LEMMA KnowsReload ==
    ASSUME BaseInv, KnowsInv, ReloadDone
    PROVE  KnowsInv'
  <1> USE DEF BaseInv, TypeInv, diskVars
  <1>1. /\ UNCHANGED <<disk, mode, up, checked, drift, raced>> /\ work' = Idle /\ served' = Loaded
        /\ sig' = work.sig /\ noticed' = work.sig /\ failure' = None
    BY DEF ReloadDone
  <1>2. Signature' = Signature /\ Fingerprint' = Fingerprint
    BY <1>1 DEF Signature, Fingerprint
  <1>3. Loading /\ work # Idle /\ up /\ mode = "auto"
    BY ServingAssumption, WorkKinds, LoadDoneMeans DEF ReloadDone, PhaseInv, Loading
  <1>4. work.sig = Signature => Loaded.parts = Fingerprint
    BY LoadedIsCurrent DEF ReloadDone
  <1>5. SignaturesBehind'
    BY <1>1, <1>3 DEF KnowsInv, SignaturesBehind, Behind
  <1>6. SignaturesMean'
    <2>1. failure' # Signature'
      BY <1>1, <1>2, DiskNow, ServingAssumption DEF Stamps
    <2> QED
      BY <1>1, <1>2, <1>3, <1>4, <2>1 DEF SignaturesMean
  <1>7. LookedMeansKnows'
    <2>1. \A p \in Parts : Loaded.parts[p] \in Good
      BY LoadDoneMeans DEF ReloadDone, LoadInv, Loaded
    <2>2. work.sig = Signature => \A p \in Parts : disk[p].content \in Good
      BY <1>4, <2>1, DiskNow
    <2> QED
      BY <1>1, <1>2, <1>3, <1>4, <2>2 DEF LookedMeansKnows
  <1> QED
    BY <1>1, <1>5, <1>6, <1>7, WorkKinds DEF KnowsInv, LoadIsCurrent, Loading, UnracedBoot

LEMMA KnowsReloadFails ==
    ASSUME BaseInv, KnowsInv, ReloadFails
    PROVE  KnowsInv'
  <1> USE DEF BaseInv, TypeInv, diskVars
  <1>1. /\ UNCHANGED <<disk, mode, up, served, sig, checked, drift, raced>> /\ work' = Idle
        /\ noticed' = work.sig /\ failure' = work.sig
    BY DEF ReloadFails
  <1>2. Signature' = Signature /\ Fingerprint' = Fingerprint
    BY <1>1 DEF Signature, Fingerprint
  <1>3. Loading /\ work # Idle /\ up /\ mode = "auto"
    BY ServingAssumption, WorkKinds, ReadingMeans DEF ReloadFails, PhaseInv, Loading
  <1>4. \E p \in Parts : disk[p].content \in Bad
    BY DEF ReloadFails, Unreadable
  <1>5. SignaturesBehind'
    BY <1>1, <1>3 DEF KnowsInv, SignaturesBehind, Behind
  <1>6. SignaturesMean'
    BY <1>1, <1>2, <1>3, <1>4 DEF KnowsInv, SignaturesMean
  <1>7. LookedMeansKnows'
    BY <1>1, <1>2, <1>3, <1>4, ServingAssumption DEF LookedMeansKnows
  <1> QED
    BY <1>1, <1>3, <1>5, <1>6, <1>7, WorkKinds DEF KnowsInv, LoadIsCurrent, Loading, UnracedBoot

LEMMA KnowsDrift ==
    ASSUME BaseInv, KnowsInv, DriftChecked
    PROVE  KnowsInv'
  <1> USE DEF BaseInv, TypeInv, diskVars
  <1>1. /\ UNCHANGED <<disk, mode, up, served, sig, failure, checked, raced>> /\ work' = Idle
        /\ noticed' = work.sig /\ drift' = (Fingerprint # served.fp)
    BY DEF DriftChecked
  <1>2. Signature' = Signature /\ Fingerprint' = Fingerprint
    BY <1>1 DEF Signature, Fingerprint
  <1>3. work # Idle /\ up /\ mode = "off" /\ checked = work.sig
    BY WorkKinds DEF DriftChecked, PhaseInv, Loading
  <1>4. SignaturesBehind'
    BY <1>1, <1>3 DEF KnowsInv, SignaturesBehind, Behind
  <1>5. SignaturesMean'
    BY <1>1, <1>2, <1>3 DEF KnowsInv, SignaturesMean
  <1>6. LookedMeansKnows'
    <2>1. ~raced => drift' = (Fingerprint # served.parts)'
      BY <1>1, <1>2, <1>3 DEF KnowsInv, SignaturesMean
    <2> QED
      BY <1>1, <1>3, <2>1 DEF LookedMeansKnows
  <1> QED
    BY <1>1, <1>3, <1>4, <1>5, <1>6, WorkKinds DEF KnowsInv, LoadIsCurrent, Loading, UnracedBoot

LEMMA KnowsBegin ==
    ASSUME BaseInv, KnowsInv, NEW r \in Requests, NEW k \in Kinds,
           BeginCurrent(r, k) \/ BeginReload(r, k) \/ BeginDriftCheck(r, k)
    PROVE  KnowsInv'
  <1> USE DEF BaseInv, TypeInv, diskVars, reloaderVars
  <1>1. UNCHANGED <<disk, mode, up, served, sig, drift, raced>> /\ up /\ work = Idle
    BY DEF BeginCurrent, BeginReload, BeginDriftCheck, Free
  <1>2. Signature' = Signature /\ Fingerprint' = Fingerprint
    BY <1>1 DEF Signature, Fingerprint
  <1>3. CASE BeginCurrent(r, k)
    <2>1. UNCHANGED <<work, checked>> /\ noticed' = Signature
      BY <1>3 DEF BeginCurrent
    <2>2. CASE mode = "off"
      <3>1. checked = Signature /\ failure' = failure /\ noticed = checked
        BY <1>1, <1>3, <2>2 DEF BeginCurrent, KnowsInv, SignaturesMean
      <3> QED
        BY <1>1, <2>1, <3>1, KnowsUnchanged
    <2>3. CASE mode = "auto" /\ sig = Signature
      <3>1. failure' = None
        BY <1>3, <2>3 DEF BeginCurrent
      <3>2. SignaturesBehind'
        BY <1>1, <2>1, <3>1, DiskNow DEF KnowsInv, SignaturesBehind, Behind
      <3>3. SignaturesMean'
        <4>1. failure' # Signature'
          BY <1>2, <3>1, DiskNow, ServingAssumption DEF Stamps
        <4> QED
          BY <1>1, <1>2, <2>3, <4>1 DEF KnowsInv, SignaturesMean
      <3>4. LookedMeansKnows'
        <4>1. ~raced => served.parts = Fingerprint
          BY <1>1, <2>3 DEF KnowsInv, SignaturesMean
        <4>2. ~raced => \A p \in Parts : disk[p].content \in Good
          BY <1>1, <4>1, DiskNow DEF LoadInv, ServesOnlyLoaded
        <4> QED
          BY <1>1, <1>2, <2>3, <3>1, <4>1, <4>2 DEF LookedMeansKnows
      <3> QED
        BY <1>1, <2>1, <3>2, <3>3, <3>4, WorkKinds DEF KnowsInv, LoadIsCurrent, Loading, UnracedBoot
    <2>4. CASE mode = "auto" /\ sig # Signature
      <3>1. failure = Signature /\ failure' = failure
        BY <1>3, <2>4 DEF BeginCurrent
      <3>2. SignaturesBehind'
        BY <1>1, <2>1, <3>1, DiskNow DEF KnowsInv, SignaturesBehind, Behind
      <3>3. SignaturesMean'
        BY <1>1, <1>2, <2>4, <3>1 DEF KnowsInv, SignaturesMean
      <3>4. LookedMeansKnows'
        <4>1. \E p \in Parts : disk[p].content \in Bad
          BY <3>1 DEF KnowsInv, SignaturesMean
        <4> QED
          BY <1>1, <1>2, <2>4, <3>1, <4>1, ServingAssumption DEF LookedMeansKnows
      <3> QED
        BY <1>1, <2>1, <3>2, <3>3, <3>4, WorkKinds DEF KnowsInv, LoadIsCurrent, Loading, UnracedBoot
    <2> QED
      BY <2>2, <2>3, <2>4 DEF TypeOK
  <1>4. CASE BeginReload(r, k)
    <2>1. UNCHANGED <<failure, checked, noticed>> /\ mode = "auto"
      BY <1>4 DEF BeginReload
    <2>2. work' # Idle /\ work'.step = 1 /\ work'.sig = Signature
      BY <1>4, StartLoadMeans DEF BeginReload
    <2>3. SignaturesBehind'
      BY <1>1, <2>1, <2>2, DiskNow DEF KnowsInv, SignaturesBehind, Behind
    <2>4. SignaturesMean' /\ LoadIsCurrent'
      BY <1>1, <1>2, <2>1, <2>2 DEF KnowsInv, SignaturesMean, LoadIsCurrent, Passed
    <2> QED
      BY <1>1, <2>2, <2>3, <2>4 DEF KnowsInv, UnracedBoot, LookedMeansKnows
  <1>5. CASE BeginDriftCheck(r, k)
    <2>1. /\ UNCHANGED <<failure, noticed>> /\ checked' = Signature /\ mode = "off"
          /\ work' = [who |-> r, sig |-> Signature]
      BY <1>5 DEF BeginDriftCheck
    <2>2. work' \in DriftRecord
      BY <2>1, DiskNow DEF DriftRecord
    <2>3. work' # Idle /\ work' \notin LoadRecord /\ work'.sig = Signature
      BY <2>1, <2>2, WorkKinds
    <2>4. SignaturesBehind'
      BY <1>1, <2>1, <2>3, DiskNow DEF KnowsInv, SignaturesBehind, Behind
    <2>5. SignaturesMean' /\ LoadIsCurrent'
      BY <1>1, <1>2, <2>1, <2>3 DEF KnowsInv, SignaturesMean, LoadIsCurrent, Loading
    <2> QED
      BY <1>1, <2>3, <2>4, <2>5 DEF KnowsInv, UnracedBoot, LookedMeansKnows
  <1> QED
    BY <1>3, <1>4, <1>5

LEMMA KnowsStep == BaseInv /\ KnowsInv /\ [Next]_vars => KnowsInv'
  <1> SUFFICES ASSUME BaseInv, KnowsInv, [Next]_vars PROVE KnowsInv'
    OBVIOUS
  <1>1. ASSUME NEW r \in Requests,
               \/ CompileFails(r) \/ Execute(r) \/ GateRefuses(r)
               \/ Finished(r) \/ Cancelled(r) \/ EndRequest(r)
        PROVE  KnowsInv'
    BY <1>1, KnowsUnchanged
    DEF CompileFails, Execute, GateRefuses, Finished, Cancelled, EndRequest, diskVars, reloaderVars
  <1>2. CASE UNCHANGED vars
    BY <1>2, KnowsUnchanged DEF vars, diskVars, reloaderVars
  <1> QED
    BY <1>1, <1>2, KnowsEdit, KnowsLoading, KnowsBootDone, KnowsReload, KnowsReloadFails, KnowsDrift,
       KnowsBegin DEF Next

-----------------------------------------------------------------------------
(* Theorems                                                                 *)

\* Between any two steps of the event loop the service serves only what loaded,
\* knows how that relates to the files it last looked at, and holds a connector
\* exactly while a statement is at the warehouse (project.py: refresh, _note_drift;
\* context.py: execute; query.py: run_sql).
THEOREM ServiceSound == Spec => []ServiceIsSound
  <1>1. BaseInv /\ KnowsInv => ServiceIsSound
    BY DEF BaseInv, KnowsInv, TypeInv, RequestInv, LoadInv, ServiceIsSound
  <1> QED
    BY <1>1, BaseInit, BaseStep, KnowsInit, KnowsStep, PTL DEF Spec

\* A request in progress is pinned to a snapshot that was loaded.
LEMMA PinnedIsLoaded ==
    ASSUME BaseInv, NEW r \in Requests, req[r] # "idle"
    PROVE  pin[r] # NoState
  <1>1. pin[r].parts["config"] \in Good
    BY DEF BaseInv, PhaseInv, LoadInv, ServesOnlyLoaded, Parts
  <1> QED
    BY <1>1, ServingAssumption DEF NoState, NothingRead, Parts

LEMMA SnapshotInit == Init => Abstract!Init
  BY DEF Init, Abstract!Init

LEMMA SnapshotStep == BaseInv /\ [Next]_vars => [Abstract!Next]_(Abstract!vars)
  <1> SUFFICES ASSUME BaseInv, [Next]_vars PROVE [Abstract!Next]_(Abstract!vars)
    OBVIOUS
  <1> USE DEF BaseInv, TypeInv, diskVars, reloaderVars, reqVars
  <1>1. CASE UNCHANGED <<served, pin, log>>
    BY <1>1 DEF Abstract!vars
  <1>2. CASE BootDone
    <2>1. Loaded \in State
      BY <1>2, LoadDoneMeans DEF BootDone, Loaded, Loading, LoadRecord, State, Contents
    <2> QED
      BY <1>2, <2>1 DEF BootDone, Abstract!Next, Abstract!Publish
  <1>3. ASSUME NEW r \in Requests, Pin(r, served'), served' \in State, UNCHANGED log, pin[r] = NoState
        PROVE  Abstract!Next
    BY <1>3 DEF Pin, Abstract!Next, Abstract!Begin
  <1>4. CASE ReloadDone
    <2>1. Loaded \in State
      BY <1>4, LoadDoneMeans DEF ReloadDone, Loaded, Loading, LoadRecord, State, Contents
    <2>2. pin[work.who] = NoState
      BY <1>4, WorkKinds, LoadDoneMeans, ServingAssumption DEF ReloadDone, Loading, PhaseInv, RequestInv
    <2> QED
      BY <1>3, <1>4, <2>1, <2>2 DEF ReloadDone
  <1>5. CASE ReloadFails
    <2>1. pin[work.who] = NoState
      BY <1>5, WorkKinds, ReadingMeans, ServingAssumption DEF ReloadFails, Loading, PhaseInv, RequestInv
    <2> QED
      BY <1>3, <1>5, <2>1 DEF ReloadFails, TypeOK
  <1>6. CASE DriftChecked
    <2>1. Drifting
      BY <1>6, WorkKinds DEF DriftChecked, Loading
    <2>2. work.who \in Requests /\ pin[work.who] = NoState
      BY <1>6, <2>1 DEF DriftChecked, Drifting, DriftRecord, PhaseInv, RequestInv
    <2> QED
      BY <1>3, <1>6, <2>2 DEF DriftChecked, TypeOK
  <1>7. ASSUME NEW r \in Requests, NEW k \in Kinds, BeginCurrent(r, k) PROVE Abstract!Next
    BY <1>3, <1>7 DEF BeginCurrent, RequestInv, TypeOK
  <1>8. ASSUME NEW r \in Requests, CompileFails(r) \/ Finished(r) PROVE Abstract!Next
    BY <1>8, PinnedIsLoaded
    DEF CompileFails, Finished, AppendEvent, StateOf, Abstract!Next, Abstract!Answer
  <1>9. ASSUME NEW r \in Requests, Cancelled(r) PROVE Abstract!Next
    BY <1>9, PinnedIsLoaded DEF Cancelled, AppendEvent, StateOf, Abstract!Next, Abstract!AnswerAndEnd
  <1>10. ASSUME NEW r \in Requests, EndRequest(r) PROVE Abstract!Next
    BY <1>10, PinnedIsLoaded DEF EndRequest, Abstract!Next, Abstract!End
  <1>11. CASE Boot \/ BootFails \/ LoadStep
    BY <1>1, <1>11 DEF Boot, BootFails, LoadStep
  <1>12. ASSUME NEW p \in Parts, NEW content \in Contents, Edit(p, content)
         PROVE  UNCHANGED <<served, pin, log>>
    BY <1>12 DEF Edit
  <1>13. ASSUME NEW r \in Requests, NEW k \in Kinds, BeginReload(r, k) \/ BeginDriftCheck(r, k)
         PROVE  UNCHANGED <<served, pin, log>>
    BY <1>13 DEF BeginReload, BeginDriftCheck
  <1>14. ASSUME NEW r \in Requests, Execute(r) \/ GateRefuses(r)
         PROVE  UNCHANGED <<served, pin, log>>
    BY <1>14 DEF Execute, GateRefuses
  <1>15. CASE UNCHANGED vars
    BY <1>1, <1>15 DEF vars
  <1> QED
    BY <1>1, <1>2, <1>4, <1>5, <1>6, <1>7, <1>8, <1>9, <1>10, <1>11, <1>12, <1>13, <1>14, <1>15 DEF Next

\* The service implements ServedSnapshot: every request is answered from the one
\* snapshot that was current when it began, and its events name that snapshot,
\* however files are edited and reloaded meanwhile (context.py: request, state;
\* project.py: refresh).
THEOREM ServingImplementsSnapshots == Spec => Snapshots
  BY BaseInit, BaseStep, SnapshotInit, SnapshotStep, PTL DEF Spec, Snapshots, Abstract!Spec
=============================================================================
