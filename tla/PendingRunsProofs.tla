-------------------------- MODULE PendingRunsProofs --------------------------
(***************************************************************************)
(* Theorems about the pending-diff store for every number of ingests,      *)
(* sessions, targets, proposals, seconds and suffixes, with and without    *)
(* crashes; and about the drafts that end up in it, for every number of    *)
(* connections, relations, definitions, guesses and retries (the second    *)
(* part, from "Drafting: induction and lists" on).                         *)
(***************************************************************************)
EXTENDS PendingRuns, Drafting, FiniteSetTheorems, WellFoundedInduction, TLAPS

-----------------------------------------------------------------------------
(* Inductive invariants                                                     *)

\* The cursor stands on a proposal wherever the next step indexes by it.
CursorOK ==
    \A s \in Sessions :
        /\ session[s].pc \in {"shown", "write", "annotate"} => session[s].cur \in Props
        /\ (session[s].pc \in {"save", "store"} /\ session[s].kind = "review") =>
             session[s].cur \in Props

TypeInv == TypeOK /\ CursorOK

\* What a session holds in memory is as good as what is on disk: it is what
\* update_status will write.
HeldIsApplied ==
    \A s \in Sessions, p \in Props :
        session[s].list[p] \in Applying =>
            <<session[s].run, p, session[s].list[p]>> \in done

AppliedInv == AppliedBeforeRecorded /\ HeldIsApplied

\* A status.yaml lies in a directory, and gc works on directories that exist
\* and that no ingest is filling.
Filling(i) == ingest[i].pc \in {"made", "reported"}

StoreOK ==
    /\ \A r \in Runs : status[r].on # "missing" => r \in made
    /\ doomed \subseteq made
    /\ \A i \in Ingests : Filling(i) => ingest[i].run \notin doomed

WriterInv == OneWriterPerRun /\ StoreOK

-----------------------------------------------------------------------------
(* Type correctness                                                         *)

\* The records the processes are reset to, and the constants they are made of.
LEMMA InitialRecords ==
    /\ <<1, 1>> \in Runs
    /\ AllPending \in [Props -> Statuses]
    /\ NoStatus \in RunStatus
    /\ IdleSession \in SessionRecord
  <1>1. <<1, 1>> \in Runs
    BY PendingRunsAssumption DEF Runs
  <1>2. AllPending \in [Props -> Statuses]
    BY DEF AllPending, Statuses
  <1>3. NoStatus \in RunStatus
    BY <1>2 DEF NoStatus, RunStatus
  <1> QED
    BY <1>1, <1>2, <1>3, PendingRunsAssumption DEF IdleSession, SessionRecord, Applying

LEMMA TypeInit == Init => TypeInv
  <1> SUFFICES ASSUME Init PROVE TypeInv
    OBVIOUS
  <1>1. TypeOK
    BY InitialRecords, PendingRunsAssumption DEF Init, TypeOK, FileRecord
  <1>2. CursorOK
    BY DEF Init, CursorOK, IdleSession
  <1> QED
    BY <1>1, <1>2 DEF TypeInv

\* TypeInv for one session's record.
CursorFits(r) ==
    /\ r.pc \in {"shown", "write", "annotate"} => r.cur \in Props
    /\ (r.pc \in {"save", "store"} /\ r.kind = "review") => r.cur \in Props

\* Replacing one session's record by a well-formed one keeps the sessions so.
LEMMA SessionUpdate ==
    ASSUME TypeInv, NEW s \in Sessions, NEW r \in SessionRecord, CursorFits(r),
           session' = [session EXCEPT ![s] = r]
    PROVE  session' \in [Sessions -> SessionRecord] /\ CursorOK'
  BY DEF TypeInv, TypeOK, CursorOK, CursorFits

\* The cursor moves to the next proposal or just behind the last one.
LEMMA CursorStep == \A c \in Props : c + 1 \in 1..(NumProps + 1)
  BY PendingRunsAssumption DEF Props

\* One lemma for the session steps, one step per action.
LEMMA TypeSession ==
    ASSUME TypeInv, NEW s \in Sessions, SessionStep(s)
    PROVE  TypeInv'
  <1> USE PendingRunsAssumption, InitialRecords DEF TypeInv
  <1>0. /\ session \in [Sessions -> SessionRecord]
        /\ session[s] \in SessionRecord
        /\ CursorFits(session[s])
    BY DEF TypeOK, CursorOK, CursorFits
  <1>1. CASE OpenReview(s)
    <2>1. PICK d \in made :
            session' = [session EXCEPT ![s] =
              [IdleSession EXCEPT !.pc = "next", !.run = d, !.list = status[d].list]]
      BY <1>1 DEF OpenReview
    <2> DEFINE r == [IdleSession EXCEPT !.pc = "next", !.run = d, !.list = status[d].list]
    <2>2. d \in Runs /\ status[d].list \in [Props -> Statuses]
      BY <2>1 DEF TypeOK, RunStatus
    <2>3. r \in SessionRecord /\ CursorFits(r)
      BY <2>2 DEF SessionRecord, CursorFits, IdleSession
    <2>4. session' \in [Sessions -> SessionRecord] /\ CursorOK'
      BY <2>1, <2>3, SessionUpdate
    <2> QED
      BY <1>1, <2>4 DEF OpenReview, TypeOK, store
  <1>2. CASE OpenApply(s)
    <2>1. PICK d \in made :
            session' = [session EXCEPT ![s] =
              [IdleSession EXCEPT !.pc = "next", !.kind = "apply", !.run = d, !.list = status[d].list]]
      BY <1>2 DEF OpenApply
    <2> DEFINE r == [IdleSession EXCEPT !.pc = "next", !.kind = "apply", !.run = d, !.list = status[d].list]
    <2>2. d \in Runs /\ status[d].list \in [Props -> Statuses]
      BY <2>1 DEF TypeOK, RunStatus
    <2>3. r \in SessionRecord /\ CursorFits(r)
      BY <2>2 DEF SessionRecord, CursorFits, IdleSession
    <2>4. session' \in [Sessions -> SessionRecord] /\ CursorOK'
      BY <2>1, <2>3, SessionUpdate
    <2> QED
      BY <1>2, <2>4 DEF OpenApply, TypeOK, store
  <1>3. CASE SkipProposal(s)
    <2> DEFINE r == [session[s] EXCEPT !.cur = session[s].cur + 1]
    <2>1. session' = [session EXCEPT ![s] = r]
      BY <1>3, <1>0 DEF SkipProposal
    <2>2. r \in SessionRecord /\ CursorFits(r)
      BY <1>3, <1>0, CursorStep DEF SkipProposal, SessionRecord, CursorFits
    <2>3. session' \in [Sessions -> SessionRecord] /\ CursorOK'
      BY <2>1, <2>2, SessionUpdate
    <2> QED
      BY <1>3, <2>3 DEF SkipProposal, TypeOK, store
  <1>4. ASSUME NEW as \in Applying, Accept(s, as) PROVE TypeInv'
    <2> DEFINE r == [session[s] EXCEPT !.pc = "write", !.as = as]
    <2>1. session' = [session EXCEPT ![s] = r]
      BY <1>4, <1>0 DEF Accept
    <2>2. r \in SessionRecord /\ CursorFits(r)
      BY <1>4, <1>0 DEF Accept, Ready, SessionRecord, CursorFits, AtPending
    <2>3. session' \in [Sessions -> SessionRecord] /\ CursorOK'
      BY <2>1, <2>2, SessionUpdate
    <2> QED
      BY <1>4, <2>3 DEF Accept, TypeOK, store
  <1>5. CASE Reject(s)
    <2> DEFINE r == [session[s] EXCEPT !.pc = "save", !.list = [session[s].list EXCEPT ![session[s].cur] = "rejected"]]
    <2>1. session' = [session EXCEPT ![s] = r]
      BY <1>5, <1>0 DEF Reject
    <2>2. r \in SessionRecord /\ CursorFits(r)
      BY <1>5, <1>0 DEF Reject, SessionRecord, CursorFits, Statuses
    <2>3. session' \in [Sessions -> SessionRecord] /\ CursorOK'
      BY <2>1, <2>2, SessionUpdate
    <2> QED
      BY <1>5, <2>3 DEF Reject, TypeOK, store
  <1>6. ASSUME session[s].pc \in {"write", "annotate"}, session' = Resolved(s)
         PROVE  session' \in [Sessions -> SessionRecord] /\ CursorOK'
    <2> DEFINE l == [session[s].list EXCEPT ![session[s].cur] = session[s].as]
               r == IF session[s].kind = "review"
                    THEN [session[s] EXCEPT !.list = l, !.pc = "save"]
                    ELSE [session[s] EXCEPT !.list = l, !.pc = "next",
                                            !.cur = session[s].cur + 1]
    <2>1. session' = [session EXCEPT ![s] = r]
      BY <1>6, <1>0 DEF Resolved, SessionRecord
    <2>2. l \in [Props -> Statuses]
      BY <1>0 DEF SessionRecord, Applying, Statuses
    <2>3. session[s].cur \in Props
      BY <1>6, <1>0 DEF CursorFits
    <2> HIDE DEF l
    <2>4. r \in SessionRecord /\ CursorFits(r)
      BY <1>0, <2>2, <2>3, CursorStep DEF SessionRecord, CursorFits
    <2> QED
      BY <2>1, <2>4, SessionUpdate
  <1>7. CASE WriteContent(s)
    <2> DEFINE p == session[s].cur
    <2>1. p \in Props /\ session[s].run \in Runs /\ session[s].as \in Applying
      BY <1>7, <1>0 DEF WriteContent, CursorFits, SessionRecord
    <2>2. Written(s) \in FileRecord
      <3>1. file[Target[p]] \in FileRecord
        BY <2>1 DEF TypeOK
      <3>2. CASE Op[p] = "prune"
        BY <3>1, <3>2 DEF Written, FileRecord
      <3>3. CASE Op[p] # "prune"
        BY <2>1, <3>3 DEF Written, FileRecord
      <3> QED
        BY <3>2, <3>3
    <2>3. file' \in [Targets -> FileRecord]
      BY <1>7, <2>1, <2>2 DEF WriteContent, TypeOK
    <2>4. done' \subseteq Runs \X Props \X Applying
      BY <1>7, <2>1 DEF WriteContent, TypeOK
    <2>5. session' \in [Sessions -> SessionRecord] /\ CursorOK'
      <3>1. CASE session' = Resolved(s)
        BY <1>7, <1>6, <3>1 DEF WriteContent
      <3>2. CASE session' = [session EXCEPT ![s].pc = "annotate"]
        <4> DEFINE r == [session[s] EXCEPT !.pc = "annotate"]
        <4>1. session' = [session EXCEPT ![s] = r]
          BY <3>2
        <4>2. r \in SessionRecord /\ CursorFits(r)
          BY <1>0, <2>1 DEF SessionRecord, CursorFits
        <4> QED
          BY <4>1, <4>2, SessionUpdate
      <3> QED
        BY <1>7, <3>1, <3>2 DEF WriteContent
    <2> QED
      BY <1>7, <2>3, <2>4, <2>5 DEF WriteContent, TypeOK, store
  <1>8. CASE Annotate(s)
    <2> DEFINE p == session[s].cur
    <2>1. p \in Props /\ session[s].run \in Runs /\ session[s].as \in Applying
      BY <1>8, <1>0 DEF Annotate, CursorFits, SessionRecord
    <2>2. file' \in [Targets -> FileRecord]
      <3> DEFINE t == Target[p]
                 frozen == file[t].frozen \/ Marks(t, session[s].as, "frozen", {"source"})
                 curated == \/ file[t].curated
                            \/ Marks(t, session[s].as, "curated", {"source", "metric"})
      <3>1. t \in Targets /\ file \in [Targets -> FileRecord] /\ file[t] \in FileRecord
        BY <2>1 DEF TypeOK
      <3>2. file' = [file EXCEPT ![t] = [file[t] EXCEPT !.frozen = frozen, !.curated = curated]]
        BY <1>8, <3>1 DEF Annotate
      <3>3. frozen \in BOOLEAN /\ curated \in BOOLEAN
        BY DEF Marks
      <3> HIDE DEF frozen, curated, t
      <3> QED
        BY <3>1, <3>2, <3>3 DEF FileRecord
    <2>3. done' \subseteq Runs \X Props \X Applying
      BY <1>8, <2>1 DEF Annotate, TypeOK
    <2>4. session' \in [Sessions -> SessionRecord] /\ CursorOK'
      BY <1>8, <1>6 DEF Annotate
    <2> QED
      BY <1>8, <2>2, <2>3, <2>4 DEF Annotate, TypeOK, store
  <1>9. CASE FinishApply(s)
    <2> DEFINE r == [session[s] EXCEPT !.pc = "save"]
    <2>1. session' = [session EXCEPT ![s] = r]
      BY <1>9, <1>0 DEF FinishApply
    <2>2. r \in SessionRecord /\ CursorFits(r)
      BY <1>9, <1>0 DEF FinishApply, SessionRecord, CursorFits
    <2>3. session' \in [Sessions -> SessionRecord] /\ CursorOK'
      BY <2>1, <2>2, SessionUpdate
    <2> QED
      BY <1>9, <2>3 DEF FinishApply, TypeOK, store
  <1>10. CASE TruncateStatus(s)
    <2> DEFINE r == [session[s] EXCEPT !.pc = "store"]
    <2>1. session' = [session EXCEPT ![s] = r]
      BY <1>10, <1>0 DEF TruncateStatus
    <2>2. r \in SessionRecord /\ CursorFits(r)
      BY <1>10, <1>0 DEF TruncateStatus, SessionRecord, CursorFits
    <2>3. session' \in [Sessions -> SessionRecord] /\ CursorOK'
      BY <2>1, <2>2, SessionUpdate
    <2>4. status' \in [Runs -> RunStatus]
      <3> DEFINE d == session[s].run
      <3>1. d \in Runs /\ status[d] \in RunStatus
        BY <1>0 DEF SessionRecord, TypeOK
      <3>2. status' = [status EXCEPT ![d] = [status[d] EXCEPT !.on = "torn"]]
        BY <1>10 DEF TruncateStatus
      <3> QED
        BY <3>1, <3>2 DEF TypeOK, RunStatus
    <2> QED
      BY <1>10, <2>3, <2>4 DEF TruncateStatus, TypeOK
  <1>11. CASE StoreStatus(s)
    <2> DEFINE d == session[s].run
    <2>1. session' \in [Sessions -> SessionRecord] /\ CursorOK'
      <3>1. CASE session[s].kind = "review"
        <4> DEFINE r == [session[s] EXCEPT !.pc = "next", !.cur = session[s].cur + 1]
        <4>1. session' = [session EXCEPT ![s] = r]
          BY <1>11, <3>1 DEF StoreStatus
        <4>2. session[s].cur \in Props
          BY <1>11, <1>0, <3>1 DEF StoreStatus, CursorFits
        <4>3. r \in SessionRecord /\ CursorFits(r)
          BY <1>0, <4>2, CursorStep DEF SessionRecord, CursorFits
        <4> QED
          BY <4>1, <4>3, SessionUpdate
      <3>2. CASE session[s].kind # "review"
        <4>1. session' = [session EXCEPT ![s] = IdleSession]
          BY <1>11, <3>2 DEF StoreStatus
        <4>2. CursorFits(IdleSession)
          BY DEF IdleSession, CursorFits
        <4> QED
          BY <4>1, <4>2, SessionUpdate
      <3> QED
        BY <3>1, <3>2
    <2>2. status' \in [Runs -> RunStatus]
      <3>1. d \in Runs /\ session[s].list \in [Props -> Statuses]
        BY <1>0 DEF SessionRecord
      <3>2. \/ status' = [status EXCEPT ![d] = [on |-> "list", list |-> session[s].list]]
            \/ status' = status
        BY <1>11 DEF StoreStatus
      <3>3. [on |-> "list", list |-> session[s].list] \in RunStatus
        BY <3>1 DEF RunStatus
      <3> QED
        BY <3>1, <3>2, <3>3 DEF TypeOK
    <2> QED
      BY <1>11, <2>1, <2>2 DEF StoreStatus, TypeOK
  <1>12. CASE LeaveSession(s)
    <2> DEFINE r == IdleSession
    <2>1. session' = [session EXCEPT ![s] = r]
      BY <1>12, <1>0 DEF LeaveSession
    <2>2. r \in SessionRecord /\ CursorFits(r)
      BY <1>12, <1>0 DEF LeaveSession, SessionRecord, CursorFits, IdleSession
    <2>3. session' \in [Sessions -> SessionRecord] /\ CursorOK'
      BY <2>1, <2>2, SessionUpdate
    <2> QED
      BY <1>12, <2>3 DEF LeaveSession, TypeOK, store
  <1>13. CASE CrashSession(s)
    <2> DEFINE r == IdleSession
    <2>1. session' = [session EXCEPT ![s] = r]
      BY <1>13, <1>0 DEF CrashSession
    <2>2. r \in SessionRecord /\ CursorFits(r)
      BY <1>13, <1>0 DEF CrashSession, SessionRecord, CursorFits, IdleSession
    <2>3. session' \in [Sessions -> SessionRecord] /\ CursorOK'
      BY <2>1, <2>2, SessionUpdate
    <2> QED
      BY <1>13, <2>3 DEF CrashSession, TypeOK, store
  <1>14. CASE Show(s)
    <2> DEFINE r == [session[s] EXCEPT !.pc = "shown"]
    <2>1. session' = [session EXCEPT ![s] = r]
      BY <1>14, <1>0 DEF Show
    <2>2. r \in SessionRecord /\ CursorFits(r)
      BY <1>14, <1>0 DEF Show, AtPending, SessionRecord, CursorFits
    <2>3. session' \in [Sessions -> SessionRecord] /\ CursorOK'
      BY <2>1, <2>2, SessionUpdate
    <2> QED
      BY <1>14, <2>3 DEF Show, TypeOK, store
  <1>15. CASE Postpone(s)
    <2> DEFINE r == [session[s] EXCEPT !.pc = "next", !.cur = session[s].cur + 1]
    <2>1. session' = [session EXCEPT ![s] = r]
      BY <1>15, <1>0 DEF Postpone
    <2>2. r \in SessionRecord /\ CursorFits(r)
      BY <1>15, <1>0, CursorStep DEF Postpone, SessionRecord, CursorFits
    <2>3. session' \in [Sessions -> SessionRecord] /\ CursorOK'
      BY <2>1, <2>2, SessionUpdate
    <2> QED
      BY <1>15, <2>3 DEF Postpone, TypeOK, store
  <1> QED
    BY <1>1, <1>2, <1>3, <1>4, <1>5, <1>7, <1>8, <1>9, <1>10, <1>11, <1>12, <1>13, <1>14,
       <1>15
    DEF SessionStep

LEMMA TypeNext == TypeInv /\ [Next]_vars => TypeInv'
  <1> SUFFICES ASSUME TypeInv, [Next]_vars PROVE TypeInv'
    OBVIOUS
  <1> USE PendingRunsAssumption, InitialRecords DEF TypeInv, TypeOK, CursorOK, store
  <1>1. ASSUME NEW i \in Ingests, IngestStep(i) PROVE TypeInv'
    <2>1. CASE UniqueRunDir(i)
      BY <2>1 DEF UniqueRunDir, Runs
    <2>2. CASE MakeRunDir(i)
      BY <2>2 DEF MakeRunDir
    <2>3. CASE Collide(i)
      BY <2>3 DEF Collide
    <2>4. CASE WriteReport(i)
      BY <2>4 DEF WriteReport
    <2>5. CASE WriteStatus(i)
      <3>1. [on |-> "list", list |-> AllPending] \in RunStatus
        BY DEF RunStatus, AllPending, Statuses
      <3>2. status' \in [Runs -> RunStatus] /\ aged' \subseteq Runs
        BY <2>5, <3>1 DEF WriteStatus
      <3>3. ingest'[i].run = ingest[i].run /\ ingest' \in [Ingests ->
              [pc : {"idle", "chosen", "made", "reported", "done", "collided", "crashed"},
               run : Runs]]
        BY <2>5 DEF WriteStatus
      <3> QED
        BY <2>5, <3>2, <3>3 DEF WriteStatus
    <2>6. CASE CrashIngest(i)
      BY <2>6 DEF CrashIngest
    <2> QED
      BY <1>1, <2>1, <2>2, <2>3, <2>4, <2>5, <2>6 DEF IngestStep
  <1>2. ASSUME NEW s \in Sessions, SessionStep(s) PROVE TypeInv'
    BY <1>2, TypeSession
  <1>3. CASE GcScan
    BY <1>3 DEF GcScan
  <1>4. CASE GcUnlink
    BY <1>4 DEF GcUnlink
  <1>5. CASE GcRmdir
    BY <1>5 DEF GcRmdir
  <1>6. CASE GcCrash
    BY <1>6 DEF GcCrash
  <1>7. CASE DeleteDiff
    BY <1>7 DEF DeleteDiff
  <1>8. CASE Tick
    BY <1>8 DEF Tick
  <1>9. CASE Age
    BY <1>9 DEF Age
  <1>10. CASE UNCHANGED vars
    BY <1>10 DEF vars
  <1> QED
    BY <1>1, <1>2, <1>3, <1>4, <1>5, <1>6, <1>7, <1>8, <1>9, <1>10 DEF Next, GcStep

\* The store, the processes and the files keep their types in every run.
THEOREM TypeCorrect == Spec => []TypeOK
  <1>1. TypeInv /\ [Next]_vars => TypeInv'
    BY TypeNext
  <1>2. TypeInv => TypeOK
    BY DEF TypeInv
  <1> QED
    BY TypeInit, <1>1, <1>2, PTL DEF Spec

-----------------------------------------------------------------------------
(* Applied before recorded                                                  *)

\* A session whose list and run stay, or become the given ones, still holds
\* only finished work.
LEMMA HeldUpdate ==
    ASSUME TypeInv, HeldIsApplied, NEW s \in Sessions,
           NEW r \in SessionRecord, session' = [session EXCEPT ![s] = r],
           done \subseteq done',
           \A p \in Props : r.list[p] \in Applying => <<r.run, p, r.list[p]>> \in done'
    PROVE  HeldIsApplied'
  BY DEF TypeInv, TypeOK, HeldIsApplied

\* The new session list and run are the old ones.
LEMMA HeldKept ==
    ASSUME HeldIsApplied, done \subseteq done',
           \A s \in Sessions : /\ session'[s].list = session[s].list
                               /\ session'[s].run = session[s].run
    PROVE  HeldIsApplied'
  BY DEF HeldIsApplied

\* No recorded list changed.
LEMMA RecordedKept ==
    ASSUME AppliedBeforeRecorded, done \subseteq done',
           \A r \in Runs : status'[r].list = status[r].list
    PROVE  AppliedBeforeRecorded'
  BY DEF AppliedBeforeRecorded

LEMMA PendingIsNotApplying == \A p \in Props : AllPending[p] \notin Applying
  BY DEF AllPending, Applying

LEMMA AppliedInit == Init => AppliedInv
  BY PendingIsNotApplying
  DEF Init, AppliedInv, AppliedBeforeRecorded, HeldIsApplied, NoStatus, IdleSession

\* A session that ends has nothing in its list.
LEMMA HeldReset ==
    ASSUME TypeInv, HeldIsApplied, NEW s \in Sessions,
           session' = [session EXCEPT ![s] = IdleSession], done' = done
    PROVE  HeldIsApplied'
  <1>1. \A p \in Props : IdleSession.list[p] \notin Applying
    BY PendingIsNotApplying DEF IdleSession
  <1> QED
    BY <1>1, InitialRecords, HeldUpdate

\* apply_entry finished: the answer enters the list and the history together.
LEMMA HeldResolved ==
    ASSUME TypeInv, HeldIsApplied, NEW s \in Sessions, session' = Resolved(s),
           session[s].pc \in {"write", "annotate"},
           done' = done \cup {<<session[s].run, session[s].cur, session[s].as>>}
    PROVE  HeldIsApplied'
  <1> DEFINE c == session[s].cur
             l == [session[s].list EXCEPT ![c] = session[s].as]
  <1>1. session \in [Sessions -> SessionRecord] /\ session[s] \in SessionRecord
    BY DEF TypeInv, TypeOK
  <1>2. /\ session'[s].list = l
        /\ session'[s].run = session[s].run
        /\ \A q \in Sessions \ {s} : session'[q] = session[q]
    BY <1>1 DEF Resolved, SessionRecord
  <1>3. \A p \in Props : /\ p # c => l[p] = session[s].list[p]
                         /\ p = c => l[p] = session[s].as
    BY <1>1 DEF SessionRecord
  <1> HIDE DEF l
  <1>4. ASSUME NEW p \in Props, l[p] \in Applying
        PROVE  <<session[s].run, p, l[p]>> \in done'
    BY <1>3, <1>4 DEF HeldIsApplied
  <1>5. ASSUME NEW q \in Sessions \ {s}, NEW p \in Props, session'[q].list[p] \in Applying
        PROVE  <<session'[q].run, p, session'[q].list[p]>> \in done'
    BY <1>2, <1>5 DEF HeldIsApplied
  <1>6. ASSUME NEW p \in Props, session'[s].list[p] \in Applying
        PROVE  <<session'[s].run, p, session'[s].list[p]>> \in done'
    BY <1>2, <1>4, <1>6
  <1> QED
    BY <1>5, <1>6 DEF HeldIsApplied

LEMMA AppliedSession ==
    ASSUME TypeInv, AppliedInv, NEW s \in Sessions, SessionStep(s)
    PROVE  AppliedInv'
  <1> USE DEF AppliedInv
  <1>0. /\ session \in [Sessions -> SessionRecord]
        /\ session[s] \in SessionRecord
        /\ status \in [Runs -> RunStatus]
    BY DEF TypeInv, TypeOK
  <1>1. CASE OpenReview(s)
    <2>1. PICK d \in made :
            session' = [session EXCEPT ![s] =
              [IdleSession EXCEPT !.pc = "next", !.run = d, !.list = status[d].list]]
      BY <1>1 DEF OpenReview
    <2> DEFINE r == [IdleSession EXCEPT !.pc = "next", !.run = d, !.list = status[d].list]
    <2>2. d \in Runs /\ status[d].list \in [Props -> Statuses]
      BY <2>1 DEF TypeInv, TypeOK, RunStatus
    <2>3. r \in SessionRecord /\ r.run = d /\ r.list = status[d].list
      BY <2>2, InitialRecords DEF SessionRecord, IdleSession
    <2>4. \A p \in Props : r.list[p] \in Applying => <<r.run, p, r.list[p]>> \in done
      BY <2>2, <2>3 DEF AppliedBeforeRecorded
    <2>5. session' = [session EXCEPT ![s] = r] /\ done' = done
      BY <1>1, <2>1 DEF OpenReview
    <2> HIDE DEF r
    <2>6. HeldIsApplied'
      BY <2>3, <2>4, <2>5, HeldUpdate
    <2> QED
      BY <1>1, <2>6, RecordedKept DEF OpenReview, store
  <1>2. CASE OpenApply(s)
    <2>1. PICK d \in made :
            session' = [session EXCEPT ![s] =
              [IdleSession EXCEPT !.pc = "next", !.kind = "apply", !.run = d, !.list = status[d].list]]
      BY <1>2 DEF OpenApply
    <2> DEFINE r == [IdleSession EXCEPT !.pc = "next", !.kind = "apply", !.run = d, !.list = status[d].list]
    <2>2. d \in Runs /\ status[d].list \in [Props -> Statuses]
      BY <2>1 DEF TypeInv, TypeOK, RunStatus
    <2>3. r \in SessionRecord /\ r.run = d /\ r.list = status[d].list
      BY <2>2, InitialRecords DEF SessionRecord, IdleSession
    <2>4. \A p \in Props : r.list[p] \in Applying => <<r.run, p, r.list[p]>> \in done
      BY <2>2, <2>3 DEF AppliedBeforeRecorded
    <2>5. session' = [session EXCEPT ![s] = r] /\ done' = done
      BY <1>2, <2>1 DEF OpenApply
    <2> HIDE DEF r
    <2>6. HeldIsApplied'
      BY <2>3, <2>4, <2>5, HeldUpdate
    <2> QED
      BY <1>2, <2>6, RecordedKept DEF OpenApply, store
  <1>3. CASE SkipProposal(s)
    <2>1. \A q \in Sessions : /\ session'[q].list = session[q].list
                              /\ session'[q].run = session[q].run
      BY <1>3, <1>0 DEF SkipProposal, SessionRecord
    <2> QED
      BY <1>3, <2>1, HeldKept, RecordedKept DEF SkipProposal, store
  <1>4. ASSUME NEW as \in Applying, Accept(s, as) PROVE AppliedInv'
    <2>1. \A q \in Sessions : /\ session'[q].list = session[q].list
                              /\ session'[q].run = session[q].run
      BY <1>4, <1>0 DEF Accept, SessionRecord
    <2> QED
      BY <1>4, <2>1, HeldKept, RecordedKept DEF Accept, store
  <1>5. CASE FinishApply(s)
    <2>1. \A q \in Sessions : /\ session'[q].list = session[q].list
                              /\ session'[q].run = session[q].run
      BY <1>5, <1>0 DEF FinishApply, SessionRecord
    <2> QED
      BY <1>5, <2>1, HeldKept, RecordedKept DEF FinishApply, store
  <1>6. CASE Reject(s)
    <2> DEFINE l == [session[s].list EXCEPT ![session[s].cur] = "rejected"]
               r == [session[s] EXCEPT !.pc = "save", !.list = l]
    <2>1. session' = [session EXCEPT ![s] = r]
      BY <1>6 DEF Reject
    <2>2. l \in [Props -> Statuses]
      BY <1>0 DEF SessionRecord, Statuses
    <2>3. \A p \in Props : l[p] \in Applying => l[p] = session[s].list[p]
      BY <1>0 DEF SessionRecord, Applying
    <2> HIDE DEF l
    <2>4. r \in SessionRecord /\ r.list = l /\ r.run = session[s].run
      BY <1>0, <2>2 DEF SessionRecord
    <2>5. \A p \in Props : r.list[p] \in Applying => <<r.run, p, r.list[p]>> \in done
      BY <2>3, <2>4 DEF HeldIsApplied
    <2> HIDE DEF r
    <2>6. HeldIsApplied'
      BY <1>6, <2>1, <2>4, <2>5, HeldUpdate DEF Reject
    <2> QED
      BY <1>6, <2>6, RecordedKept DEF Reject, store
  <1>7. CASE WriteContent(s)
    <2>1. CASE session[s].as = "accepted" \/ Op[session[s].cur] = "prune"
      <3>1. HeldIsApplied'
        BY <1>7, <2>1, HeldResolved DEF WriteContent
      <3> QED
        BY <1>7, <2>1, <3>1, RecordedKept DEF WriteContent, store
    <2>2. CASE ~(session[s].as = "accepted" \/ Op[session[s].cur] = "prune")
      <3>1. \A q \in Sessions : /\ session'[q].list = session[q].list
                                /\ session'[q].run = session[q].run
        BY <1>7, <1>0, <2>2 DEF WriteContent, SessionRecord
      <3> QED
        BY <1>7, <2>2, <3>1, HeldKept, RecordedKept DEF WriteContent, store
    <2> QED
      BY <2>1, <2>2
  <1>8. CASE Annotate(s)
    <2>1. HeldIsApplied'
      BY <1>8, HeldResolved DEF Annotate
    <2> QED
      BY <1>8, <2>1, RecordedKept DEF Annotate, store
  <1>9. CASE TruncateStatus(s)
    <2>1. \A q \in Sessions : /\ session'[q].list = session[q].list
                              /\ session'[q].run = session[q].run
      BY <1>9, <1>0 DEF TruncateStatus, SessionRecord
    <2>2. \A r \in Runs : status'[r].list = status[r].list
      BY <1>9, <1>0 DEF TruncateStatus, RunStatus
    <2> QED
      BY <1>9, <2>1, <2>2, HeldKept, RecordedKept DEF TruncateStatus
  <1>10. CASE StoreStatus(s)
    <2> DEFINE d == session[s].run
    <2>1. HeldIsApplied'
      <3>1. CASE session[s].kind = "review"
        <4>1. \A q \in Sessions : /\ session'[q].list = session[q].list
                                  /\ session'[q].run = session[q].run
          BY <1>10, <1>0, <3>1 DEF StoreStatus, SessionRecord
        <4> QED
          BY <1>10, <4>1, HeldKept DEF StoreStatus
      <3>2. CASE session[s].kind # "review"
        BY <1>10, <3>2, HeldReset DEF StoreStatus
      <3> QED
        BY <3>1, <3>2
    <2>2. ASSUME NEW r \in Runs, NEW p \in Props, status'[r].list[p] \in Applying
          PROVE  <<r, p, status'[r].list[p]>> \in done
      <3>1. status'[r].list = status[r].list \/ (r = d /\ status'[r].list = session[s].list)
        BY <1>10, <1>0 DEF StoreStatus
      <3> QED
        BY <2>2, <3>1 DEF AppliedBeforeRecorded, HeldIsApplied
    <2> QED
      BY <1>10, <2>1, <2>2 DEF StoreStatus, AppliedBeforeRecorded
  <1>11. CASE LeaveSession(s)
    BY <1>11, HeldReset, RecordedKept DEF LeaveSession, store
  <1>12. CASE CrashSession(s)
    BY <1>12, HeldReset, RecordedKept DEF CrashSession, store
  <1>13. CASE Show(s)
    <2>1. \A q \in Sessions : /\ session'[q].list = session[q].list
                              /\ session'[q].run = session[q].run
      BY <1>13, <1>0 DEF Show, SessionRecord
    <2> QED
      BY <1>13, <2>1, HeldKept, RecordedKept DEF Show, store
  <1>14. CASE Postpone(s)
    <2>1. \A q \in Sessions : /\ session'[q].list = session[q].list
                              /\ session'[q].run = session[q].run
      BY <1>14, <1>0 DEF Postpone, SessionRecord
    <2> QED
      BY <1>14, <2>1, HeldKept, RecordedKept DEF Postpone, store
  <1> QED
    BY <1>1, <1>2, <1>3, <1>4, <1>5, <1>6, <1>7, <1>8, <1>9, <1>10, <1>11, <1>12, <1>13, <1>14
    DEF SessionStep

LEMMA AppliedNext == TypeInv /\ AppliedInv /\ [Next]_vars => AppliedInv'
  <1> SUFFICES ASSUME TypeInv, AppliedInv, [Next]_vars PROVE AppliedInv'
    OBVIOUS
  <1> USE DEF AppliedInv
  <1>1. ASSUME NEW i \in Ingests, IngestStep(i) PROVE AppliedInv'
    <2>1. session' = session /\ done' = done
      BY <1>1 DEF IngestStep, UniqueRunDir, MakeRunDir, Collide, WriteReport, WriteStatus,
                  CrashIngest
    <2>2. CASE WriteStatus(i)
      <3>1. \A r \in Runs : status'[r].list \in {status[r].list, AllPending}
        BY <2>2 DEF WriteStatus, TypeInv, TypeOK, RunStatus
      <3>2. AppliedBeforeRecorded'
        BY <2>1, <3>1, PendingIsNotApplying DEF AppliedBeforeRecorded
      <3> QED
        BY <2>1, <3>2, HeldKept
    <2>3. CASE status' = status
      BY <2>1, <2>3, HeldKept, RecordedKept
    <2> QED
      BY <1>1, <2>2, <2>3 DEF IngestStep, UniqueRunDir, MakeRunDir, Collide, WriteReport,
                              CrashIngest, store
  <1>2. ASSUME NEW s \in Sessions, SessionStep(s) PROVE AppliedInv'
    BY <1>2, AppliedSession
  <1>3. CASE GcUnlink
    <2>1. \A r \in Runs : status'[r].list \in {status[r].list, AllPending}
      BY <1>3 DEF GcUnlink, NoStatus, TypeInv, TypeOK, RunStatus
    <2>2. AppliedBeforeRecorded'
      BY <1>3, <2>1, PendingIsNotApplying DEF GcUnlink, AppliedBeforeRecorded
    <2> QED
      BY <1>3, <2>2, HeldKept DEF GcUnlink
  <1>4. CASE GcScan \/ GcRmdir \/ GcCrash \/ DeleteDiff \/ Tick \/ Age \/ UNCHANGED vars
    <2>1. session' = session /\ done' = done /\ status' = status
      BY <1>4 DEF GcScan, GcRmdir, GcCrash, DeleteDiff, Tick, Age, vars, store
    <2> QED
      BY <2>1, HeldKept, RecordedKept
  <1> QED
    BY <1>1, <1>2, <1>3, <1>4 DEF Next, GcStep

\* A proposal recorded as accepted, frozen or curated has had its file work
\* finished in that way, for any number of concurrent reviews, applies, ingests
\* and crashes: apply_entry precedes update_status and what a session saves is
\* what it loaded or finished itself.
THEOREM AppliedFirst == Spec => []AppliedBeforeRecorded
  <1>1. TypeInv /\ AppliedInv /\ [Next]_vars => TypeInv' /\ AppliedInv'
    BY TypeNext, AppliedNext
  <1>2. AppliedInv => AppliedBeforeRecorded
    BY DEF AppliedInv
  <1> QED
    BY TypeInit, AppliedInit, <1>1, <1>2, PTL DEF Spec

-----------------------------------------------------------------------------
(* One writer per run directory                                             *)

LEMMA WriterInit == Init => WriterInv
  BY DEF Init, WriterInv, OneWriterPerRun, StoreOK, Filling, NoStatus

\* An ingest that does not touch the store and does not start filling.
LEMMA WriterKept ==
    ASSUME WriterInv,
           made \subseteq made', doomed' \subseteq made',
           \A i \in Ingests : Filling(i)' => Filling(i) /\ ingest'[i].run = ingest[i].run,
           \A r \in Runs : status'[r].on # "missing" => status[r].on # "missing",
           \A i \in Ingests : Filling(i) =>
               /\ ingest[i].run \notin doomed'
               /\ status'[ingest[i].run].on = "missing"
    PROVE  WriterInv'
  BY DEF WriterInv, OneWriterPerRun, StoreOK, Filling

LEMMA WriterIngest ==
    ASSUME TypeInv, WriterInv, NEW i \in Ingests, IngestStep(i)
    PROVE  WriterInv'
  <1>0. /\ ingest \in [Ingests -> [pc : {"idle", "chosen", "made", "reported", "done",
                                         "collided", "crashed"}, run : Runs]]
        /\ status \in [Runs -> RunStatus]
        /\ doomed \subseteq made
    BY DEF TypeInv, TypeOK, WriterInv, StoreOK
  <1>1. CASE UniqueRunDir(i) \/ Collide(i) \/ CrashIngest(i) \/ WriteReport(i)
    <2>1. made' = made /\ status' = status /\ doomed' = doomed
      BY <1>1 DEF UniqueRunDir, Collide, CrashIngest, WriteReport, store
    <2>2. \A j \in Ingests : Filling(j)' => Filling(j) /\ ingest'[j].run = ingest[j].run
      <3>1. CASE UniqueRunDir(i)
        <4>1. PICK k : ingest' = [ingest EXCEPT ![i] = [pc |-> "chosen", run |-> <<clock, k>>]]
          BY <3>1 DEF UniqueRunDir
        <4> QED
          BY <1>0, <4>1 DEF Filling
      <3>2. CASE Collide(i)
        BY <1>0, <3>2 DEF Collide, Filling
      <3>3. CASE CrashIngest(i)
        BY <1>0, <3>3 DEF CrashIngest, Filling
      <3>4. CASE WriteReport(i)
        BY <1>0, <3>4 DEF WriteReport, Filling
      <3> QED
        BY <1>1, <3>1, <3>2, <3>3, <3>4
    <2> QED
      BY <1>0, <2>1, <2>2, WriterKept DEF WriterInv, OneWriterPerRun, StoreOK, Filling
  <1>2. CASE MakeRunDir(i)
    <2> DEFINE d == ingest[i].run
    <2>1. /\ d \in Runs /\ d \notin made /\ made' = made \cup {d}
          /\ status' = status /\ doomed' = doomed
          /\ ingest'[i].run = d
          /\ \A j \in Ingests \ {i} : ingest'[j] = ingest[j]
      BY <1>0, <1>2 DEF MakeRunDir
    <2>2. status[d].on = "missing" /\ d \notin doomed
      BY <2>1 DEF WriterInv, StoreOK
    <2>3. \A j \in Ingests : Filling(j) => ingest[j].run \in made
      BY DEF WriterInv, OneWriterPerRun, Filling
    <2> HIDE DEF d
    <2>4. StoreOK'
      BY <2>1, <2>2 DEF WriterInv, StoreOK, Filling
    <2>5. OneWriterPerRun'
      BY <2>1, <2>2, <2>3 DEF WriterInv, OneWriterPerRun, Filling
    <2> QED
      BY <2>4, <2>5 DEF WriterInv
  <1>3. CASE WriteStatus(i)
    <2> DEFINE d == ingest[i].run
    <2>1. /\ Filling(i) /\ ~Filling(i)'
          /\ d \in Runs /\ made' = made /\ doomed' = doomed
          /\ \A j \in Ingests \ {i} : ingest'[j] = ingest[j]
          /\ \A r \in Runs \ {d} : status'[r] = status[r]
      BY <1>0, <1>3 DEF WriteStatus, Filling
    <2>2. d \in made /\ \A j \in Ingests \ {i} : Filling(j) => ingest[j].run # d
      BY <2>1 DEF WriterInv, OneWriterPerRun, Filling
    <2>3. \A j \in Ingests : ingest[j].run \in Runs
      BY <1>0
    <2> HIDE DEF d
    <2>4. StoreOK'
      BY <2>1, <2>2 DEF WriterInv, StoreOK, Filling
    <2>5. OneWriterPerRun'
      BY <2>1, <2>2, <2>3 DEF WriterInv, OneWriterPerRun, Filling
    <2> QED
      BY <2>4, <2>5 DEF WriterInv
  <1> QED
    BY <1>1, <1>2, <1>3 DEF IngestStep

LEMMA WriterSession ==
    ASSUME TypeInv, WriterInv, NEW s \in Sessions, SessionStep(s)
    PROVE  WriterInv'
  <1>1. made' = made /\ doomed' = doomed /\ ingest' = ingest
    BY DEF SessionStep, OpenReview, OpenApply, Show, SkipProposal, Postpone, Accept, Reject, WriteContent,
           Annotate, FinishApply, TruncateStatus, StoreStatus, LeaveSession, CrashSession, store
  <1>2. \A r \in Runs : status'[r].on # "missing" <=> status[r].on # "missing"
    <2> USE DEF TypeInv, TypeOK, RunStatus
    <2>1. CASE TruncateStatus(s)
      BY <2>1 DEF TruncateStatus
    <2>2. CASE StoreStatus(s)
      <3> DEFINE d == session[s].run
      <3>1. \/ status' = status
            \/ /\ status[d].on = "torn"
               /\ status' = [status EXCEPT ![d] = [on |-> "list", list |-> session[s].list]]
        BY <2>2 DEF StoreStatus
      <3>2. d \in Runs
        BY DEF SessionRecord
      <3> HIDE DEF d
      <3> QED
        BY <3>1, <3>2, SMTT(60)
    <2>3. CASE status' = status
      BY <2>3
    <2> QED
      BY <2>1, <2>2, <2>3
      DEF SessionStep, OpenReview, OpenApply, Show, SkipProposal, Postpone, Accept, Reject, WriteContent,
          Annotate, FinishApply, LeaveSession, CrashSession, store
  <1>3. \A i \in Ingests : ingest[i].run \in Runs
    BY DEF TypeInv, TypeOK
  <1> QED
    BY <1>1, <1>2, <1>3 DEF WriterInv, OneWriterPerRun, StoreOK, Filling

LEMMA WriterNext == TypeInv /\ WriterInv /\ [Next]_vars => WriterInv'
  <1> SUFFICES ASSUME TypeInv, WriterInv, [Next]_vars PROVE WriterInv'
    OBVIOUS
  <1>0. /\ \A i \in Ingests : ingest[i].run \in Runs
        /\ status \in [Runs -> RunStatus] /\ made \subseteq Runs
    BY DEF TypeInv, TypeOK
  <1>1. ASSUME NEW i \in Ingests, IngestStep(i) PROVE WriterInv'
    BY <1>1, WriterIngest
  <1>2. ASSUME NEW s \in Sessions, SessionStep(s) PROVE WriterInv'
    BY <1>2, WriterSession
  <1>3. CASE GcScan
    <2>1. \A r \in doomed' : r \in made /\ status[r].on = "list"
      BY <1>3 DEF GcScan, Expired
    <2> QED
      BY <1>0, <1>3, <2>1 DEF GcScan, store, WriterInv, OneWriterPerRun, StoreOK, Filling
  <1>4. CASE GcUnlink
    <2>1. \A r \in Runs : status'[r].on \in {status[r].on, "missing"}
      BY <1>0, <1>4 DEF GcUnlink, NoStatus
    <2> QED
      BY <1>0, <1>4, <2>1 DEF GcUnlink, WriterInv, OneWriterPerRun, StoreOK, Filling
  <1>5. CASE GcRmdir
    <2>1. PICK d \in doomed : /\ status[d].on = "missing"
                              /\ made' = made \ {d} /\ doomed' = doomed \ {d}
      BY <1>5 DEF GcRmdir
    <2> QED
      BY <1>0, <1>5, <2>1 DEF GcRmdir, WriterInv, OneWriterPerRun, StoreOK, Filling
  <1>6. CASE GcCrash
    BY <1>6 DEF GcCrash, store, WriterInv, OneWriterPerRun, StoreOK, Filling
  <1>7. CASE DeleteDiff \/ Tick \/ Age \/ UNCHANGED vars
    BY <1>7 DEF DeleteDiff, Tick, Age, vars, store, WriterInv, OneWriterPerRun, StoreOK, Filling
  <1> QED
    BY <1>1, <1>2, <1>3, <1>4, <1>5, <1>6, <1>7 DEF Next, GcStep

\* However many ingests start in the same second and whatever gc removes in
\* between, a run directory that is being filled belongs to one ingest and
\* holds no recorded decisions: mkdir is exclusive, and gc only touches
\* directories whose status.yaml is complete.
THEOREM OneWriter == Spec => []OneWriterPerRun
  <1>1. TypeInv /\ WriterInv /\ [Next]_vars => TypeInv' /\ WriterInv'
    BY TypeNext, WriterNext
  <1>2. WriterInv => OneWriterPerRun
    BY DEF WriterInv
  <1> QED
    BY TypeInit, WriterInit, <1>1, <1>2, PTL DEF Spec

-----------------------------------------------------------------------------
(* Recorded decisions, with one review or apply at a time                   *)

\* The commands take no lock: that reviews and applies of a project follow one
\* another is up to its users.  Ingests and gc still run at any time.
OneSession == \A s, t \in Sessions : s = t

\* A directory without a status.yaml says nothing of its proposals.
MissingIsBlank == \A r \in Runs : status[r].on = "missing" => status[r].list = AllPending

\* A session knows every decision that its run has recorded.
KnowsDecisions ==
    \A s \in Sessions : session[s].pc # "idle" =>
        \A p \in Props : status[session[s].run].list[p] # "pending" =>
            session[s].list[p] = status[session[s].run].list[p]

\* A session works on a proposal that it holds as pending.
WorksOnPending ==
    \A s \in Sessions : session[s].pc \in {"shown", "write", "annotate"} =>
        session[s].list[session[s].cur] = "pending"

\* gc has doomed only runs without a pending proposal.
DoomedIsResolved ==
    \A r \in doomed : status[r].on # "missing" => Pending(status[r].list) = {}

DecisionInv == MissingIsBlank /\ KnowsDecisions /\ WorksOnPending /\ DoomedIsResolved

\* The steps of a session, by what they do to the list it holds and the lists
\* on disk.
Opens(s) ==
    /\ session'[s].pc = "next"
    /\ session'[s].run \in Runs
    /\ session'[s].list = status[session'[s].run].list
    /\ status' = status /\ file' = file /\ done' = done

KeepsLists(s) ==
    /\ session[s].pc # "idle"
    /\ session'[s].run = session[s].run
    /\ session'[s].list = session[s].list
    /\ session'[s].pc \in {"shown", "write", "annotate"} =>
         /\ session'[s].cur = session[s].cur
         /\ session[s].list[session[s].cur] = "pending"
    /\ \A r \in Runs : /\ status'[r].list = status[r].list
                       /\ status'[r].on = "missing" <=> status[r].on = "missing"

Resolves(s, as) ==
    /\ session[s].pc \in {"shown", "write", "annotate"}
    /\ session'[s].pc \in {"save", "next"}
    /\ session'[s].run = session[s].run
    /\ session'[s].list = [session[s].list EXCEPT ![session[s].cur] = as]
    /\ status' = status

Leaves(s) == session'[s].pc = "idle" /\ status' = status /\ file' = file /\ done' = done

Saves(s) ==
    /\ \/ session'[s].pc = "idle"
       \/ /\ session'[s].pc = "next"
          /\ session'[s].run = session[s].run
          /\ session'[s].list = session[s].list
    /\ session[s].pc = "store"
    /\ status[session[s].run].on = "torn"
    /\ status' = [status EXCEPT ![session[s].run] =
                    [on |-> "list", list |-> session[s].list]]
    /\ file' = file /\ done' = done

\* What a session step is, and what it does to the files.
LEMMA SessionShape ==
    ASSUME TypeInv, WorksOnPending, NEW s \in Sessions, SessionStep(s)
    PROVE  \/ Opens(s) \/ Leaves(s) \/ Saves(s)
           \/ KeepsLists(s) /\ file' = file /\ done' = done
           \/ Resolves(s, "rejected") /\ file' = file /\ done' = done
           \/ WriteContent(s) /\ (KeepsLists(s) \/ Resolves(s, session[s].as))
           \/ Annotate(s) /\ Resolves(s, session[s].as)
  <1>0. /\ session \in [Sessions -> SessionRecord]
        /\ session[s] \in SessionRecord
        /\ status \in [Runs -> RunStatus] /\ made \subseteq Runs
        /\ session[s].run \in Runs
    BY DEF TypeInv, TypeOK, SessionRecord
  <1>1. CASE OpenReview(s) \/ OpenApply(s)
    <2>1. /\ status' = status /\ file' = file /\ done' = done
          /\ \E d \in made :
               \/ session' = [session EXCEPT ![s] =
                    [IdleSession EXCEPT !.pc = "next", !.run = d, !.list = status[d].list]]
               \/ session' = [session EXCEPT ![s] =
                    [IdleSession EXCEPT !.pc = "next", !.kind = "apply", !.run = d,
                                        !.list = status[d].list]]
      BY <1>1 DEF OpenReview, OpenApply, store
    <2>2. PICK d \in made : /\ session'[s].pc = "next" /\ session'[s].run = d
                            /\ session'[s].list = status[d].list
      BY <2>1, <1>0 DEF IdleSession
    <2> QED
      BY <2>1, <2>2, <1>0 DEF Opens
  <1>2. CASE Show(s) \/ SkipProposal(s) \/ Postpone(s) \/ FinishApply(s)
    BY <1>0, <1>2 DEF Show, SkipProposal, Postpone, FinishApply, AtPending, KeepsLists, store,
                      SessionRecord
  <1>3. ASSUME NEW as \in Applying, Accept(s, as)
        PROVE  KeepsLists(s) /\ file' = file /\ done' = done
    <2>1. session[s].pc # "idle" /\ session[s].list[session[s].cur] = "pending"
      BY <1>3 DEF Accept, Ready, AtPending, WorksOnPending
    <2> QED
      BY <1>0, <1>3, <2>1 DEF Accept, KeepsLists, store, SessionRecord
  <1>4. CASE Reject(s)
    BY <1>0, <1>4 DEF Reject, Resolves, store, SessionRecord
  <1>5. ASSUME session[s].pc \in {"write", "annotate"}, session' = Resolved(s), status' = status
        PROVE  Resolves(s, session[s].as)
    BY <1>0, <1>5 DEF Resolved, Resolves, SessionRecord
  <1>6. CASE WriteContent(s)
    <2>1. CASE session' = Resolved(s)
      BY <1>5, <1>6, <2>1 DEF WriteContent, store
    <2>2. CASE session' = [session EXCEPT ![s].pc = "annotate"]
      BY <1>0, <1>6, <2>2 DEF WriteContent, KeepsLists, WorksOnPending, SessionRecord, store
    <2> QED
      BY <1>6, <2>1, <2>2 DEF WriteContent
  <1>7. CASE Annotate(s)
    BY <1>5, <1>7 DEF Annotate, store
  <1>8. CASE TruncateStatus(s)
    <2>1. \A r \in Runs : /\ status'[r].list = status[r].list
                         /\ status'[r].on = "missing" <=> status[r].on = "missing"
      BY <1>0, <1>8 DEF TruncateStatus, RunStatus
    <2> QED
      BY <1>0, <1>8, <2>1 DEF TruncateStatus, KeepsLists, SessionRecord
  <1>9. CASE StoreStatus(s)
    <2>1. /\ session[s].pc = "store" /\ file' = file /\ done' = done
          /\ \/ session'[s].pc = "idle"
             \/ /\ session'[s].pc = "next"
                /\ session'[s].run = session[s].run
                /\ session'[s].list = session[s].list
      BY <1>0, <1>9 DEF StoreStatus, IdleSession, SessionRecord
    <2>2. CASE status' = status
      BY <2>1, <2>2 DEF KeepsLists, Leaves
    <2>3. CASE status' # status
      BY <1>9, <2>1, <2>3 DEF StoreStatus, Saves
    <2> QED
      BY <2>2, <2>3
  <1>10. CASE LeaveSession(s) \/ CrashSession(s)
    BY <1>0, <1>10 DEF LeaveSession, CrashSession, IdleSession, Leaves, store
  <1> QED
    BY <1>1, <1>2, <1>3, <1>4, <1>6, <1>7, <1>8, <1>9, <1>10 DEF SessionStep

LEMMA DecisionInit == Init => DecisionInv
  BY DEF Init, DecisionInv, MissingIsBlank, KnowsDecisions, WorksOnPending, DoomedIsResolved,
         NoStatus, IdleSession

\* A step of the one session keeps what was decided, in memory and on disk.
LEMMA DecisionSession ==
    ASSUME OneSession, TypeInv, DecisionInv, NEW s \in Sessions, SessionStep(s)
    PROVE  /\ DecisionInv'
           /\ \A r \in Runs, p \in Props : status[r].list[p] # "pending" =>
                 status'[r].list[p] = status[r].list[p]
  <1> DEFINE d == session[s].run
             c == session[s].cur
             Decided == \A r \in Runs, p \in Props : status[r].list[p] # "pending" =>
                           status'[r].list[p] = status[r].list[p]
  <1>0. /\ \A t \in Sessions : t = s
        /\ status \in [Runs -> RunStatus]
        /\ d \in Runs /\ session[s].list \in [Props -> Statuses]
        /\ doomed \subseteq Runs
        /\ session[s].pc \in {"shown", "write", "annotate"} => c \in Props
    BY DEF OneSession, TypeInv, TypeOK, SessionRecord, CursorOK
  <1>1. doomed' = doomed
    BY DEF SessionStep, OpenReview, OpenApply, Show, SkipProposal, Postpone, Accept, Reject, WriteContent,
           Annotate, FinishApply, TruncateStatus, StoreStatus, LeaveSession, CrashSession, store
  <1>2. /\ MissingIsBlank
        /\ session[s].pc # "idle" => \A p \in Props :
             status[d].list[p] # "pending" => session[s].list[p] = status[d].list[p]
        /\ session[s].pc \in {"shown", "write", "annotate"} => session[s].list[c] = "pending"
        /\ DoomedIsResolved
    BY DEF DecisionInv, KnowsDecisions, WorksOnPending
  <1>3. ASSUME status' = status, session'[s].pc \notin {"shown", "write", "annotate"},
               session'[s].pc # "idle" => \A p \in Props :
                 status[session'[s].run].list[p] # "pending" =>
                   session'[s].list[p] = status[session'[s].run].list[p]
        PROVE  DecisionInv' /\ Decided
    BY <1>0, <1>1, <1>2, <1>3
    DEF DecisionInv, MissingIsBlank, KnowsDecisions, WorksOnPending, DoomedIsResolved, Pending
  <1>4. CASE Opens(s)
    BY <1>3, <1>4 DEF Opens
  <1>5. CASE Leaves(s)
    BY <1>3, <1>5 DEF Leaves
  <1>6. ASSUME NEW as, Resolves(s, as) PROVE DecisionInv' /\ Decided
    <2>1. \A p \in Props : session[s].list[p] # "pending" =>
            session'[s].list[p] = session[s].list[p]
      BY <1>0, <1>2, <1>6 DEF Resolves
    <2> QED
      BY <1>2, <1>3, <1>6, <2>1 DEF Resolves
  <1>7. CASE KeepsLists(s)
    <2>1. MissingIsBlank'
      BY <1>2, <1>7 DEF KeepsLists, MissingIsBlank
    <2>2. KnowsDecisions' /\ WorksOnPending'
      BY <1>0, <1>2, <1>7 DEF KeepsLists, KnowsDecisions, WorksOnPending
    <2>3. DoomedIsResolved'
      BY <1>0, <1>1, <1>2, <1>7 DEF KeepsLists, DoomedIsResolved, Pending
    <2> QED
      BY <1>7, <2>1, <2>2, <2>3 DEF DecisionInv, KeepsLists
  <1>8. CASE Saves(s)
    <2>1. /\ status'[d].on = "list" /\ status'[d].list = session[s].list
          /\ \A r \in Runs \ {d} : status'[r] = status[r]
          /\ status[d].on = "torn"
      BY <1>0, <1>8 DEF Saves
    <2>2. Decided
      BY <1>2, <1>8, <2>1 DEF Saves
    <2>3. MissingIsBlank'
      BY <1>2, <2>1 DEF MissingIsBlank
    <2>4. KnowsDecisions' /\ WorksOnPending'
      BY <1>0, <1>2, <1>8, <2>1 DEF Saves, KnowsDecisions, WorksOnPending
    <2>5. DoomedIsResolved'
      BY <1>0, <1>1, <1>2, <2>1, <2>2 DEF DoomedIsResolved, Pending
    <2> QED
      BY <2>2, <2>3, <2>4, <2>5 DEF DecisionInv
  <1> QED
    BY <1>4, <1>5, <1>6, <1>7, <1>8, SessionShape DEF DecisionInv

\* Ingests, gc, time and the user's deletions leave the sessions alone, and the
\* recorded decisions of every directory but those that gc removes.
LEMMA DecisionOthers ==
    ASSUME TypeInv, WriterInv, DecisionInv,
           \/ \E i \in Ingests : IngestStep(i)
           \/ GcStep \/ DeleteDiff \/ Tick \/ Age \/ UNCHANGED vars
    PROVE  /\ DecisionInv'
           /\ \A r \in Runs, p \in Props :
                (status[r].list[p] # "pending" /\ status'[r].on # "missing") =>
                  status'[r].list[p] = status[r].list[p]
           /\ \A r \in Runs : (status[r].on # "missing" /\ status'[r].on = "missing") =>
                Pending(status[r].list) = {}
           /\ done' = done /\ file' = file /\ session' = session
           /\ \A r \in Runs : status'[r].list \in {status[r].list, AllPending}
  <1> USE DEF DecisionInv, MissingIsBlank, KnowsDecisions, WorksOnPending, DoomedIsResolved
  <1>0. /\ status \in [Runs -> RunStatus] /\ doomed \subseteq Runs
        /\ \A i \in Ingests : ingest[i].run \in Runs
        /\ \A s \in Sessions : session[s].run \in Runs
    BY DEF TypeInv, TypeOK, SessionRecord
  <1>1. done' = done /\ file' = file /\ session' = session
    BY DEF IngestStep, UniqueRunDir, MakeRunDir, Collide, WriteReport, WriteStatus, CrashIngest,
           GcStep, GcScan, GcUnlink, GcRmdir, GcCrash, DeleteDiff, Tick, Age, vars
  <1>2. ASSUME NEW i \in Ingests, WriteStatus(i)
        PROVE  /\ DecisionInv'
               /\ \A r \in Runs : /\ status'[r].list = status[r].list
                                  /\ status'[r].on = "missing" => status[r].on = "missing"
    <2> DEFINE d == ingest[i].run
    <2>1. /\ d \in Runs /\ d \notin doomed /\ status[d].on = "missing"
          /\ status[d].list = AllPending
      BY <1>0, <1>2 DEF WriteStatus, WriterInv, OneWriterPerRun, StoreOK, Filling
    <2>2. /\ doomed' = doomed
          /\ status' = [status EXCEPT ![d] = [on |-> "list", list |-> AllPending]]
      BY <1>2 DEF WriteStatus
    <2> HIDE DEF d
    <2>3. /\ \A r \in Runs : status'[r].list = status[r].list
          /\ status'[d].on = "list"
          /\ \A r \in Runs \ {d} : status'[r] = status[r]
      BY <1>0, <2>1, <2>2
    <2> QED
      BY <1>0, <1>1, <2>1, <2>2, <2>3
  <1>3. CASE GcUnlink
    <2>1. PICK d \in doomed : /\ status[d].on # "missing"
                              /\ status' = [status EXCEPT ![d] = NoStatus]
                              /\ doomed' = doomed
      BY <1>3 DEF GcUnlink
    <2>2. /\ \A r \in Runs \ {d} : status'[r] = status[r]
          /\ status'[d].on = "missing" /\ status'[d].list = AllPending
          /\ \A p \in Props : status'[d].list[p] = "pending"
          /\ Pending(status[d].list) = {}
      BY <1>0, <2>1 DEF NoStatus, AllPending
    <2> QED
      BY <1>0, <1>1, <2>1, <2>2, SMTT(60)
  <1>4. CASE GcScan
    <2>1. status' = status /\ \A r \in doomed' : Pending(status[r].list) = {}
      BY <1>4 DEF GcScan, Expired, store
    <2> QED
      BY <1>0, <1>1, <2>1
  <1>5. CASE status' = status /\ doomed' \subseteq doomed
    BY <1>0, <1>1, <1>5
  <1> QED
    BY <1>1, <1>2, <1>3, <1>4, <1>5
    DEF IngestStep, UniqueRunDir, MakeRunDir, Collide, WriteReport, CrashIngest,
        GcStep, GcRmdir, GcCrash, DeleteDiff, Tick, Age, vars, store

LEMMA DecisionNext ==
    ASSUME OneSession PROVE TypeInv /\ WriterInv /\ DecisionInv /\ [Next]_vars => DecisionInv'
  BY DecisionSession, DecisionOthers DEF Next

\* No status.yaml disappears by a session's step.
LEMMA SessionKeepsStatus ==
    ASSUME TypeInv, WorksOnPending, NEW s \in Sessions, SessionStep(s), NEW r \in Runs,
           status'[r].on = "missing"
    PROVE  status[r].on = "missing"
  <1>1. status \in [Runs -> RunStatus] /\ session[s].run \in Runs
    BY DEF TypeInv, TypeOK, SessionRecord
  <1>2. CASE Saves(s)
    BY <1>1, <1>2 DEF Saves
  <1>3. CASE KeepsLists(s)
    BY <1>3 DEF KeepsLists
  <1> QED
    BY <1>2, <1>3, SessionShape DEF Opens, Leaves, Resolves

\* A session carries out only what no one has decided.
LEMMA DoneWasPending ==
    ASSUME TypeInv, DecisionInv, NEW s \in Sessions, SessionStep(s),
           NEW r \in Runs, NEW p \in Props, NEW as, <<r, p, as>> \in done' \ done
    PROVE  status[r].list[p] = "pending"
  <1>1. /\ session[s].pc \in {"write", "annotate"}
        /\ r = session[s].run /\ p = session[s].cur
    <2>1. CASE WriteContent(s) \/ Annotate(s)
      <3>1. /\ session[s].pc \in {"write", "annotate"}
            /\ \/ done' = done
               \/ done' = done \cup {<<session[s].run, session[s].cur, session[s].as>>}
        BY <2>1 DEF WriteContent, Annotate
      <3> QED
        BY <3>1
    <2>2. CASE done' = done
      BY <2>2
    <2> QED
      BY <2>1, <2>2, SessionShape DEF DecisionInv, Opens, Leaves, Saves
  <1> QED
    BY <1>1 DEF DecisionInv, WorksOnPending, KnowsDecisions

\* As long as reviews and applies do not overlap, a decision stays as it was
\* recorded while its run exists and a rejected proposal is never carried out,
\* whatever ingests and gc do meanwhile, crashes included: a session loads
\* status.yaml, works on pending entries only, and saves the whole list back.
THEOREM DecisionsAreFinal == ASSUME OneSession PROVE Spec => TerminalIsFinal
  <1>1. TypeInv /\ WriterInv /\ DecisionInv /\ [Next]_vars =>
          TypeInv' /\ WriterInv' /\ DecisionInv'
    BY TypeNext, WriterNext, DecisionNext
  <1>2. TypeInv /\ WriterInv /\ DecisionInv /\ [Next]_vars =>
          [\A r \in Runs, p \in Props :
             /\ (status[r].list[p] # "pending" /\ status'[r].on # "missing") =>
                   status'[r].list[p] = status[r].list[p]
             /\ status[r].list[p] = "rejected" =>
                   \A as \in Applying : <<r, p, as>> \notin done' \ done]_vars
    BY DecisionSession, DecisionOthers, DoneWasPending DEF Next
  <1> QED
    BY TypeInit, WriterInit, DecisionInit, <1>1, <1>2, PTL DEF Spec, TerminalIsFinal

\* As long as reviews and applies do not overlap, `canonic gc` removes no run
\* that has a pending proposal at that moment, though it decides on an earlier
\* scan: what a session saves into a doomed run has nothing pending either, and
\* no ingest refills a directory before it is gone.
THEOREM GcIsSafe == ASSUME OneSession PROVE Spec => GcKeepsUnreviewed
  <1>1. TypeInv /\ WriterInv /\ DecisionInv /\ [Next]_vars =>
          TypeInv' /\ WriterInv' /\ DecisionInv'
    BY TypeNext, WriterNext, DecisionNext
  <1>2. TypeInv /\ WriterInv /\ DecisionInv /\ [Next]_vars =>
          [\A r \in Runs :
             (status[r].on # "missing" /\ status'[r].on = "missing") =>
                 Pending(status[r].list) = {}]_vars
    BY SessionKeepsStatus, DecisionOthers DEF Next, DecisionInv
  <1> QED
    BY TypeInit, WriterInit, DecisionInit, <1>1, <1>2, PTL DEF Spec, GcKeepsUnreviewed

-----------------------------------------------------------------------------
(* Markers, with one review or apply at a time                              *)

\* The file has the marker that this status of the proposal stands for.
Marked(f, st, surface) ==
    /\ st = "frozen" /\ surface = "source" => f.frozen
    /\ st = "curated" /\ surface # "other" => f.curated

\* As long as the files still hold what the proposal wrote, its status is backed.
Backed(files, r, p, st) ==
    LET f == files[Target[p]] IN
    (Op[p] = "write" /\ f.on /\ f.by = {<<r, p>>}) => Marked(f, st, Surface[Target[p]])

RecordedIsBacked == \A r \in Runs, p \in Props : Backed(file, r, p, status[r].list[p])

\* What a session is going to save is backed by the files as well.
HeldIsBacked ==
    \A s \in Sessions : session[s].pc # "idle" =>
        \A p \in Props : Backed(file, session[s].run, p, session[s].list[p])

MarkerInv == RecordedIsBacked /\ HeldIsBacked

LEMMA BackedMeans == RecordedIsBacked <=> ProtectionRecorded
  BY DEF RecordedIsBacked, Backed, Marked, ProtectionRecorded, StillHolds

LEMMA MarkerInit == Init => MarkerInv
  BY PendingRunsAssumption
  DEF Init, MarkerInv, RecordedIsBacked, HeldIsBacked, Backed, IdleSession

\* A pending, accepted or rejected proposal needs no marker.
LEMMA UnmarkedIsBacked ==
    \A files, r, p, st : st \notin {"frozen", "curated"} => Backed(files, r, p, st)
  BY DEF Backed, Marked

\* write_emitted_diffs takes a file from every other proposal.
LEMMA ContentBacks ==
    ASSUME TypeInv, NEW s \in Sessions, WriteContent(s)
    PROVE  /\ \A r \in Runs, p \in Props, st \in Statuses :
                <<r, p>> # <<session[s].run, session[s].cur>> =>
                  (Backed(file, r, p, st) => Backed(file', r, p, st))
           /\ Op[session[s].cur] = "prune" => \A st \in Statuses :
                Backed(file', session[s].run, session[s].cur, st)
  <1> DEFINE c == session[s].cur
             d == session[s].run
  <1>1. /\ c \in Props /\ d \in Runs /\ file \in [Targets -> FileRecord]
        /\ Target[c] \in Targets
        /\ file' = [file EXCEPT ![Target[c]] = Written(s)]
    BY PendingRunsAssumption DEF WriteContent, TypeInv, TypeOK, CursorOK, SessionRecord
  <1>2. /\ Written(s).on => Written(s).by = {<<d, c>>}
        /\ Op[c] = "prune" => Written(s).on = FALSE
    BY <1>1 DEF Written, FileRecord
  <1>3. /\ file'[Target[c]] = Written(s)
        /\ \A t \in Targets \ {Target[c]} : file'[t] = file[t]
    BY <1>1
  <1>4. \A p \in Props : Target[p] \in Targets
    BY PendingRunsAssumption
  <1> HIDE DEF c, d
  <1>5. ASSUME NEW r \in Runs, NEW p \in Props, NEW st \in Statuses, <<r, p>> # <<d, c>>,
               Backed(file, r, p, st)
        PROVE  Backed(file', r, p, st)
    <2>1. CASE Target[p] = Target[c]
      <3>1. {<<r, p>>} # {<<d, c>>}
        BY <1>5, Zenon
      <3>2. ~(file'[Target[p]].on /\ file'[Target[p]].by = {<<r, p>>})
        BY <1>2, <1>3, <2>1, <3>1
      <3> QED
        BY <3>2 DEF Backed
    <2>2. CASE Target[p] # Target[c]
      BY <1>3, <1>4, <1>5, <2>2 DEF Backed
    <2> QED
      BY <2>1, <2>2
  <1>6. ASSUME Op[c] = "prune", NEW st \in Statuses PROVE Backed(file', d, c, st)
    BY <1>2, <1>3, <1>6 DEF Backed
  <1> QED
    BY <1>5, <1>6 DEF c, d

\* The second write only adds markers, and adds the one its answer stands for.
LEMMA AnnotateBacks ==
    ASSUME TypeInv, NEW s \in Sessions, Annotate(s)
    PROVE  /\ \A r \in Runs, p \in Props, st \in Statuses :
                Backed(file, r, p, st) => Backed(file', r, p, st)
           /\ Backed(file', session[s].run, session[s].cur, session[s].as)
  <1> DEFINE c == session[s].cur
             t == Target[c]
             frozen == file[t].frozen \/ Marks(t, session[s].as, "frozen", {"source"})
             curated == file[t].curated \/ Marks(t, session[s].as, "curated", {"source", "metric"})
  <1>1. /\ c \in Props /\ file \in [Targets -> FileRecord] /\ t \in Targets
        /\ Surface[t] \in {"source", "metric", "other"}
        /\ \A p \in Props : Target[p] \in Targets
    BY PendingRunsAssumption DEF Annotate, TypeInv, TypeOK, CursorOK
  <1>2. file' = [file EXCEPT ![t] = [file[t] EXCEPT !.frozen = frozen, !.curated = curated]]
    BY <1>1 DEF Annotate
  <1>3. /\ file[t].frozen => frozen
        /\ file[t].curated => curated
        /\ file[t].on /\ session[s].as = "frozen" /\ Surface[t] = "source" => frozen
        /\ file[t].on /\ session[s].as = "curated" /\ Surface[t] # "other" => curated
    BY <1>1 DEF Marks
  <1> HIDE DEF frozen, curated, t, c
  <1>4. /\ file'[t].on = file[t].on /\ file'[t].by = file[t].by
        /\ file'[t].frozen = frozen /\ file'[t].curated = curated
        /\ \A u \in Targets \ {t} : file'[u] = file[u]
    BY <1>1, <1>2 DEF FileRecord
  <1>5. ASSUME NEW r \in Runs, NEW p \in Props, NEW st \in Statuses, Backed(file, r, p, st)
        PROVE  Backed(file', r, p, st)
    <2>1. CASE Target[p] = t
      BY <1>3, <1>4, <1>5, <2>1 DEF Backed, Marked
    <2>2. CASE Target[p] # t
      BY <1>1, <1>4, <1>5, <2>2 DEF Backed
    <2> QED
      BY <2>1, <2>2
  <1>6. Backed(file', session[s].run, c, session[s].as)
    BY <1>3, <1>4 DEF Backed, Marked, t
  <1> QED
    BY <1>5, <1>6 DEF c

LEMMA MarkerSession ==
    ASSUME OneSession, TypeInv, DecisionInv, MarkerInv, NEW s \in Sessions, SessionStep(s)
    PROVE  MarkerInv'
  <1> DEFINE d == session[s].run
             c == session[s].cur
             l == session[s].list
  <1>0. /\ \A t \in Sessions : t = s
        /\ status \in [Runs -> RunStatus] /\ d \in Runs
        /\ l \in [Props -> Statuses] /\ session[s].as \in Statuses
        /\ \A r \in Runs, p \in Props : status[r].list[p] \in Statuses
        /\ session[s].pc \in {"shown", "write", "annotate"} => c \in Props
    BY DEF OneSession, TypeInv, TypeOK, SessionRecord, CursorOK, RunStatus, Applying, Statuses
  <1>1. /\ \A r \in Runs, p \in Props : Backed(file, r, p, status[r].list[p])
        /\ session[s].pc # "idle" => \A p \in Props : Backed(file, d, p, l[p])
    BY DEF MarkerInv, RecordedIsBacked, HeldIsBacked
  <1>2. session[s].pc \in {"shown", "write", "annotate"} =>
          l[c] = "pending" /\ status[d].list[c] = "pending"
    BY <1>0 DEF DecisionInv, WorksOnPending, KnowsDecisions
  <1>3. SUFFICES /\ \A r \in Runs, p \in Props : Backed(file', r, p, status'[r].list[p])
                 /\ session'[s].pc # "idle" => \A p \in Props :
                      Backed(file', session'[s].run, p, session'[s].list[p])
    BY <1>0 DEF MarkerInv, RecordedIsBacked, HeldIsBacked
  <1> HIDE DEF d, c, l
  <1>4. CASE Opens(s)
    BY <1>1, <1>4 DEF Opens
  <1>5. CASE Leaves(s)
    BY <1>1, <1>5 DEF Leaves
  <1>6. CASE Saves(s)
    BY <1>0, <1>1, <1>6 DEF Saves, d, l
  <1>7. CASE KeepsLists(s) /\ file' = file /\ done' = done
    BY <1>1, <1>7 DEF KeepsLists, d, l
  <1>8. ASSUME Resolves(s, "rejected"), file' = file
        PROVE  /\ \A r \in Runs, p \in Props : Backed(file', r, p, status'[r].list[p])
               /\ \A p \in Props : Backed(file', session'[s].run, p, session'[s].list[p])
    <2>1. \A p \in Props : session'[s].list[p] \in {l[p], "rejected"}
      BY <1>0, <1>8 DEF Resolves, l
    <2> QED
      BY <1>1, <1>8, <2>1, UnmarkedIsBacked DEF Resolves, d, l
  <1>9. CASE WriteContent(s) /\ (KeepsLists(s) \/ Resolves(s, session[s].as))
    <2>1. /\ session[s].pc = "write" /\ c \in Props /\ l[c] = "pending"
          /\ status[d].list[c] = "pending"
          /\ status' = status
      BY <1>0, <1>2, <1>9 DEF WriteContent, store
    <2>2. \A st \in Statuses : st \notin {"frozen", "curated"} \/ Op[c] = "prune" =>
            Backed(file', d, c, st)
      BY <1>9, ContentBacks, UnmarkedIsBacked DEF c, d
    <2>3. \A r \in Runs, p \in Props, st \in Statuses :
             <<r, p>> # <<d, c>> => (Backed(file, r, p, st) => Backed(file', r, p, st))
      BY <1>9, ContentBacks DEF c, d
    <2>4. \A r \in Runs, p \in Props : Backed(file', r, p, status'[r].list[p])
      BY <1>0, <1>1, <2>1, <2>2, <2>3
    <2>5. \A p \in Props : Backed(file', d, p, l[p])
      BY <1>0, <1>1, <2>1, <2>2, <2>3
    <2>6. CASE KeepsLists(s)
      BY <2>4, <2>5, <2>6 DEF KeepsLists, d, l
    <2>7. CASE Resolves(s, session[s].as)
      <3>1. session[s].as = "accepted" \/ Op[c] = "prune"
        BY <1>0, <1>9, <2>7 DEF WriteContent, Resolves, c, TypeInv, TypeOK, SessionRecord
      <3>2. /\ session'[s].run = d
            /\ session'[s].list[c] = session[s].as
            /\ \A p \in Props \ {c} : session'[s].list[p] = l[p]
        BY <1>0, <2>1, <2>7 DEF Resolves, d, l, c
      <3>3. Backed(file', d, c, session[s].as)
        BY <1>0, <2>2, <3>1
      <3> QED
        BY <2>4, <2>5, <3>2, <3>3
    <2> QED
      BY <1>9, <2>6, <2>7
  <1>10. CASE Annotate(s) /\ Resolves(s, session[s].as)
    <2>1. session[s].pc = "annotate" /\ c \in Props /\ status' = status
      BY <1>0, <1>10 DEF Annotate, store
    <2>2. \A r \in Runs, p \in Props, st \in Statuses :
             Backed(file, r, p, st) => Backed(file', r, p, st)
      BY <1>10, AnnotateBacks
    <2>3. Backed(file', d, c, session[s].as)
      BY <1>10, AnnotateBacks DEF c, d
    <2>4. /\ session'[s].run = d
          /\ session'[s].list[c] = session[s].as
          /\ \A p \in Props \ {c} : session'[s].list[p] = l[p]
      BY <1>0, <1>10, <2>1 DEF Resolves, d, l, c
    <2>5. \A p \in Props : Backed(file', d, p, l[p])
      BY <1>0, <1>1, <2>1, <2>2
    <2> QED
      BY <1>0, <1>1, <2>1, <2>2, <2>3, <2>4, <2>5
  <1> QED
    BY <1>4, <1>5, <1>6, <1>7, <1>8, <1>9, <1>10, SessionShape DEF DecisionInv

LEMMA MarkerNext ==
    ASSUME OneSession
    PROVE  TypeInv /\ WriterInv /\ DecisionInv /\ MarkerInv /\ [Next]_vars => MarkerInv'
  <1> SUFFICES ASSUME TypeInv, WriterInv, DecisionInv, MarkerInv, [Next]_vars PROVE MarkerInv'
    OBVIOUS
  <1>1. ASSUME NEW s \in Sessions, SessionStep(s) PROVE MarkerInv'
    BY <1>1, MarkerSession
  <1>2. CASE \/ \E i \in Ingests : IngestStep(i)
             \/ GcStep \/ DeleteDiff \/ Tick \/ Age \/ UNCHANGED vars
    <2>1. /\ file' = file /\ session' = session
          /\ \A r \in Runs : status'[r].list \in {status[r].list, AllPending}
      BY <1>2, DecisionOthers
    <2>2. \A p \in Props : AllPending[p] \notin {"frozen", "curated"}
      BY DEF AllPending
    <2> QED
      BY <2>1, <2>2, UnmarkedIsBacked DEF MarkerInv, RecordedIsBacked, HeldIsBacked
  <1> QED
    BY <1>1, <1>2 DEF Next

\* As long as reviews and applies do not overlap, a status "frozen" or "curated"
\* is backed by the marker in the file the proposal wrote, though file, marker
\* and status are three writes and any of them may be the last before a crash:
\* the status is saved after the marker, and a later write of the file is of a
\* proposal that is pending until its own marker is there.
THEOREM MarkersBackStatus == ASSUME OneSession PROVE Spec => []ProtectionRecorded
  <1>1. TypeInv /\ WriterInv /\ DecisionInv /\ MarkerInv /\ [Next]_vars =>
          TypeInv' /\ WriterInv' /\ DecisionInv' /\ MarkerInv'
    BY TypeNext, WriterNext, DecisionNext, MarkerNext
  <1>2. MarkerInv => ProtectionRecorded
    BY BackedMeans DEF MarkerInv
  <1> QED
    BY TypeInit, WriterInit, DecisionInit, MarkerInit, <1>1, <1>2, PTL DEF Spec

-----------------------------------------------------------------------------
(* Drafting: induction and lists                                            *)

LEMMA LeastNatural ==
    ASSUME NEW S \in SUBSET Nat, S # {}
    PROVE  \E x \in S : \A y \in S : x <= y
  <1> DEFINE R == OpToRel(<, Nat)
  <1>1. IsWellFoundedOn(R, Nat)
    BY NatLessThanWellFounded
  <1>2. \A x, y \in Nat : <<y, x>> \in R <=> y < x
    BY DEF OpToRel
  <1> HIDE DEF R
  <1>3. PICK x \in S : \A y \in S : ~(<<y, x>> \in R)
    BY <1>1, WFMin
  <1>4. \A y \in S : ~(y < x)
    BY <1>2, <1>3
  <1> QED
    BY <1>4

LEMMA Induction ==
    ASSUME NEW S \in SUBSET Nat, 0 \in S, \A n \in S : n + 1 \in S
    PROVE  S = Nat
  <1> SUFFICES ASSUME Nat \ S # {} PROVE FALSE
    OBVIOUS
  <1>1. PICK x \in Nat \ S : \A y \in Nat \ S : x <= y
    <2>1. (Nat \ S) \in SUBSET Nat
      OBVIOUS
    <2> QED
      BY <2>1, LeastNatural
  <1>2. x # 0 /\ x - 1 \in Nat /\ x - 1 < x
    BY <1>1
  <1>3. x - 1 \in S
    BY <1>1, <1>2
  <1> QED
    BY <1>1, <1>2, <1>3

LEMMA UpTo ==
    ASSUME NEW m \in Nat, NEW S \in SUBSET Nat, 0 \in S, \A n \in S : n < m => n + 1 \in S
    PROVE  m \in S
  <1> DEFINE T == {n \in Nat : n <= m => n \in S}
  <1>1. 0 \in T
    OBVIOUS
  <1>2. \A n \in T : n + 1 \in T
    OBVIOUS
  <1>3. T \in SUBSET Nat
    OBVIOUS
  <1>4. T = Nat
    <2> HIDE DEF T
    <2> QED
      BY <1>1, <1>2, <1>3, Induction
  <1> QED
    BY <1>4

\* A sequence of anything.
IsSeq(s) == \E S : s \in Seq(S)

LEMMA SeqFacts ==
    ASSUME NEW s, IsSeq(s)
    PROVE  Len(s) \in Nat /\ DOMAIN s = 1..Len(s)
  BY DEF IsSeq

LEMMA AppendFacts ==
    ASSUME NEW s, IsSeq(s), NEW e
    PROVE  /\ IsSeq(Append(s, e)) /\ Len(Append(s, e)) = Len(s) + 1
           /\ DOMAIN Append(s, e) = 1..(Len(s) + 1)
           /\ Append(s, e)[Len(s) + 1] = e
           /\ \A i \in 1..Len(s) : Append(s, e)[i] = s[i]
  <1>1. PICK S : s \in Seq(S)
    BY DEF IsSeq
  <1> DEFINE T == S \cup {e}
  <1>2. s \in Seq(T) /\ e \in T
    BY <1>1
  <1> HIDE DEF T
  <1>3. Append(s, e) \in Seq(T)
    BY <1>2
  <1> QED
    BY <1>2, <1>3 DEF IsSeq

LEMMA EmptyFacts == IsSeq(<<>>) /\ Len(<<>>) = 0 /\ DOMAIN <<>> = {}
  <1>1. <<>> \in Seq({})
    OBVIOUS
  <1> QED
    BY <1>1 DEF IsSeq

LEMMA ListIsSeq ==
    ASSUME NEW s, IsList(s)
    PROVE  IsSeq(s) /\ Len(s) \in Nat /\ DOMAIN s = 1..Len(s)
  <1>1. Len(s) \in Nat /\ s = [i \in 1..Len(s) |-> s[i]]
    BY DEF IsList
  <1> DEFINE S == {s[i] : i \in 1..Len(s)}
             n == Len(s)
             t == [i \in 1..n |-> s[i]]
  <1>2. t \in Seq(S)
    BY <1>1
  <1> QED
    BY <1>1, <1>2 DEF IsSeq

LEMMA ConcatFacts ==
    ASSUME NEW s, NEW t, IsSeq(s), IsSeq(t)
    PROVE  /\ IsSeq(s \o t) /\ Len(s \o t) = Len(s) + Len(t) /\ DOMAIN (s \o t) = 1..(Len(s) + Len(t))
           /\ \A i \in 1..Len(s) : (s \o t)[i] = s[i]
           /\ \A i \in 1..Len(t) : (s \o t)[Len(s) + i] = t[i]
           /\ ToSet(s \o t) = ToSet(s) \cup ToSet(t)
  <1>1. PICK S, T : s \in Seq(S) /\ t \in Seq(T)
    BY DEF IsSeq
  <1> DEFINE U == S \cup T
  <1>2. s \in Seq(U) /\ t \in Seq(U)
    BY <1>1
  <1> HIDE DEF U
  <1>3. s \o t \in Seq(U)
    BY <1>2
  <1>4. /\ Len(s \o t) = Len(s) + Len(t) /\ DOMAIN (s \o t) = 1..(Len(s) + Len(t))
        /\ \A i \in 1..Len(s) : (s \o t)[i] = s[i]
        /\ \A i \in 1..Len(t) : (s \o t)[Len(s) + i] = t[i]
    BY <1>2, <1>3
  <1>5. Len(s) \in Nat /\ Len(t) \in Nat /\ DOMAIN s = 1..Len(s) /\ DOMAIN t = 1..Len(t)
    BY <1>2
  <1> DEFINE c == s \o t
  <1>6. ASSUME NEW i \in 1..(Len(s) + Len(t)) PROVE c[i] \in ToSet(s) \cup ToSet(t)
    <2>1. CASE i <= Len(s)
      BY <1>4, <1>5, <2>1 DEF ToSet
    <2>2. CASE i > Len(s)
      <3>1. i - Len(s) \in 1..Len(t) /\ i = Len(s) + (i - Len(s))
        BY <1>5, <2>2
      <3> QED
        BY <1>4, <1>5, <3>1 DEF ToSet
    <2> QED
      BY <1>5, <2>1, <2>2
  <1>7. \A i \in 1..Len(s) : s[i] \in ToSet(c)
    BY <1>4, <1>5 DEF ToSet
  <1>8. ASSUME NEW i \in 1..Len(t) PROVE t[i] \in ToSet(c)
    <2>1. Len(s) + i \in DOMAIN c
      BY <1>4, <1>5
    <2> QED
      BY <1>4, <2>1 DEF ToSet
  <1>9. ToSet(c) = ToSet(s) \cup ToSet(t)
    <2> HIDE DEF c
    <2>1. DOMAIN c = 1..(Len(s) + Len(t))
      BY <1>4 DEF c
    <2>2. ToSet(c) \subseteq ToSet(s) \cup ToSet(t)
      BY <1>6, <2>1 DEF ToSet
    <2>3. ToSet(s) \cup ToSet(t) \subseteq ToSet(c)
      <3> USE <1>5
      <3> QED
        BY <1>7, <1>8 DEF ToSet
    <2> QED
      BY <2>2, <2>3
  <1> QED
    BY <1>3, <1>4, <1>9 DEF IsSeq

\* The first m + 1 of some sequences, flattened.
Flattening(f, ss, m) ==
    f = [n \in 0..m |-> IF n = 0 THEN ss[1] ELSE f[n - 1] \o ss[n + 1]]

LEMMA FlatteningExists ==
    ASSUME NEW ss, NEW m \in Nat
    PROVE  \E f : Flattening(f, ss, m)
  <1> DEFINE S == {k \in Nat : \E f : Flattening(f, ss, k)}
  <1>1. 0 \in S
    <2>1. Flattening([n \in 0..0 |-> ss[1]], ss, 0)
      BY DEF Flattening
    <2> QED
      BY <2>1
  <1>2. ASSUME NEW k \in S PROVE k + 1 \in S
    <2>1. PICK f : Flattening(f, ss, k)
      OBVIOUS
    <2> DEFINE h == [n \in 0..k+1 |-> IF n = k + 1 THEN f[k] \o ss[(k + 1) + 1] ELSE f[n]]
    <2>2. ASSUME NEW n \in 0..k+1
          PROVE  h[n] = IF n = 0 THEN ss[1] ELSE h[n - 1] \o ss[n + 1]
      <3>1. CASE n = k + 1
        <4>1. h[n] = f[k] \o ss[(k + 1) + 1] /\ h[n - 1] = f[k]
          BY <3>1
        <4> QED
          BY <3>1, <4>1
      <3>2. CASE n # k + 1 /\ n = 0
        <4>1. h[n] = f[0] /\ f[0] = ss[1]
          BY <2>1, <3>2 DEF Flattening
        <4> QED
          BY <3>2, <4>1
      <3>3. CASE n # k + 1 /\ n # 0
        <4>1. h[n] = f[n] /\ h[n - 1] = f[n - 1] /\ n \in 0..k
          BY <3>3
        <4>2. f[n] = f[n - 1] \o ss[n + 1]
          BY <2>1, <3>3, <4>1 DEF Flattening
        <4> QED
          BY <3>3, <4>1, <4>2
      <3> QED
        BY <3>1, <3>2, <3>3
    <2>3. Flattening(h, ss, k + 1)
      BY <2>2 DEF Flattening
    <2> QED
      BY <2>3
  <1>3. S = Nat
    <2> HIDE DEF S
    <2>1. S \in SUBSET Nat
      BY DEF S
    <2> QED
      BY <1>1, <1>2, <2>1, Induction
  <1> QED
    BY <1>3


IsSeqs(ss) == IsSeq(ss) /\ \A i \in DOMAIN ss : IsSeq(ss[i])

\* FlattenSeq counts from 1.
LEMMA FlattenIs ==
    ASSUME NEW ss, IsSeqs(ss), Len(ss) # 0
    PROVE  \E f : Flattening(f, ss, Len(ss) - 1) /\ FlattenSeq(ss) = f[Len(ss) - 1]
  <1> DEFINE m == Len(ss)
  <1>1. m \in Nat /\ m - 1 \in Nat
    BY SeqFacts DEF IsSeqs
  <1>2. PICK f : Flattening(f, ss, m - 1)
    BY <1>1, FlatteningExists
  <1> DEFINE Counts(h) == h = [i \in 1..m |-> IF i = 1 THEN ss[i] ELSE h[i-1] \o ss[i]]
             one == [i \in 1..m |-> f[i - 1]]
             h == CHOOSE h : Counts(h)
  <1>3. Counts(one)
    <2> SUFFICES ASSUME NEW i \in 1..m
                 PROVE  one[i] = IF i = 1 THEN ss[i] ELSE one[i-1] \o ss[i]
      OBVIOUS
    <2>1. i - 1 \in 0..(m - 1) /\ one[i] = f[i - 1]
      BY <1>1
    <2>2. CASE i = 1
      <3>1. f[0] = ss[1]
        BY <1>1, <1>2 DEF Flattening
      <3> QED
        BY <2>1, <2>2, <3>1
    <2>3. CASE i # 1
      <3>1. i - 1 # 0 /\ (i - 1) + 1 = i /\ i - 1 \in 1..m /\ one[i - 1] = f[(i - 1) - 1]
        BY <1>1, <2>3
      <3>2. f[i - 1] = f[(i - 1) - 1] \o ss[(i - 1) + 1]
        BY <1>2, <2>1, <3>1 DEF Flattening
      <3> QED
        BY <2>1, <2>3, <3>1, <3>2
    <2> QED
      BY <2>2, <2>3
  <1>4. Counts(h)
    <2> HIDE DEF one
    <2> QED
      BY <1>3
  <1>5. FlattenSeq(ss) = h[m]
    BY Zenon DEF FlattenSeq
  <1> HIDE DEF h
  <1> DEFINE S == {n \in Nat : n <= m - 1 => h[n + 1] = f[n]}
  <1>6. 0 \in S
    <2>1. h[1] = ss[1] /\ f[0] = ss[1]
      BY <1>1, <1>2, <1>4 DEF Flattening
    <2> QED
      BY <2>1
  <1>7. ASSUME NEW n \in S, n < m - 1 PROVE n + 1 \in S
    <2>1. n \in Nat /\ n + 1 \in 0..(m - 1) /\ (n + 1) - 1 = n /\ n + 1 # 0 /\ h[n + 1] = f[n]
      BY <1>1, <1>7
    <2>2. (n + 1) + 1 \in 1..m /\ (n + 1) + 1 # 1 /\ ((n + 1) + 1) - 1 = n + 1
      BY <1>1, <2>1
    <2>3. h[(n + 1) + 1] = h[n + 1] \o ss[(n + 1) + 1]
      BY <1>4, <2>2
    <2>4. f[n + 1] = f[n] \o ss[(n + 1) + 1]
      BY <1>2, <2>1 DEF Flattening
    <2>5. h[(n + 1) + 1] = f[n + 1]
      <3>1. h[n + 1] = f[n]
        BY <2>1
      <3> QED
        BY <2>3, <2>4, <3>1, Zenon
    <2>6. n + 1 \in Nat
      BY <2>1
    <2> QED
      BY <2>5, <2>6, Zenon
  <1>8. m - 1 \in S
    <2> HIDE DEF S
    <2>1. S \in SUBSET Nat
      BY DEF S
    <2> QED
      BY <1>1, <1>6, <1>7, <2>1, UpTo
  <1>9. FlattenSeq(ss) = f[m - 1]
    BY <1>1, <1>5, <1>8
  <1> QED
    BY <1>2, <1>9

\* What is in a flattened sequence is in one of its parts.
LEMMA FlattenFacts ==
    ASSUME NEW ss, IsSeqs(ss)
    PROVE  /\ IsSeq(FlattenSeq(ss))
           /\ ToSet(FlattenSeq(ss)) = UNION {ToSet(ss[i]) : i \in DOMAIN ss}
  <1>1. Len(ss) \in Nat /\ DOMAIN ss = 1..Len(ss) /\ IsSeq(ss)
    BY SeqFacts DEF IsSeqs
  <1>2. CASE Len(ss) = 0
    <2>1. FlattenSeq(ss) = ss
      BY <1>2, Zenon DEF FlattenSeq
    <2>2. DOMAIN ss = {}
      BY <1>1, <1>2
    <2> QED
      BY <1>1, <2>1, <2>2 DEF ToSet
  <1>3. CASE Len(ss) # 0
    <2> DEFINE m == Len(ss) - 1
    <2>1. m \in Nat
      BY <1>1, <1>3
    <2>2. PICK f : Flattening(f, ss, m) /\ FlattenSeq(ss) = f[m]
      BY <1>3, FlattenIs
    <2> DEFINE Parts(n) == UNION {ToSet(ss[i]) : i \in 1..(n + 1)}
               S == {n \in Nat : n <= m => IsSeq(f[n]) /\ ToSet(f[n]) = Parts(n)}
    <2>3. 0 \in S
      <3>1. f[0] = ss[1] /\ 1 \in DOMAIN ss
        BY <1>1, <1>3, <2>1, <2>2 DEF Flattening
      <3>2. Parts(0) = ToSet(ss[1])
        OBVIOUS
      <3> QED
        BY <3>1, <3>2 DEF IsSeqs
    <2>4. ASSUME NEW n \in S, n < m PROVE n + 1 \in S
      <3>1. n \in Nat /\ n + 1 \in 0..m /\ (n + 1) - 1 = n /\ n + 1 # 0 /\ (n + 1) + 1 \in DOMAIN ss
        BY <1>1, <2>1, <2>4
      <3> HIDE DEF Parts
      <3>2. IsSeq(f[n]) /\ ToSet(f[n]) = Parts(n)
        BY <2>1, <2>4, <3>1
      <3> DEFINE next == ss[(n + 1) + 1]
      <3>3. f[n + 1] = f[n] \o next
        BY <2>2, <3>1 DEF Flattening
      <3>4. IsSeq(next)
        BY <3>1 DEF IsSeqs
      <3>5. Parts(n + 1) = Parts(n) \cup ToSet(next)
        <4>1. \A i : i \in 1..((n + 1) + 1) <=> i \in 1..(n + 1) \/ i = (n + 1) + 1
          BY <3>1
        <4> QED
          BY <4>1 DEF Parts
      <3> HIDE DEF next
      <3>6. IsSeq(f[n + 1]) /\ ToSet(f[n + 1]) = Parts(n + 1)
        <4> DEFINE before == f[n]
        <4>1. IsSeq(before) /\ ToSet(before) = Parts(n) /\ f[n + 1] = before \o next
          BY <3>2, <3>3
        <4> HIDE DEF before
        <4>2. IsSeq(before \o next) /\ ToSet(before \o next) = ToSet(before) \cup ToSet(next)
          BY <3>4, <4>1, ConcatFacts
        <4> QED
          BY <3>5, <4>1, <4>2, Zenon
      <3> QED
        BY <3>1, <3>6
    <2>5. m \in S
      <3> HIDE DEF S, Parts
      <3>1. S \in SUBSET Nat
        BY DEF S
      <3> QED
        BY <2>1, <2>3, <2>4, <3>1, UpTo
    <2>6. 1..(m + 1) = DOMAIN ss
      BY <1>1, <1>3
    <2> QED
      BY <2>1, <2>2, <2>5, <2>6
  <1> QED
    BY <1>2, <1>3

-----------------------------------------------------------------------------
(* Drafting: the entries of a list at some places                           *)

Keeping(f, list, at) ==
    f = [n \in 0..Len(list) |->
           IF n = 0 THEN <<>>
           ELSE IF n \in at THEN Append(f[n - 1], list[n]) ELSE f[n - 1]]

LEMMA KeepingExists ==
    ASSUME NEW list, NEW at, Len(list) \in Nat
    PROVE  \E f : Keeping(f, list, at)
  <1> DEFINE Grown(g, n) == IF n \in at THEN Append(g, list[n]) ELSE g
             Upto(f, m) == f = [n \in 0..m |-> IF n = 0 THEN <<>> ELSE Grown(f[n - 1], n)]
             S == {k \in Nat : \E f : Upto(f, k)}
  <1>1. 0 \in S
    <2>1. Upto([n \in 0..0 |-> <<>>], 0)
      OBVIOUS
    <2> QED
      BY <2>1
  <1>2. ASSUME NEW k \in S PROVE k + 1 \in S
    <2>1. PICK f : Upto(f, k)
      OBVIOUS
    <2> HIDE DEF Grown
    <2> DEFINE h == [n \in 0..k+1 |-> IF n = k + 1 THEN Grown(f[k], k + 1) ELSE f[n]]
    <2>2. ASSUME NEW n \in 0..k+1
          PROVE  h[n] = IF n = 0 THEN <<>> ELSE Grown(h[n - 1], n)
      <3>1. CASE n = k + 1
        <4>1. h[n] = Grown(f[k], k + 1) /\ h[n - 1] = f[k]
          BY <3>1
        <4> QED
          BY <3>1, <4>1
      <3>2. CASE n # k + 1 /\ n = 0
        <4>1. h[n] = f[0] /\ f[0] = <<>>
          BY <2>1, <3>2
        <4> QED
          BY <3>2, <4>1
      <3>3. CASE n # k + 1 /\ n # 0
        <4>1. h[n] = f[n] /\ h[n - 1] = f[n - 1] /\ n \in 0..k
          BY <3>3
        <4>2. f[n] = Grown(f[n - 1], n)
          BY <2>1, <3>3, <4>1
        <4> QED
          BY <3>3, <4>1, <4>2
      <3> QED
        BY <3>1, <3>2, <3>3
    <2>3. Upto(h, k + 1)
      BY <2>2
    <2> HIDE DEF Upto, h
    <2>4. \E g : Upto(g, k + 1)
      BY <2>3
    <2> QED
      BY <2>4
  <1>3. S = Nat
    <2> HIDE DEF S
    <2>1. S \in SUBSET Nat
      BY DEF S
    <2> QED
      BY <1>1, <1>2, <2>1, Induction
  <1>4. PICK f : Upto(f, Len(list))
    BY <1>3
  <1>5. Keeping(f, list, at)
    BY <1>4 DEF Keeping
  <1> QED
    BY <1>5

\* s has the entries of the list at those of the first n places that are kept.
Kept(s, list, at, n) ==
    /\ IsSeq(s)
    /\ \A i \in DOMAIN s : \E j \in 1..n : j \in at /\ s[i] = list[j]
    /\ \A j \in 1..n : j \in at => \E i \in DOMAIN s : s[i] = list[j]

LEMMA KeptAppend ==
    ASSUME NEW s, NEW list, NEW at, NEW n \in Nat, Kept(s, list, at, n)
    PROVE  /\ n + 1 \in at => Kept(Append(s, list[n + 1]), list, at, n + 1)
           /\ n + 1 \notin at => Kept(s, list, at, n + 1)
  <1>1. \A j : j \in 1..(n + 1) <=> j \in 1..n \/ j = n + 1
    OBVIOUS
  <1>2. n + 1 \notin at => Kept(s, list, at, n + 1)
    BY <1>1 DEF Kept
  <1>3. ASSUME n + 1 \in at PROVE Kept(Append(s, list[n + 1]), list, at, n + 1)
    <2> DEFINE e == list[n + 1]
               t == Append(s, e)
               m == Len(s) + 1
    <2>1. IsSeq(s)
      BY DEF Kept
    <2> HIDE DEF e
    <2>2. Len(s) \in Nat /\ DOMAIN s = 1..Len(s)
      BY <2>1, SeqFacts
    <2>3. /\ IsSeq(t) /\ DOMAIN t = 1..(Len(s) + 1) /\ t[m] = e
          /\ \A i \in 1..Len(s) : t[i] = s[i]
      BY <2>1, AppendFacts
    <2>4. \A i : i \in DOMAIN t <=> i \in DOMAIN s \/ i = m
      BY <2>2, <2>3
    <2>5. \A i \in DOMAIN s : t[i] = s[i]
      BY <2>2, <2>3
    <2>6. IsSeq(t) /\ t[m] = e
      BY <2>3
    <2> HIDE DEF t, m
    <2>7. ASSUME NEW i \in DOMAIN t PROVE \E j \in 1..(n + 1) : j \in at /\ t[i] = list[j]
      <3>1. CASE i \in DOMAIN s
        BY <1>1, <2>5, <3>1 DEF Kept
      <3>2. CASE i = m
        BY <1>1, <1>3, <2>6, <3>2 DEF e
      <3> QED
        BY <2>4, <3>1, <3>2
    <2>8. ASSUME NEW j \in 1..(n + 1), j \in at PROVE \E i \in DOMAIN t : t[i] = list[j]
      <3>1. CASE j \in 1..n
        BY <2>4, <2>5, <2>8, <3>1 DEF Kept
      <3>2. CASE j = n + 1
        BY <2>4, <2>6, <3>2 DEF e
      <3> QED
        BY <1>1, <3>1, <3>2
    <2>9. Kept(t, list, at, n + 1)
      BY <2>6, <2>7, <2>8 DEF Kept
    <2> QED
      BY <2>9 DEF t, e
  <1> QED
    BY <1>2, <1>3

\* Growing a list entry by entry.
LEMMA KeepingFacts ==
    ASSUME NEW list, IsSeq(list), NEW at, NEW f, Keeping(f, list, at), NEW m \in 0..Len(list)
    PROVE  Kept(f[m], list, at, m)
  <1> DEFINE S == {n \in Nat : n <= Len(list) => Kept(f[n], list, at, n)}
  <1>0. Len(list) \in Nat
    BY SeqFacts
  <1>1. 0 \in S
    <2>1. f[0] = <<>>
      BY <1>0 DEF Keeping
    <2>2. Kept(<<>>, list, at, 0)
      BY EmptyFacts DEF Kept
    <2> QED
      BY <2>1, <2>2
  <1>2. ASSUME NEW n \in S PROVE n + 1 \in S
    <2> SUFFICES ASSUME n + 1 <= Len(list) PROVE Kept(f[n + 1], list, at, n + 1)
      OBVIOUS
    <2>1. n \in Nat /\ n + 1 \in 0..Len(list) /\ n + 1 # 0 /\ (n + 1) - 1 = n
      BY <1>0
    <2>2. f[n + 1] = IF n + 1 \in at THEN Append(f[n], list[n + 1]) ELSE f[n]
      BY <2>1 DEF Keeping
    <2>3. Kept(f[n], list, at, n)
      BY <1>0
    <2>4. /\ n + 1 \in at => Kept(Append(f[n], list[n + 1]), list, at, n + 1)
          /\ n + 1 \notin at => Kept(f[n], list, at, n + 1)
      BY <2>1, <2>3, KeptAppend
    <2> QED
      BY <2>2, <2>4
  <1>3. S = Nat
    <2> HIDE DEF S
    <2>1. S \in SUBSET Nat
      BY DEF S
    <2> QED
      BY <1>1, <1>2, <2>1, Induction
  <1> QED
    BY <1>0, <1>3

LEMMA KeepIs ==
    ASSUME NEW list, IsSeq(list), NEW at
    PROVE  \E f : Keeping(f, list, at) /\ Keep(list, at) = f[Len(list)]
  <1>1. Len(list) \in Nat
    BY SeqFacts
  <1>2. \E f : Keeping(f, list, at)
    BY <1>1, KeepingExists
  <1> DEFINE f == CHOOSE f : Keeping(f, list, at)
  <1>3. Keeping(f, list, at)
    BY <1>2
  <1>4. Keep(list, at) = f[Len(list)]
    BY DEF Keep, Keeping
  <1> QED
    BY <1>3, <1>4

LEMMA KeepFacts ==
    ASSUME NEW list, IsSeq(list), NEW at
    PROVE  /\ IsSeq(Keep(list, at))
           /\ \A i \in DOMAIN Keep(list, at) : \E j \in DOMAIN list : j \in at /\ Keep(list, at)[i] = list[j]
           /\ \A j \in DOMAIN list : j \in at => \E i \in DOMAIN Keep(list, at) : Keep(list, at)[i] = list[j]
  <1>1. Len(list) \in 0..Len(list) /\ DOMAIN list = 1..Len(list)
    BY SeqFacts
  <1>2. PICK f : Keeping(f, list, at) /\ Keep(list, at) = f[Len(list)]
    BY KeepIs
  <1>3. Kept(Keep(list, at), list, at, Len(list))
    BY <1>1, <1>2, KeepingFacts
  <1> QED
    BY <1>1, <1>3 DEF Kept

\* What is kept and what is left make up the list.
Halves(s, t, n) == Len(s) \in Nat /\ Len(t) \in Nat /\ Len(s) + Len(t) = n

LEMMA KeepSplits ==
    ASSUME NEW list, IsSeq(list), NEW at
    PROVE  Halves(Keep(list, at), Keep(list, DOMAIN list \ at), Len(list))
  <1> DEFINE rest == DOMAIN list \ at
  <1>1. Len(list) \in Nat /\ DOMAIN list = 1..Len(list)
    BY SeqFacts
  <1>2. PICK f : Keeping(f, list, at) /\ Keep(list, at) = f[Len(list)]
    BY KeepIs
  <1>3. PICK g : Keeping(g, list, rest) /\ Keep(list, rest) = g[Len(list)]
    BY KeepIs
  <1>r. \A n \in DOMAIN list : n \in rest <=> n \notin at
    OBVIOUS
  <1> HIDE DEF rest
  <1> DEFINE S == {n \in Nat : n <= Len(list) => Halves(f[n], g[n], n)}
  <1>4. 0 \in S
    <2>1. f[0] = <<>> /\ g[0] = <<>>
      BY <1>1, <1>2, <1>3 DEF Keeping
    <2>2. Halves(<<>>, <<>>, 0)
      BY EmptyFacts DEF Halves
    <2> QED
      BY <2>1, <2>2
  <1>5. ASSUME NEW n \in S PROVE n + 1 \in S
    <2> SUFFICES ASSUME n + 1 <= Len(list) PROVE Halves(f[n + 1], g[n + 1], n + 1)
      OBVIOUS
    <2>1. /\ n \in Nat /\ n \in 0..Len(list) /\ n + 1 \in 0..Len(list) /\ n + 1 # 0 /\ (n + 1) - 1 = n
          /\ Halves(f[n], g[n], n) /\ n + 1 \in DOMAIN list
      BY <1>1
    <2>2. /\ f[n + 1] = IF n + 1 \in at THEN Append(f[n], list[n + 1]) ELSE f[n]
          /\ g[n + 1] = IF n + 1 \in rest THEN Append(g[n], list[n + 1]) ELSE g[n]
      BY <1>2, <1>3, <2>1 DEF Keeping
    <2>3. n + 1 \in rest <=> n + 1 \notin at
      BY <1>r, <2>1
    <2>4. Kept(f[n], list, at, n) /\ Kept(g[n], list, rest, n)
      BY <1>2, <1>3, <2>1, KeepingFacts
    <2>5. IsSeq(f[n]) /\ IsSeq(g[n])
      BY <2>4 DEF Kept
    <2>6. /\ Len(Append(f[n], list[n + 1])) = Len(f[n]) + 1
          /\ Len(Append(g[n], list[n + 1])) = Len(g[n]) + 1
      BY <2>5, AppendFacts
    <2>9. \A s, t, u : /\ Halves(s, t, n) /\ Len(u) = Len(s) + 1 => Halves(u, t, n + 1)
                       /\ Halves(s, t, n) /\ Len(u) = Len(t) + 1 => Halves(s, u, n + 1)
      BY <2>1, SMTT(60) DEF Halves
    <2>7. CASE n + 1 \in at
      <3>1. Len(f[n + 1]) = Len(f[n]) + 1 /\ g[n + 1] = g[n]
        BY <2>2, <2>3, <2>6, <2>7
      <3> QED
        BY <2>1, <2>9, <3>1
    <2>8. CASE n + 1 \notin at
      <3>1. f[n + 1] = f[n] /\ Len(g[n + 1]) = Len(g[n]) + 1
        BY <2>2, <2>3, <2>6, <2>8
      <3> QED
        BY <2>1, <2>9, <3>1
    <2> QED
      BY <2>7, <2>8
  <1>6. S = Nat
    <2> HIDE DEF S
    <2>1. S \in SUBSET Nat
      BY DEF S
    <2> QED
      BY <1>4, <1>5, <2>1, Induction
  <1>7. Halves(f[Len(list)], g[Len(list)], Len(list))
    BY <1>1, <1>6
  <1> QED
    BY <1>2, <1>3, <1>7 DEF rest

-----------------------------------------------------------------------------
(* Drafting: sets as lists, least members                                   *)

LEMMA SetToSeqFacts ==
    ASSUME NEW S, IsFiniteSet(S)
    PROVE  /\ IsSeq(SetToSeq(S)) /\ ToSet(SetToSeq(S)) \subseteq S
           /\ \A i, j \in DOMAIN SetToSeq(S) : SetToSeq(S)[i] = SetToSeq(S)[j] => i = j
  <1> DEFINE n == Cardinality(S)
             s == SetToSeq(S)
  <1>1. n \in Nat /\ ExistsBijection(1..n, S)
    BY FS_CardinalityType
  <1>2. \E f \in [1..n -> S] : IsInjective(f)
    BY <1>1 DEF ExistsBijection, Bijection, Injection
  <1>3. s \in [1..n -> S] /\ IsInjective(s)
    BY <1>2 DEF SetToSeq
  <1> HIDE DEF n, s
  <1>4. s \in Seq(S)
    BY <1>1, <1>3
  <1>5. \A i, j \in DOMAIN s : s[i] = s[j] => i = j
    BY <1>3 DEF IsInjective
  <1>6. IsSeq(s)
    BY <1>4 DEF IsSeq
  <1>7. ToSet(s) \subseteq S
    BY <1>3 DEF ToSet
  <1> QED
    BY <1>5, <1>6, <1>7 DEF s

LEMMA LeastFacts ==
    ASSUME NEW S \in SUBSET Nat, S # {}
    PROVE  Least(S) \in S /\ \A x \in S : Least(S) <= x
  <1>1. \E x \in S : \A y \in S : x <= y
    BY LeastNatural
  <1> QED
    BY <1>1 DEF Least

-----------------------------------------------------------------------------
(* Drafting: the buckets of the index                                       *)

\* Every relation has at most one bucket.
OneEach(ix) == IsSeq(ix) /\ \A i, j \in DOMAIN ix : ix[i].rel = ix[j].rel => i = j

LEMMA BucketIs ==
    ASSUME NEW ix, OneEach(ix), NEW i \in DOMAIN ix
    PROVE  Bucket(ix, ix[i].rel) = ix[i]
  <1> DEFINE r == ix[i].rel
             at == CHOOSE j \in DOMAIN ix : ix[j].rel = r
  <1>1. at \in DOMAIN ix /\ ix[at].rel = r
    OBVIOUS
  <1>2. at = i
    BY <1>1 DEF OneEach
  <1> QED
    BY <1>2 DEF Bucket

NewBucket(r) ==
    [rel |-> r, measures |-> <<>>, dims |-> <<>>, joins |-> <<>>, grain |-> {}, noted |-> FALSE]

LEMMA BucketIsNew ==
    ASSUME NEW ix, NEW r, ~\E i \in DOMAIN ix : ix[i].rel = r
    PROVE  Bucket(ix, r) = NewBucket(r)
  BY DEF Bucket, NewBucket

LEMMA PutBucketFacts ==
    ASSUME NEW ix, OneEach(ix), NEW b
    PROVE  /\ OneEach(PutBucket(ix, b))
           /\ \A r : Bucket(PutBucket(ix, b), r) = IF r = b.rel THEN b ELSE Bucket(ix, r)
  <1> DEFINE put == PutBucket(ix, b)
  <1>1. IsSeq(ix) /\ Len(ix) \in Nat /\ DOMAIN ix = 1..Len(ix)
    BY SeqFacts DEF OneEach
  <1>2. CASE \E i \in DOMAIN ix : ix[i].rel = b.rel
    <2>1. put = [i \in DOMAIN ix |-> IF ix[i].rel = b.rel THEN b ELSE ix[i]]
      BY <1>2 DEF PutBucket
    <2>2. DOMAIN put = DOMAIN ix /\ \A i \in DOMAIN ix : put[i] = IF ix[i].rel = b.rel THEN b ELSE ix[i]
      BY <2>1
    <2>3. IsSeq(put)
      <3> DEFINE n == Len(ix)
                 S == {put[i] : i \in 1..n}
                 again == [i \in 1..n |-> put[i]]
      <3>1. n \in Nat /\ put = again
        BY <1>1, <2>1
      <3> HIDE DEF n
      <3>2. again \in Seq(S)
        BY <3>1
      <3> QED
        BY <3>1, <3>2 DEF IsSeq
    <2> HIDE DEF put
    <2>4. OneEach(put)
      BY <2>2, <2>3 DEF OneEach
    <2>5. ASSUME NEW r PROVE Bucket(put, r) = IF r = b.rel THEN b ELSE Bucket(ix, r)
      <3>1. CASE r = b.rel
        <4>1. PICK i \in DOMAIN ix : ix[i].rel = b.rel
          BY <1>2
        <4>2. put[i] = b /\ i \in DOMAIN put /\ put[i].rel = r
          BY <2>2, <3>1, <4>1
        <4> QED
          BY <2>4, <3>1, <4>2, BucketIs
      <3>2. CASE r # b.rel /\ \E i \in DOMAIN ix : ix[i].rel = r
        <4>1. PICK i \in DOMAIN ix : ix[i].rel = r
          BY <3>2
        <4>2. put[i] = ix[i] /\ i \in DOMAIN put
          BY <2>2, <3>2, <4>1
        <4>3. Bucket(put, r) = put[i]
          BY <2>4, <4>1, <4>2, BucketIs
        <4>4. Bucket(ix, r) = ix[i]
          BY <4>1, BucketIs
        <4> QED
          BY <3>2, <4>2, <4>3, <4>4
      <3>3. CASE r # b.rel /\ ~\E i \in DOMAIN ix : ix[i].rel = r
        <4>1. ~\E i \in DOMAIN put : put[i].rel = r
          BY <2>2, <3>3
        <4> QED
          BY <3>3, <4>1, BucketIsNew
      <3> QED
        BY <3>1, <3>2, <3>3
    <2> QED
      BY <2>4, <2>5 DEF put
  <1>3. CASE ~\E i \in DOMAIN ix : ix[i].rel = b.rel
    <2>1. put = Append(ix, b)
      BY <1>3 DEF PutBucket
    <2> DEFINE m == Len(ix) + 1
    <2>2. /\ IsSeq(put) /\ DOMAIN put = 1..(Len(ix) + 1) /\ put[m] = b
          /\ \A i \in 1..Len(ix) : put[i] = ix[i]
      BY <1>1, <2>1, AppendFacts
    <2>3. /\ \A i : i \in DOMAIN put <=> i \in DOMAIN ix \/ i = m
          /\ m \notin DOMAIN ix /\ put[m] = b
          /\ \A i \in DOMAIN ix : put[i] = ix[i]
      BY <1>1, <2>2
    <2> HIDE DEF put, m
    <2>4. OneEach(put)
      <3> SUFFICES ASSUME NEW i \in DOMAIN put, NEW j \in DOMAIN put, put[i].rel = put[j].rel
                   PROVE  i = j
        BY <2>2 DEF OneEach
      <3> QED
        BY <1>3, <2>3 DEF OneEach
    <2>5. ASSUME NEW r PROVE Bucket(put, r) = IF r = b.rel THEN b ELSE Bucket(ix, r)
      <3>1. CASE r = b.rel
        BY <2>3, <2>4, <3>1, BucketIs
      <3>2. CASE r # b.rel /\ \E i \in DOMAIN ix : ix[i].rel = r
        <4>1. PICK i \in DOMAIN ix : ix[i].rel = r
          BY <3>2
        <4>2. put[i] = ix[i] /\ i \in DOMAIN put
          BY <2>3
        <4>3. Bucket(put, r) = put[i]
          BY <2>4, <4>1, <4>2, BucketIs
        <4>4. Bucket(ix, r) = ix[i]
          BY <4>1, BucketIs
        <4> QED
          BY <3>2, <4>2, <4>3, <4>4
      <3>3. CASE r # b.rel /\ ~\E i \in DOMAIN ix : ix[i].rel = r
        <4>1. ~\E i \in DOMAIN put : put[i].rel = r
          BY <2>3, <3>3
        <4> QED
          BY <3>3, <4>1, BucketIsNew
      <3> QED
        BY <3>1, <3>2, <3>3
    <2> QED
      BY <2>4, <2>5 DEF put
  <1> QED
    BY <1>2, <1>3

LEMMA AdoptFacts ==
    ASSUME NEW list, IsSeq(list), Distinct(list, "name"), NEW entry
    PROVE  LET a == Adopt(list, entry)
           IN  /\ IsSeq(a) /\ Distinct(a, "name") /\ Named(a, entry.name)
               /\ ToSet(list) \subseteq ToSet(a)
               /\ \A i \in DOMAIN a : a[i] = entry \/ a[i] \in ToSet(list)
               /\ entry \in ToSet(a) \/ Conflicts(list, entry)
               /\ \A name : Named(list, name) => Named(a, name)
  <1> DEFINE a == Adopt(list, entry)
             m == Len(list) + 1
  <1>1. CASE Named(list, entry.name)
    <2>1. a = list
      BY <1>1 DEF Adopt
    <2> QED
      BY <1>1, <2>1 DEF Conflicts, ToSet
  <1>2. CASE ~Named(list, entry.name)
    <2>1. a = Append(list, entry)
      BY <1>2 DEF Adopt
    <2>2. Len(list) \in Nat /\ DOMAIN list = 1..Len(list)
      BY SeqFacts
    <2>3. /\ IsSeq(a) /\ DOMAIN a = 1..(Len(list) + 1) /\ a[m] = entry
          /\ \A i \in 1..Len(list) : a[i] = list[i]
      BY <2>1, AppendFacts
    <2>4. /\ \A i : i \in DOMAIN a <=> i \in DOMAIN list \/ i = m
          /\ m \notin DOMAIN list /\ a[m] = entry
          /\ \A i \in DOMAIN list : a[i] = list[i]
      BY <2>2, <2>3
    <2>5. IsSeq(a)
      BY <2>3
    <2> HIDE DEF a, m
    <2>6. Distinct(a, "name")
      <3> SUFFICES ASSUME NEW i \in DOMAIN a, NEW j \in DOMAIN a, a[i].name = a[j].name PROVE i = j
        BY DEF Distinct
      <3>1. \A k \in DOMAIN list : list[k].name # entry.name
        BY <1>2 DEF Named
      <3>2. i \in DOMAIN list /\ j \in DOMAIN list => i = j
        BY <2>4 DEF Distinct
      <3> QED
        BY <2>4, <3>1, <3>2
    <2>7. entry \in ToSet(a) /\ ToSet(list) \subseteq ToSet(a)
      BY <2>4 DEF ToSet
    <2>8. \A i \in DOMAIN a : a[i] = entry \/ a[i] \in ToSet(list)
      BY <2>4 DEF ToSet
    <2>9. Named(a, entry.name) /\ \A name : Named(list, name) => Named(a, name)
      BY <2>4 DEF Named
    <2> QED
      BY <2>5, <2>6, <2>7, <2>8, <2>9 DEF a
  <1> QED
    BY <1>1, <1>2

-----------------------------------------------------------------------------
(* Drafting: placing definitions                                            *)

EvidenceOK == IsSeq(run.evidence) /\ \A i \in DOMAIN run.evidence : Parsed(run.evidence[i])

\* The k-th item is the first well-formed one of its name, and flagged.
FlaggedFirst(k, r) ==
    LET e == run.evidence[k]
    IN  /\ WellFormed(e, r) /\ e.k = "measure" /\ e.flagged
        /\ \A j \in 1..(k - 1) : WellFormed(run.evidence[j], r) => ~Rival(e, run.evidence[j])

\* A list of a bucket of r after n items: who stated its entries, and what became
\* of every item.
EntriesOK(list, noted, kind, r, n, skipped) ==
    /\ IsSeq(list) /\ Distinct(list, "name")
    /\ \A i \in DOMAIN list : \E k \in 1..n :
         /\ WellFormed(run.evidence[k], r) /\ run.evidence[k].k = kind
         /\ run.evidence[k].entry = list[i]
    /\ \A k \in 1..n :
         LET e == run.evidence[k]
         IN  e.k = kind =>
               /\ Known(r) /\ WellFormed(e, r) => /\ Named(list, e.entry.name)
                                                  /\ e.entry \in ToSet(list) \/ noted = TRUE
               /\ Known(r) /\ FlaggedFirst(k, r) => noted = TRUE
               /\ e.refs = <<r>> /\ k \notin skipped => e.entry \in ToSet(list)

LEMMA EntriesNoted ==
    ASSUME NEW list, NEW noted, NEW kind, NEW r, NEW n, NEW skipped,
           EntriesOK(list, noted, kind, r, n, skipped), NEW more, noted = TRUE => more = TRUE
    PROVE  EntriesOK(list, more, kind, r, n, skipped)
  BY DEF EntriesOK

LEMMA EntriesPass ==
    ASSUME NEW list, NEW noted, NEW kind, NEW r, NEW n \in Nat, NEW skipped,
           EntriesOK(list, noted, kind, r, n, skipped), NEW more, skipped \subseteq more,
           \/ run.evidence[n + 1].k # kind
           \/ run.evidence[n + 1].refs # <<r>>
           \/ n + 1 \in more /\ ~(Known(r) /\ WellFormed(run.evidence[n + 1], r))
    PROVE  EntriesOK(list, noted, kind, r, n + 1, more)
  <1>1. \A j : j \in 1..(n + 1) <=> j \in 1..n \/ j = n + 1
    OBVIOUS
  <1>2. IsSeq(list) /\ Distinct(list, "name")
    BY DEF EntriesOK
  <1>3. \A i \in DOMAIN list : \E k \in 1..(n + 1) :
         /\ WellFormed(run.evidence[k], r) /\ run.evidence[k].k = kind
         /\ run.evidence[k].entry = list[i]
    BY <1>1 DEF EntriesOK
  <1>4. ASSUME NEW k \in 1..(n + 1), run.evidence[k].k = kind
        PROVE  /\ Known(r) /\ WellFormed(run.evidence[k], r) =>
                    /\ Named(list, run.evidence[k].entry.name)
                    /\ run.evidence[k].entry \in ToSet(list) \/ noted = TRUE
               /\ Known(r) /\ FlaggedFirst(k, r) => noted = TRUE
               /\ run.evidence[k].refs = <<r>> /\ k \notin more => run.evidence[k].entry \in ToSet(list)
    <2>1. CASE k \in 1..n
      BY <1>4, <2>1 DEF EntriesOK
    <2>2. CASE k = n + 1
      <3>1. WellFormed(run.evidence[k], r) => run.evidence[k].refs = <<r>>
        BY DEF WellFormed
      <3>2. FlaggedFirst(k, r) => WellFormed(run.evidence[k], r)
        BY DEF FlaggedFirst
      <3> QED
        BY <1>4, <2>2, <3>1, <3>2
    <2> QED
      BY <1>1, <2>1, <2>2
  <1> QED
    BY <1>2, <1>3, <1>4 DEF EntriesOK

LEMMA EntriesAdopt ==
    ASSUME NEW list, NEW noted, NEW kind, NEW r, NEW n \in Nat, NEW skipped,
           EntriesOK(list, noted, kind, r, n, skipped), NEW more, skipped \subseteq more,
           NEW e, e = run.evidence[n + 1], e.k = kind, WellFormed(e, r),
           NEW notes, noted = TRUE => notes = TRUE, Conflicts(list, e.entry) => notes = TRUE,
           kind = "measure" /\ e.flagged /\ ~Named(list, e.entry.name) => notes = TRUE,
           Conflicts(list, e.entry) => n + 1 \in more
    PROVE  EntriesOK(Adopt(list, e.entry), notes, kind, r, n + 1, more)
  <1> DEFINE a == Adopt(list, e.entry)
  <1>1. \A j : j \in 1..(n + 1) <=> j \in 1..n \/ j = n + 1
    OBVIOUS
  <1>2. IsSeq(list) /\ Distinct(list, "name")
    BY DEF EntriesOK
  <1>3. /\ IsSeq(a) /\ Distinct(a, "name") /\ Named(a, e.entry.name)
        /\ ToSet(list) \subseteq ToSet(a)
        /\ \A i \in DOMAIN a : a[i] = e.entry \/ a[i] \in ToSet(list)
        /\ e.entry \in ToSet(a) \/ Conflicts(list, e.entry)
        /\ \A name : Named(list, name) => Named(a, name)
    BY <1>2, AdoptFacts
  <1> HIDE DEF a
  <1>4. ASSUME NEW i \in DOMAIN a
        PROVE  \E k \in 1..(n + 1) : /\ WellFormed(run.evidence[k], r) /\ run.evidence[k].k = kind
                                     /\ run.evidence[k].entry = a[i]
    <2>1. CASE a[i] = e.entry
      BY <1>1, <2>1
    <2>2. CASE a[i] \in ToSet(list)
      <3>1. PICK j \in DOMAIN list : a[i] = list[j]
        BY <2>2 DEF ToSet
      <3> QED
        BY <1>1, <3>1 DEF EntriesOK
    <2> QED
      BY <1>3, <2>1, <2>2
  <1>5. ASSUME NEW k \in 1..(n + 1), run.evidence[k].k = kind
        PROVE  /\ Known(r) /\ WellFormed(run.evidence[k], r) =>
                    /\ Named(a, run.evidence[k].entry.name)
                    /\ run.evidence[k].entry \in ToSet(a) \/ notes = TRUE
               /\ Known(r) /\ FlaggedFirst(k, r) => notes = TRUE
               /\ run.evidence[k].refs = <<r>> /\ k \notin more => run.evidence[k].entry \in ToSet(a)
    <2>1. CASE k \in 1..n
      <3>1. /\ Known(r) /\ WellFormed(run.evidence[k], r) =>
                    /\ Named(list, run.evidence[k].entry.name)
                    /\ run.evidence[k].entry \in ToSet(list) \/ noted = TRUE
            /\ Known(r) /\ FlaggedFirst(k, r) => noted = TRUE
            /\ run.evidence[k].refs = <<r>> /\ k \notin skipped => run.evidence[k].entry \in ToSet(list)
        BY <1>5, <2>1 DEF EntriesOK
      <3> QED
        BY <1>3, <3>1
    <2>2. CASE k = n + 1
      <3>1. FlaggedFirst(k, r) => notes = TRUE
        <4> SUFFICES ASSUME FlaggedFirst(k, r), Named(list, e.entry.name) PROVE FALSE
          BY <2>2 DEF FlaggedFirst
        <4>1. PICK i \in DOMAIN list : list[i].name = e.entry.name
          BY DEF Named
        <4>2. PICK j \in 1..n : /\ WellFormed(run.evidence[j], r) /\ run.evidence[j].k = kind
                                /\ run.evidence[j].entry = list[i]
          BY DEF EntriesOK
        <4>3. j \in 1..(k - 1) /\ Rival(e, run.evidence[j])
          BY <2>2, <4>1, <4>2 DEF Rival
        <4> QED
          BY <2>2, <4>2, <4>3 DEF FlaggedFirst
      <3> QED
        BY <1>3, <2>2, <3>1
    <2> QED
      BY <1>1, <2>1, <2>2
  <1>6. IsSeq(a) /\ Distinct(a, "name")
    BY <1>3
  <1>7. EntriesOK(a, notes, kind, r, n + 1, more)
    BY <1>4, <1>5, <1>6 DEF EntriesOK
  <1> QED
    BY <1>7 DEF a

\* The columns of a modelled join exist, on two relations of one connection.
JoinOK(r, j) ==
    /\ Known(r) /\ Known(j.to) /\ Schema(r).conn = Schema(j.to).conn
    /\ j.col \in Schema(r).cols /\ j.ref \in Schema(j.to).cols

IsBucket(b, r) ==
    b = [rel |-> r, measures |-> b.measures, dims |-> b.dims, joins |-> b.joins, grain |-> b.grain,
         noted |-> b.noted]

\* The k-th item is a flagged join that is placed on r.
FlaggedOn(k, r) ==
    LET e == run.evidence[k] IN e.k = "join" /\ e.flagged /\ JoinsFrom(e, r)

BucketOK(b, r, n, skipped) ==
    /\ IsBucket(b, r)
    /\ \A k \in 1..n : FlaggedOn(k, r) => b.noted = TRUE
    /\ b.noted \in BOOLEAN
    /\ EntriesOK(b.measures, b.noted, "measure", r, n, skipped)
    /\ EntriesOK(b.dims, b.noted, "dimension", r, n, skipped)
    /\ IsSeq(b.joins) /\ \A i \in DOMAIN b.joins : JoinOK(r, b.joins[i])

IndexOK(ix, n, skipped) == OneEach(ix) /\ \A r : BucketOK(Bucket(ix, r), r, n, skipped)

LEMMA NoIndex == \A skipped : IndexOK(<<>>, 0, skipped)
  <1> TAKE skipped
  <1>1. OneEach(<<>>)
    BY EmptyFacts DEF OneEach
  <1>2. ASSUME NEW r PROVE BucketOK(Bucket(<<>>, r), r, 0, skipped)
    <2> DEFINE b == NewBucket(r)
    <2>1. Bucket(<<>>, r) = b
      BY EmptyFacts, BucketIsNew
    <2>2. EntriesOK(<<>>, FALSE, "measure", r, 0, skipped) /\ EntriesOK(<<>>, FALSE, "dimension", r, 0, skipped)
      BY EmptyFacts DEF EntriesOK, Distinct
    <2>3. BucketOK(b, r, 0, skipped)
      <3>1. \A k \in 1..0 : FlaggedOn(k, r) => b.noted = TRUE
        <4>1. 1..0 = {}
          OBVIOUS
        <4> QED
          BY <4>1
      <3>2. /\ IsBucket(b, r) /\ b.noted = FALSE /\ b.measures = <<>> /\ b.dims = <<>>
            /\ b.joins = <<>>
        BY DEF IsBucket, NewBucket
      <3> HIDE DEF b
      <3> QED
        BY <2>2, <3>1, <3>2, EmptyFacts DEF BucketOK
    <2> QED
      BY <2>1, <2>3
  <1> QED
    BY <1>1, <1>2 DEF IndexOK

LEMMA OneMore ==
    ASSUME NEW b, NEW r, NEW n \in Nat, \A k \in 1..n : FlaggedOn(k, r) => b.noted = TRUE,
           FlaggedOn(n + 1, r) => b.noted = TRUE
    PROVE  \A k \in 1..(n + 1) : FlaggedOn(k, r) => b.noted = TRUE
  <1>1. \A k : k \in 1..(n + 1) <=> k \in 1..n \/ k = n + 1
    OBVIOUS
  <1> QED
    BY <1>1

\* An item that is no definition of a measure or a dimension, or is not placed.
LEMMA IndexPass ==
    ASSUME NEW ix, NEW n \in Nat, NEW skipped, IndexOK(ix, n, skipped), NEW more, skipped \subseteq more,
           \/ run.evidence[n + 1].k \notin {"measure", "dimension"}
           \/ n + 1 \in more /\ \A r : ~(Known(r) /\ WellFormed(run.evidence[n + 1], r)),
           \A r : FlaggedOn(n + 1, r) => Bucket(ix, r).noted = TRUE
    PROVE  IndexOK(ix, n + 1, more)
  <1>1. ASSUME NEW r PROVE BucketOK(Bucket(ix, r), r, n + 1, more)
    <2> DEFINE b == Bucket(ix, r)
    <2>1. BucketOK(b, r, n, skipped) /\ (FlaggedOn(n + 1, r) => b.noted = TRUE)
      BY DEF IndexOK
    <2> HIDE DEF b
    <2>2. EntriesOK(b.measures, b.noted, "measure", r, n + 1, more)
      BY <2>1, EntriesPass DEF BucketOK
    <2>3. EntriesOK(b.dims, b.noted, "dimension", r, n + 1, more)
      BY <2>1, EntriesPass DEF BucketOK
    <2>4. \A k \in 1..(n + 1) : FlaggedOn(k, r) => b.noted = TRUE
      BY <2>1, OneMore DEF BucketOK
    <2>5. BucketOK(b, r, n + 1, more)
      BY <2>1, <2>2, <2>3, <2>4 DEF BucketOK
    <2> QED
      BY <2>5 DEF b
  <1> QED
    BY <1>1 DEF IndexOK

\* Only a join can be a flagged one.
LEMMA NoFlaggedJoin ==
    ASSUME NEW k, run.evidence[k].k # "join"
    PROVE  \A r : ~FlaggedOn(k, r)
  BY DEF FlaggedOn

LEMMA IndexPut ==
    ASSUME NEW ix, NEW n, NEW skipped, OneEach(ix), NEW b, BucketOK(b, b.rel, n, skipped),
           \A r : r # b.rel => BucketOK(Bucket(ix, r), r, n, skipped)
    PROVE  IndexOK(PutBucket(ix, b), n, skipped)
  <1>1. /\ OneEach(PutBucket(ix, b))
        /\ \A r : Bucket(PutBucket(ix, b), r) = IF r = b.rel THEN b ELSE Bucket(ix, r)
    BY PutBucketFacts
  <1>2. ASSUME NEW r PROVE BucketOK(Bucket(PutBucket(ix, b), r), r, n, skipped)
    <2>1. CASE r = b.rel
      <3>1. Bucket(PutBucket(ix, b), r) = b
        BY <1>1, <2>1
      <3> QED
        BY <2>1, <3>1
    <2>2. CASE r # b.rel
      <3>1. Bucket(PutBucket(ix, b), r) = Bucket(ix, r)
        BY <1>1, <2>2
      <3> QED
        BY <2>2, <3>1
    <2> QED
      BY <2>1, <2>2
  <1> QED
    BY <1>1, <1>2 DEF IndexOK

LEMMA ListOfOne ==
    ASSUME NEW s, IsList(s), Len(s) = 1
    PROVE  s = <<s[1]>>
  BY DEF IsList

\* What a placed definition changes in its bucket.
LEMMA MeasuresExcept ==
    ASSUME NEW b, NEW r, IsBucket(b, r), NEW x, NEW y
    PROVE  [b EXCEPT !.measures = x, !.noted = y] =
             [rel |-> r, measures |-> x, dims |-> b.dims, joins |-> b.joins, grain |-> b.grain, noted |-> y]
  <1> DEFINE a == [b EXCEPT !.measures = x]
  <1>1. a = [rel |-> r, measures |-> x, dims |-> b.dims, joins |-> b.joins, grain |-> b.grain, noted |-> b.noted]
    BY DEF IsBucket
  <1>2. [b EXCEPT !.measures = x, !.noted = y] = [a EXCEPT !.noted = y]
    BY ONLY TRUE
  <1> HIDE DEF a
  <1>3. [a EXCEPT !.noted = y] =
          [rel |-> r, measures |-> x, dims |-> b.dims, joins |-> b.joins, grain |-> b.grain, noted |-> y]
    BY <1>1
  <1> QED
    BY <1>2, <1>3, Zenon

LEMMA DimsExcept ==
    ASSUME NEW b, NEW r, IsBucket(b, r), NEW x, NEW y
    PROVE  [b EXCEPT !.dims = x, !.noted = y] =
             [rel |-> r, measures |-> b.measures, dims |-> x, joins |-> b.joins, grain |-> b.grain, noted |-> y]
  <1> DEFINE a == [b EXCEPT !.dims = x]
  <1>1. a = [rel |-> r, measures |-> b.measures, dims |-> x, joins |-> b.joins, grain |-> b.grain, noted |-> b.noted]
    BY DEF IsBucket
  <1>2. [b EXCEPT !.dims = x, !.noted = y] = [a EXCEPT !.noted = y]
    BY ONLY TRUE
  <1> HIDE DEF a
  <1>3. [a EXCEPT !.noted = y] =
          [rel |-> r, measures |-> b.measures, dims |-> x, joins |-> b.joins, grain |-> b.grain, noted |-> y]
    BY <1>1
  <1> QED
    BY <1>2, <1>3, Zenon

\* An item that is placed changes the bucket of its relation only.
LEMMA OthersPass ==
    ASSUME NEW ix, NEW n \in Nat, NEW skipped, IndexOK(ix, n, skipped), NEW more, skipped \subseteq more,
           NEW q, run.evidence[n + 1].refs = <<q>>, run.evidence[n + 1].k # "join", NEW r, r # q
    PROVE  BucketOK(Bucket(ix, r), r, n + 1, more)
  <1> DEFINE b == Bucket(ix, r)
  <1>1. BucketOK(b, r, n, skipped)
    BY DEF IndexOK
  <1>2. run.evidence[n + 1].refs # <<r>>
    OBVIOUS
  <1> HIDE DEF b
  <1>3. EntriesOK(b.measures, b.noted, "measure", r, n + 1, more)
    BY <1>1, <1>2, EntriesPass DEF BucketOK
  <1>4. EntriesOK(b.dims, b.noted, "dimension", r, n + 1, more)
    BY <1>1, <1>2, EntriesPass DEF BucketOK
  <1>5. \A k \in 1..(n + 1) : FlaggedOn(k, r) => b.noted = TRUE
    BY <1>1, OneMore DEF BucketOK, FlaggedOn
  <1>6. BucketOK(b, r, n + 1, more)
    BY <1>1, <1>3, <1>4, <1>5 DEF BucketOK
  <1> QED
    BY <1>6 DEF b

LEMMA MeasurePlaced ==
    ASSUME NEW ix, NEW n \in Nat, NEW skipped, IndexOK(ix, n, skipped), NEW more, skipped \subseteq more,
           NEW d, d = run.evidence[n + 1], Parsed(d), d.k = "measure", d.additivity # None,
           SingleRelation(d), NEW b, b = Bucket(ix, d.refs[1]),
           Conflicts(b.measures, d.entry) => n + 1 \in more
    PROVE  IndexOK(PutBucket(ix, [b EXCEPT !.measures = Adopt(@, d.entry),
                                           !.noted = @ \/ Conflicts(b.measures, d.entry)
                                                       \/ (d.flagged /\ ~Named(b.measures, d.entry.name))]),
                   n + 1, more)
  <1> DEFINE r == d.refs[1]
             list == Adopt(b.measures, d.entry)
             notes == b.noted \/ Conflicts(b.measures, d.entry) \/ (d.flagged /\ ~Named(b.measures, d.entry.name))
             c == [b EXCEPT !.measures = list, !.noted = notes]
  <1>1. d.refs = <<r>> /\ Known(r)
    BY ListOfOne DEF Parsed, SingleRelation
  <1>2. WellFormed(d, r)
    BY <1>1 DEF WellFormed
  <1>3. BucketOK(b, r, n, skipped)
    BY DEF IndexOK
  <1> HIDE DEF r, list, notes
  <1>4. c = [rel |-> r, measures |-> list, dims |-> b.dims, joins |-> b.joins, grain |-> b.grain, noted |-> notes]
    <2>1. IsBucket(b, r)
      BY <1>3 DEF BucketOK
    <2>2. ASSUME NEW y
          PROVE  [b EXCEPT !.measures = list, !.noted = y] =
                   [rel |-> r, measures |-> list, dims |-> b.dims, joins |-> b.joins, grain |-> b.grain, noted |-> y]
      BY ONLY <2>1, MeasuresExcept, ZenonT(60)
    <2> QED
      BY ONLY <2>2
  <1>5. EntriesOK(list, notes, "measure", r, n + 1, more)
    <2>1. EntriesOK(b.measures, b.noted, "measure", r, n, skipped)
      BY <1>3 DEF BucketOK
    <2>2. /\ b.noted = TRUE => notes = TRUE
          /\ Conflicts(b.measures, d.entry) => notes = TRUE
          /\ d.flagged /\ ~Named(b.measures, d.entry.name) => notes = TRUE
      BY DEF notes
    <2>3. EntriesOK(Adopt(b.measures, d.entry), notes, "measure", r, n + 1, more)
      BY <1>2, <2>1, <2>2, EntriesAdopt
    <2> QED
      BY <2>3 DEF list
  <1>6. EntriesOK(b.dims, notes, "dimension", r, n + 1, more)
    <2>1. EntriesOK(b.dims, b.noted, "dimension", r, n, skipped)
      BY <1>3 DEF BucketOK
    <2>2. EntriesOK(b.dims, b.noted, "dimension", r, n + 1, more)
      BY <2>1, EntriesPass
    <2>3. b.noted = TRUE => notes = TRUE
      BY DEF notes
    <2> QED
      BY <2>2, <2>3, EntriesNoted
  <1>7. notes \in BOOLEAN
    BY DEF notes
  <1> HIDE DEF c
  <1>8. BucketOK(c, r, n + 1, more) /\ c.rel = r
    <2>1. /\ c.rel = r /\ c.measures = list /\ c.dims = b.dims /\ c.joins = b.joins
          /\ c.grain = b.grain /\ c.noted = notes /\ IsBucket(c, r)
      BY <1>4 DEF IsBucket
    <2>2. b.noted = TRUE => notes = TRUE
      BY DEF notes
    <2>3. \A k \in 1..(n + 1) : FlaggedOn(k, r) => c.noted = TRUE
      BY <1>3, <2>1, <2>2, OneMore DEF BucketOK, FlaggedOn
    <2> QED
      BY <1>3, <1>5, <1>6, <1>7, <2>1, <2>3 DEF BucketOK
  <1>9. \A q : q # r => BucketOK(Bucket(ix, q), q, n + 1, more)
    BY <1>1, OthersPass
  <1>10. IndexOK(PutBucket(ix, c), n + 1, more)
    BY <1>8, <1>9, IndexPut DEF IndexOK
  <1> QED
    BY <1>10 DEF c, list, notes

LEMMA DimensionPlaced ==
    ASSUME NEW ix, NEW n \in Nat, NEW skipped, IndexOK(ix, n, skipped), NEW more, skipped \subseteq more,
           NEW d, d = run.evidence[n + 1], Parsed(d), d.k = "dimension",
           SingleRelation(d), Readable(d), NEW b, b = Bucket(ix, d.refs[1]),
           Conflicts(b.dims, d.entry) => n + 1 \in more
    PROVE  IndexOK(PutBucket(ix, [b EXCEPT !.dims = Adopt(@, d.entry),
                                           !.noted = @ \/ Conflicts(b.dims, d.entry)]),
                   n + 1, more)
  <1> DEFINE r == d.refs[1]
             list == Adopt(b.dims, d.entry)
             notes == b.noted \/ Conflicts(b.dims, d.entry)
             c == [b EXCEPT !.dims = list, !.noted = notes]
  <1>1. d.refs = <<r>> /\ Known(r)
    BY ListOfOne DEF Parsed, SingleRelation
  <1>2. WellFormed(d, r)
    BY <1>1 DEF WellFormed, Readable
  <1>3. BucketOK(b, r, n, skipped)
    BY DEF IndexOK
  <1> HIDE DEF r, list, notes
  <1>4. c = [rel |-> r, measures |-> b.measures, dims |-> list, joins |-> b.joins, grain |-> b.grain, noted |-> notes]
    <2>1. IsBucket(b, r)
      BY <1>3 DEF BucketOK
    <2>2. ASSUME NEW y
          PROVE  [b EXCEPT !.dims = list, !.noted = y] =
                   [rel |-> r, measures |-> b.measures, dims |-> list, joins |-> b.joins, grain |-> b.grain, noted |-> y]
      BY ONLY <2>1, DimsExcept, ZenonT(60)
    <2> QED
      BY ONLY <2>2
  <1>5. EntriesOK(list, notes, "dimension", r, n + 1, more)
    <2>1. EntriesOK(b.dims, b.noted, "dimension", r, n, skipped)
      BY <1>3 DEF BucketOK
    <2>2. /\ b.noted = TRUE => notes = TRUE
          /\ Conflicts(b.dims, d.entry) => notes = TRUE
      BY DEF notes
    <2>3. EntriesOK(Adopt(b.dims, d.entry), notes, "dimension", r, n + 1, more)
      BY <1>2, <2>1, <2>2, EntriesAdopt
    <2> QED
      BY <2>3 DEF list
  <1>6. EntriesOK(b.measures, notes, "measure", r, n + 1, more)
    <2>1. EntriesOK(b.measures, b.noted, "measure", r, n, skipped)
      BY <1>3 DEF BucketOK
    <2>2. EntriesOK(b.measures, b.noted, "measure", r, n + 1, more)
      BY <2>1, EntriesPass
    <2>3. b.noted = TRUE => notes = TRUE
      BY DEF notes
    <2> QED
      BY <2>2, <2>3, EntriesNoted
  <1>7. notes \in BOOLEAN
    BY DEF notes
  <1> HIDE DEF c
  <1>8. BucketOK(c, r, n + 1, more) /\ c.rel = r
    <2>1. /\ c.rel = r /\ c.measures = b.measures /\ c.dims = list /\ c.joins = b.joins
          /\ c.grain = b.grain /\ c.noted = notes /\ IsBucket(c, r)
      BY <1>4 DEF IsBucket
    <2>2. b.noted = TRUE => notes = TRUE
      BY DEF notes
    <2>3. \A k \in 1..(n + 1) : FlaggedOn(k, r) => c.noted = TRUE
      BY <1>3, <2>1, <2>2, OneMore DEF BucketOK, FlaggedOn
    <2> QED
      BY <1>3, <1>5, <1>6, <1>7, <2>1, <2>3 DEF BucketOK
  <1>9. \A q : q # r => BucketOK(Bucket(ix, q), q, n + 1, more)
    BY <1>1, OthersPass
  <1>10. IndexOK(PutBucket(ix, c), n + 1, more)
    BY <1>8, <1>9, IndexPut DEF IndexOK
  <1> QED
    BY <1>10 DEF c, list, notes

\* The bucket of r has a review note; a definition has a review flag.
IsNoted(ix, r) == Bucket(ix, r).noted = TRUE
IsFlagged(d) == d.flagged = TRUE

LEMMA SpecPlaced ==
    ASSUME NEW ix, NEW n, NEW skipped, IndexOK(ix, n, skipped), NEW d, d.flagged \in BOOLEAN,
           NEW s, SpecOK(s)
    PROVE  /\ IndexOK(PlaceSpec(ix, d, s), n, skipped)
           /\ IsFlagged(d) => IsNoted(PlaceSpec(ix, d, s), s.left)
           /\ \A q : IsNoted(ix, q) => IsNoted(PlaceSpec(ix, d, s), q)
  <1> DEFINE r == s.left
             b == Bucket(ix, r)
             j == [to |-> s.to, col |-> s.col, ref |-> s.ref, kind |-> s.kind]
             list == IF j \in ToSet(b.joins) THEN b.joins ELSE Append(b.joins, j)
             notes == b.noted \/ d.flagged
             c == [b EXCEPT !.joins = list, !.noted = notes]
  <1>1. BucketOK(b, r, n, skipped)
    BY DEF IndexOK
  <1>2. JoinOK(r, j)
    BY DEF JoinOK, SpecOK
  <1>3. PlaceSpec(ix, d, s) = PutBucket(ix, c)
    BY DEF PlaceSpec
  <1> HIDE DEF b, j, r, list, notes
  <1>4. c = [rel |-> r, measures |-> b.measures, dims |-> b.dims, joins |-> list, grain |-> b.grain, noted |-> notes]
    <2>1. IsBucket(b, r)
      BY <1>1 DEF BucketOK
    <2>2. ASSUME NEW y
          PROVE  [b EXCEPT !.joins = list, !.noted = y] =
                   [rel |-> r, measures |-> b.measures, dims |-> b.dims, joins |-> list, grain |-> b.grain, noted |-> y]
      <3> DEFINE a == [b EXCEPT !.joins = list]
      <3>1. a = [rel |-> r, measures |-> b.measures, dims |-> b.dims, joins |-> list, grain |-> b.grain, noted |-> b.noted]
        BY <2>1 DEF IsBucket
      <3>2. [b EXCEPT !.joins = list, !.noted = y] = [a EXCEPT !.noted = y]
        OBVIOUS
      <3> HIDE DEF a
      <3>3. [a EXCEPT !.noted = y] = [rel |-> r, measures |-> b.measures, dims |-> b.dims, joins |-> list, grain |-> b.grain, noted |-> y]
        BY <3>1
      <3> QED
        BY <3>2, <3>3
    <2> QED
      BY <2>2
  <1>5. IsSeq(list) /\ \A i \in DOMAIN list : JoinOK(r, list[i])
    <2>1. IsSeq(b.joins) /\ \A i \in DOMAIN b.joins : JoinOK(r, b.joins[i])
      BY <1>1 DEF BucketOK
    <2>2. CASE j \in ToSet(b.joins)
      BY <2>1, <2>2 DEF list
    <2>3. CASE j \notin ToSet(b.joins)
      <3> DEFINE a == Append(b.joins, j)
                 m == Len(b.joins) + 1
      <3>1. /\ IsSeq(a) /\ DOMAIN a = 1..(Len(b.joins) + 1) /\ a[m] = j
            /\ \A i \in 1..Len(b.joins) : a[i] = b.joins[i]
            /\ Len(b.joins) \in Nat /\ DOMAIN b.joins = 1..Len(b.joins)
        BY <2>1, AppendFacts, SeqFacts
      <3>2. \A i \in DOMAIN a : i = m \/ (i \in DOMAIN b.joins /\ a[i] = b.joins[i])
        BY <3>1
      <3>3. list = a /\ IsSeq(a) /\ a[m] = j
        BY <2>3, <3>1 DEF list
      <3> HIDE DEF a, m
      <3>4. \A i \in DOMAIN a : JoinOK(r, a[i])
        BY <1>2, <2>1, <3>2, <3>3
      <3> QED
        BY <3>3, <3>4
    <2> QED
      BY <2>2, <2>3
  <1>6. /\ EntriesOK(b.measures, notes, "measure", r, n, skipped)
        /\ EntriesOK(b.dims, notes, "dimension", r, n, skipped)
    <2>1. b.noted = TRUE => notes = TRUE
      BY DEF notes
    <2> QED
      BY <1>1, <2>1, EntriesNoted DEF BucketOK
  <1>7. notes \in BOOLEAN
    BY DEF notes
  <1> HIDE DEF c
  <1>8. /\ c.rel = r /\ c.measures = b.measures /\ c.dims = b.dims /\ c.joins = list
        /\ c.grain = b.grain /\ c.noted = notes /\ IsBucket(c, r)
    BY <1>4 DEF IsBucket
  <1>9. (b.noted = TRUE => notes = TRUE) /\ (d.flagged = TRUE => notes = TRUE)
    BY DEF notes
  <1>10. BucketOK(c, r, n, skipped)
    BY <1>1, <1>5, <1>6, <1>7, <1>8, <1>9 DEF BucketOK
  <1>11. IndexOK(PutBucket(ix, c), n, skipped)
    BY <1>8, <1>10, IndexPut DEF IndexOK
  <1>12. \A q : Bucket(PutBucket(ix, c), q) = IF q = r THEN c ELSE Bucket(ix, q)
    BY <1>8, PutBucketFacts DEF IndexOK
  <1>13. Bucket(PutBucket(ix, c), r) = c /\ \A q : q # r => Bucket(PutBucket(ix, c), q) = Bucket(ix, q)
    BY <1>12
  <1>14. IsFlagged(d) => IsNoted(PutBucket(ix, c), r)
    BY <1>8, <1>9, <1>13 DEF IsFlagged, IsNoted
  <1>15. ASSUME NEW q, IsNoted(ix, q) PROVE IsNoted(PutBucket(ix, c), q)
    <2>1. CASE q = r
      BY <1>8, <1>9, <1>13, <1>15, <2>1 DEF b, IsNoted
    <2>2. CASE q # r
      BY <1>13, <1>15, <2>2 DEF IsNoted
    <2> QED
      BY <2>1, <2>2
  <1> QED
    BY <1>3, <1>11, <1>14, <1>15 DEF r

LEMMA GrainPlaced ==
    ASSUME NEW ix, NEW n, NEW skipped, IndexOK(ix, n, skipped), NEW d, NEW r
    PROVE  IndexOK(PlaceGrain(ix, d, r), n, skipped)
  <1> DEFINE b == Bucket(ix, r)
             g == IF b.grain = {} THEN d.grain ELSE b.grain
             c == [b EXCEPT !.grain = IF @ = {} THEN d.grain ELSE @]
  <1>1. BucketOK(b, r, n, skipped)
    BY DEF IndexOK
  <1>2. PlaceGrain(ix, d, r) = PutBucket(ix, c)
    BY DEF PlaceGrain
  <1> HIDE DEF b
  <1>3. c = [rel |-> r, measures |-> b.measures, dims |-> b.dims, joins |-> b.joins, grain |-> g, noted |-> b.noted]
    BY <1>1 DEF BucketOK, IsBucket
  <1> HIDE DEF g, c
  <1>4. BucketOK(c, r, n, skipped) /\ c.rel = r
    <2>1. /\ c.rel = r /\ c.measures = b.measures /\ c.dims = b.dims /\ c.joins = b.joins
          /\ c.noted = b.noted /\ IsBucket(c, r)
      BY <1>3 DEF IsBucket
    <2> QED
      BY <1>1, <2>1 DEF BucketOK
  <1>5. IndexOK(PutBucket(ix, c), n, skipped)
    BY <1>4, IndexPut DEF IndexOK
  <1> QED
    BY <1>2, <1>5

\* Step by step from the index ix: the specs of a join, the relations of an entity.
SpecsPlaced(f, ix, d, m) ==
    f = [i \in 0..m |-> IF i = 0 THEN ix ELSE PlaceSpec(f[i - 1], d, Stated(d)[i])]
GrainsPlaced(f, ix, d, m) ==
    f = [i \in 0..m |-> IF i = 0 THEN ix ELSE PlaceGrain(f[i - 1], d, d.refs[i])]

LEMMA SpecsPlacedExists ==
    ASSUME NEW ix, NEW d, NEW m \in Nat
    PROVE  \E f : SpecsPlaced(f, ix, d, m)
  <1> DEFINE S == {k \in Nat : \E f : SpecsPlaced(f, ix, d, k)}
  <1>1. 0 \in S
    <2>1. SpecsPlaced([i \in 0..0 |-> ix], ix, d, 0)
      BY DEF SpecsPlaced
    <2> QED
      BY <2>1
  <1>2. ASSUME NEW k \in S PROVE k + 1 \in S
    <2>1. PICK f : SpecsPlaced(f, ix, d, k)
      OBVIOUS
    <2> DEFINE h == [n \in 0..k+1 |-> IF n = k + 1 THEN PlaceSpec(f[k], d, Stated(d)[k + 1]) ELSE f[n]]
    <2>2. ASSUME NEW n \in 0..k+1
          PROVE  h[n] = IF n = 0 THEN ix ELSE PlaceSpec(h[n - 1], d, Stated(d)[n])
      <3>1. CASE n = k + 1
        <4>1. h[n] = PlaceSpec(f[k], d, Stated(d)[k + 1]) /\ h[n - 1] = f[k]
          BY <3>1
        <4> QED
          BY <3>1, <4>1
      <3>2. CASE n # k + 1 /\ n = 0
        <4>1. h[n] = f[0] /\ f[0] = ix
          BY <2>1, <3>2 DEF SpecsPlaced
        <4> QED
          BY <3>2, <4>1
      <3>3. CASE n # k + 1 /\ n # 0
        <4>1. h[n] = f[n] /\ h[n - 1] = f[n - 1] /\ n \in 0..k
          BY <3>3
        <4>2. f[n] = PlaceSpec(f[n - 1], d, Stated(d)[n])
          BY <2>1, <3>3, <4>1 DEF SpecsPlaced
        <4> QED
          BY <3>3, <4>1, <4>2
      <3> QED
        BY <3>1, <3>2, <3>3
    <2>3. SpecsPlaced(h, ix, d, k + 1)
      BY <2>2 DEF SpecsPlaced
    <2> QED
      BY <2>3
  <1>3. S = Nat
    <2> HIDE DEF S
    <2>1. S \in SUBSET Nat
      BY DEF S
    <2> QED
      BY <1>1, <1>2, <2>1, Induction
  <1> QED
    BY <1>3

LEMMA GrainsPlacedExists ==
    ASSUME NEW ix, NEW d, NEW m \in Nat
    PROVE  \E f : GrainsPlaced(f, ix, d, m)
  <1> DEFINE S == {k \in Nat : \E f : GrainsPlaced(f, ix, d, k)}
  <1>1. 0 \in S
    <2>1. GrainsPlaced([i \in 0..0 |-> ix], ix, d, 0)
      BY DEF GrainsPlaced
    <2> QED
      BY <2>1
  <1>2. ASSUME NEW k \in S PROVE k + 1 \in S
    <2>1. PICK f : GrainsPlaced(f, ix, d, k)
      OBVIOUS
    <2> DEFINE h == [n \in 0..k+1 |-> IF n = k + 1 THEN PlaceGrain(f[k], d, d.refs[k + 1]) ELSE f[n]]
    <2>2. ASSUME NEW n \in 0..k+1
          PROVE  h[n] = IF n = 0 THEN ix ELSE PlaceGrain(h[n - 1], d, d.refs[n])
      <3>1. CASE n = k + 1
        <4>1. h[n] = PlaceGrain(f[k], d, d.refs[k + 1]) /\ h[n - 1] = f[k]
          BY <3>1
        <4> QED
          BY <3>1, <4>1
      <3>2. CASE n # k + 1 /\ n = 0
        <4>1. h[n] = f[0] /\ f[0] = ix
          BY <2>1, <3>2 DEF GrainsPlaced
        <4> QED
          BY <3>2, <4>1
      <3>3. CASE n # k + 1 /\ n # 0
        <4>1. h[n] = f[n] /\ h[n - 1] = f[n - 1] /\ n \in 0..k
          BY <3>3
        <4>2. f[n] = PlaceGrain(f[n - 1], d, d.refs[n])
          BY <2>1, <3>3, <4>1 DEF GrainsPlaced
        <4> QED
          BY <3>3, <4>1, <4>2
      <3> QED
        BY <3>1, <3>2, <3>3
    <2>3. GrainsPlaced(h, ix, d, k + 1)
      BY <2>2 DEF GrainsPlaced
    <2> QED
      BY <2>3
  <1>3. S = Nat
    <2> HIDE DEF S
    <2>1. S \in SUBSET Nat
      BY DEF S
    <2> QED
      BY <1>1, <1>2, <2>1, Induction
  <1> QED
    BY <1>3

LEMMA SpecsKeep ==
    ASSUME NEW ix, NEW n, NEW skipped, IndexOK(ix, n, skipped), NEW d, d.flagged \in BOOLEAN,
           NEW m \in Nat, \A i \in 1..m : SpecOK(Stated(d)[i]), NEW f, SpecsPlaced(f, ix, d, m)
    PROVE  /\ IndexOK(f[m], n, skipped)
           /\ IsFlagged(d) => \A i \in 1..m : IsNoted(f[m], Stated(d)[i].left)
  <1> DEFINE Noted(ind, k) ==
               IsFlagged(d) => \A i \in 1..k : IsNoted(ind, Stated(d)[i].left)
             S == {k \in Nat : k <= m => IndexOK(f[k], n, skipped) /\ Noted(f[k], k)}
  <1>1. 0 \in S
    <2>1. f[0] = ix
      BY DEF SpecsPlaced
    <2>2. Noted(f[0], 0)
      OBVIOUS
    <2> QED
      BY <2>1, <2>2
  <1>2. ASSUME NEW k \in S PROVE k + 1 \in S
    <2> HIDE DEF Noted
    <2> SUFFICES ASSUME k + 1 <= m PROVE IndexOK(f[k + 1], n, skipped) /\ Noted(f[k + 1], k + 1)
      OBVIOUS
    <2>1. /\ k \in Nat /\ k + 1 \in 0..m /\ k + 1 \in 1..m /\ k + 1 # 0 /\ (k + 1) - 1 = k
          /\ IndexOK(f[k], n, skipped) /\ Noted(f[k], k)
      OBVIOUS
    <2> DEFINE s == Stated(d)[k + 1]
    <2>2. f[k + 1] = PlaceSpec(f[k], d, s)
      BY <2>1 DEF SpecsPlaced
    <2>3. SpecOK(s)
      BY <2>1
    <2> HIDE DEF s
    <2>4. /\ IndexOK(PlaceSpec(f[k], d, s), n, skipped)
          /\ IsFlagged(d) => IsNoted(PlaceSpec(f[k], d, s), s.left)
          /\ \A q : IsNoted(f[k], q) => IsNoted(PlaceSpec(f[k], d, s), q)
      <3>1. PICK ind : ind = f[k]
        OBVIOUS
      <3>2. IndexOK(ind, n, skipped)
        BY <2>1, <3>1
      <3>3. /\ IndexOK(PlaceSpec(ind, d, s), n, skipped)
            /\ IsFlagged(d) => IsNoted(PlaceSpec(ind, d, s), s.left)
            /\ \A q : IsNoted(ind, q) => IsNoted(PlaceSpec(ind, d, s), q)
        BY <2>3, <3>2, SpecPlaced
      <3> QED
        BY <3>1, <3>3
    <2>5. ASSUME IsFlagged(d), NEW i \in 1..(k + 1)
          PROVE  IsNoted(f[k + 1], Stated(d)[i].left)
      <3>1. CASE i = k + 1
        BY <2>2, <2>4, <2>5, <3>1 DEF s
      <3>2. CASE i \in 1..k
        BY <2>1, <2>2, <2>4, <2>5, <3>2 DEF Noted
      <3>3. i = k + 1 \/ i \in 1..k
        BY <2>1
      <3> QED
        BY <3>1, <3>2, <3>3
    <2> QED
      BY <2>2, <2>4, <2>5 DEF Noted
  <1>3. S = Nat
    <2> HIDE DEF S
    <2>1. S \in SUBSET Nat
      BY DEF S
    <2> QED
      BY <1>1, <1>2, <2>1, Induction
  <1> QED
    BY <1>3

LEMMA GrainsKeep ==
    ASSUME NEW ix, NEW n, NEW skipped, IndexOK(ix, n, skipped), NEW d,
           NEW m \in Nat, NEW f, GrainsPlaced(f, ix, d, m)
    PROVE  IndexOK(f[m], n, skipped)
  <1> DEFINE S == {k \in Nat : k <= m => IndexOK(f[k], n, skipped)}
  <1>1. 0 \in S
    <2>1. f[0] = ix
      BY DEF GrainsPlaced
    <2> QED
      BY <2>1
  <1>2. ASSUME NEW k \in S PROVE k + 1 \in S
    <2> SUFFICES ASSUME k + 1 <= m PROVE IndexOK(f[k + 1], n, skipped)
      OBVIOUS
    <2>1. k \in Nat /\ k + 1 \in 0..m /\ k + 1 # 0 /\ (k + 1) - 1 = k /\ IndexOK(f[k], n, skipped)
      OBVIOUS
    <2>2. f[k + 1] = PlaceGrain(f[k], d, d.refs[k + 1])
      BY <2>1 DEF GrainsPlaced
    <2>3. IndexOK(PlaceGrain(f[k], d, d.refs[k + 1]), n, skipped)
      BY <2>1, GrainPlaced
    <2> QED
      BY <2>2, <2>3
  <1>3. S = Nat
    <2> HIDE DEF S
    <2>1. S \in SUBSET Nat
      BY DEF S
    <2> QED
      BY <1>1, <1>2, <2>1, Induction
  <1> QED
    BY <1>3

LEMMA IndexSkips ==
    ASSUME NEW ix, NEW n, NEW skipped, IndexOK(ix, n, skipped), NEW more, skipped \subseteq more
    PROVE  IndexOK(ix, n, more)
  <1>1. ASSUME NEW r PROVE BucketOK(Bucket(ix, r), r, n, more)
    <2> DEFINE b == Bucket(ix, r)
    <2>1. BucketOK(b, r, n, skipped)
      BY DEF IndexOK
    <2> HIDE DEF b
    <2>2. EntriesOK(b.measures, b.noted, "measure", r, n, more)
      BY <2>1 DEF BucketOK, EntriesOK
    <2>3. EntriesOK(b.dims, b.noted, "dimension", r, n, more)
      BY <2>1 DEF BucketOK, EntriesOK
    <2>4. BucketOK(b, r, n, more)
      BY <2>1, <2>2, <2>3 DEF BucketOK
    <2> QED
      BY <2>4 DEF b
  <1> QED
    BY <1>1 DEF IndexOK

-----------------------------------------------------------------------------
(* Drafting: what a draft says                                              *)

DraftFields ==
    {"rel", "conn", "from", "cols", "grain", "asked", "measures", "dims", "joins", "by", "conf"}
IsDraft(d) == DOMAIN d = DraftFields
IsDimension(x) == x = [name |-> x.name, cols |-> x.cols, bare |-> x.bare, alias |-> x.alias]

\* The parts of the properties, for one draft.
TypedDraft(d) ==
    /\ d.cols \subseteq Columns /\ d.conf \in 0..100 /\ d.by \in {"deterministic", "llm"}
SoundDims(d) ==
    /\ IsSeq(d.dims) /\ \A k \in DOMAIN d.dims : IsDimension(d.dims[k])
    /\ Distinct(d.dims, "name")
    /\ IsChecked(d) => \A k \in DOMAIN d.dims : d.dims[k].cols \subseteq d.cols
Accounted(d) ==
    \A k \in DOMAIN run.evidence :
      LET e == run.evidence[k]
      IN  (k \notin run.skipped /\ e.refs = <<d.rel>>) =>
            /\ e.k = "measure" => e.entry \in ToSet(d.measures)
            /\ e.k = "dimension" => \E m \in DOMAIN d.dims :
                                      [d.dims[m] EXCEPT !.alias = e.entry.alias] = e.entry
SoundJoins(d) ==
    IsChecked(d) =>
      \A k \in DOMAIN d.joins :
        LET j == d.joins[k]
        IN  /\ j.by # "fk" => /\ j.col \in d.cols
                              /\ Known(j.to) /\ j.ref \in Schema(j.to).cols
                              /\ Schema(j.to).conn = d.conn
            /\ j.by = "llm" =>
                 \A m \in DOMAIN d.joins :
                   d.joins[m].by # "llm" /\ d.joins[m].to # d.rel => d.joins[m].col # j.col
Declared(d) ==
    d.by = "deterministic" /\ d.conf = 100 =>
      /\ d.asked = FALSE
      /\ \A k \in DOMAIN d.joins : d.joins[k].by # "llm"
      /\ ~Disputed(d.rel) /\ ~FlaggedMeasure(d.rel) /\ ~FlaggedJoin(d.rel)

DraftOK(d) == TypedDraft(d) /\ SoundDims(d) /\ Accounted(d) /\ SoundJoins(d) /\ Declared(d)

\* The draft in progress, of the schema at run.at.
InProgress(d) ==
    LET s == run.evidence[run.at]
    IN  /\ run.at \in DOMAIN run.evidence /\ s.k = "schema" /\ IsDraft(d)
        /\ d.rel = s.rel /\ d.conn = s.conn /\ d.from = run.at /\ d.cols = s.cols
        /\ d.conf \in 0..100 /\ d.by \in {"deterministic", "llm"}
        /\ d.by = "deterministic" => d.asked = FALSE
        /\ SoundDims(d) /\ Accounted(d)

\* Every schema is placed.
AllOnIndex == EvidenceOK /\ IndexOK(run.index, Len(run.evidence), run.skipped)

\* The inferred dimensions that no definition replaces.
Unreplaced(s, b) ==
    {d \in InferDimensions(s.cols) :
       /\ ~Named(b.dims, d.name)
       /\ ~\E i \in DOMAIN b.dims : b.dims[i].bare /\ d.cols = b.dims[i].cols}

LEMMA UnreplacedFacts ==
    ASSUME NEW s, IsFiniteSet(s.cols), NEW b
    PROVE  /\ IsFiniteSet(Unreplaced(s, b))
           /\ \A d \in Unreplaced(s, b) :
                \E c \in s.cols : d = [name |-> c, cols |-> {c}, bare |-> TRUE, alias |-> None]
           /\ \A d \in Unreplaced(s, b) : ~Named(b.dims, d.name)
  <1> DEFINE X == {x \in s.cols : \/ TypeOf[x] = "date"
                                  \/ TypeOf[x] = "string" /\ ~KeySuffixed(x)}
             I == {Inferred(c) : c \in X}
  <1>1. IsFiniteSet(X)
    BY FS_Subset
  <1>2. X \subseteq s.cols
    OBVIOUS
  <1>3. InferDimensions(s.cols) = I
    BY DEF InferDimensions
  <1> HIDE DEF X
  <1>4. IsFiniteSet(I)
    <2> DEFINE f == [c \in X |-> Inferred(c)]
    <2>1. f \in Surjection(X, I)
      BY DEF Surjection
    <2> QED
      BY <1>1, <2>1, FS_Surjection
  <1>5. Unreplaced(s, b) \subseteq I
    BY <1>3 DEF Unreplaced
  <1>6. IsFiniteSet(Unreplaced(s, b))
    BY <1>4, <1>5, FS_Subset
  <1>7. \A d \in I : \E c \in s.cols : d = [name |-> c, cols |-> {c}, bare |-> TRUE, alias |-> None]
    BY <1>2 DEF Inferred
  <1>8. \A d \in Unreplaced(s, b) : ~Named(b.dims, d.name)
    BY DEF Unreplaced
  <1> QED
    BY <1>5, <1>6, <1>7, <1>8

LEMMA DraftedDims ==
    ASSUME AllOnIndex, NEW d, run.at \in DOMAIN run.evidence, NEW s, s = run.evidence[run.at],
           s.k = "schema", NEW b, b = Bucket(run.index, s.rel), d.rel = s.rel, d.from = run.at,
           d.cols = s.cols, d.dims = Dimensions(s, b)
    PROVE  SoundDims(d)
  <1> DEFINE X == Unreplaced(s, b)
             t == SetToSeq(X)
             n == Len(run.evidence)
  <1>1. BucketOK(b, s.rel, n, run.skipped)
    BY DEF AllOnIndex, IndexOK
  <1>2. IsFiniteSet(s.cols)
    BY DEF AllOnIndex, EvidenceOK, Parsed
  <1>3. /\ IsFiniteSet(X)
        /\ \A x \in X : \E c \in s.cols : x = [name |-> c, cols |-> {c}, bare |-> TRUE, alias |-> None]
        /\ \A x \in X : ~Named(b.dims, x.name)
    BY <1>2, UnreplacedFacts
  <1>4. d.dims = t \o b.dims
    BY DEF Dimensions, Unreplaced
  <1> HIDE DEF X
  <1>5. /\ IsSeq(t) /\ ToSet(t) \subseteq X
        /\ \A i, j \in DOMAIN t : t[i] = t[j] => i = j
    BY <1>3, SetToSeqFacts
  <1>6. \A i \in DOMAIN t : t[i] \in X
    BY <1>5 DEF ToSet
  <1>7. EntriesOK(b.dims, b.noted, "dimension", s.rel, n, run.skipped)
    BY <1>1 DEF BucketOK
  <1> DEFINE u == b.dims
             w == t \o u
  <1>8. IsSeq(u) /\ Distinct(u, "name")
    BY <1>7 DEF EntriesOK
  <1>9. ASSUME NEW i \in DOMAIN u
        PROVE  IsDimension(u[i]) /\ u[i].cols \subseteq Schema(s.rel).cols
    <2>1. PICK k \in 1..n : /\ WellFormed(run.evidence[k], s.rel) /\ run.evidence[k].k = "dimension"
                            /\ run.evidence[k].entry = u[i]
      BY <1>7 DEF EntriesOK
    <2>2. Parsed(run.evidence[k])
      BY <2>1, SeqFacts DEF AllOnIndex, EvidenceOK
    <2> QED
      BY <2>1, <2>2 DEF Parsed, WellFormed, IsDimension
  <1> HIDE DEF t, u
  <1>10. /\ IsSeq(w) /\ DOMAIN w = 1..(Len(t) + Len(u))
         /\ \A i \in 1..Len(t) : w[i] = t[i]
         /\ \A i \in 1..Len(u) : w[Len(t) + i] = u[i]
    BY <1>5, <1>8, ConcatFacts
  <1>11. Len(t) \in Nat /\ DOMAIN t = 1..Len(t) /\ Len(u) \in Nat /\ DOMAIN u = 1..Len(u)
    BY <1>5, <1>8, SeqFacts
  <1>12. \A i \in DOMAIN w : \/ i \in DOMAIN t /\ w[i] = t[i]
                             \/ i - Len(t) \in DOMAIN u /\ w[i] = u[i - Len(t)] /\ i \in Nat
    <2> SUFFICES ASSUME NEW i \in DOMAIN w, i \notin DOMAIN t
                 PROVE  i - Len(t) \in DOMAIN u /\ w[i] = u[i - Len(t)] /\ i \in Nat
      BY <1>10, <1>11
    <2>1. i - Len(t) \in 1..Len(u) /\ Len(t) + (i - Len(t)) = i
      BY <1>10, <1>11
    <2> QED
      BY <1>10, <1>11, <2>1
  <1>13. IsSeq(w) /\ d.dims = w
    BY <1>4, <1>10 DEF u
  <1> HIDE DEF w
  <1>14. \A i \in DOMAIN t : IsDimension(t[i]) /\ t[i].cols \subseteq s.cols /\ ~Named(u, t[i].name)
    BY <1>3, <1>6 DEF IsDimension, u
  <1>15. \A k \in DOMAIN w : IsDimension(w[k])
    BY <1>9, <1>12, <1>14
  <1>16. Distinct(w, "name")
    <2> SUFFICES ASSUME NEW i \in DOMAIN w, NEW j \in DOMAIN w, w[i].name = w[j].name PROVE i = j
      BY DEF Distinct
    <2>1. CASE i \in DOMAIN t /\ j \in DOMAIN t /\ w[i] = t[i] /\ w[j] = t[j]
      <3>1. PICK c \in s.cols : t[i] = [name |-> c, cols |-> {c}, bare |-> TRUE, alias |-> None]
        BY <1>3, <1>6, <2>1
      <3>2. PICK q \in s.cols : t[j] = [name |-> q, cols |-> {q}, bare |-> TRUE, alias |-> None]
        BY <1>3, <1>6, <2>1
      <3>3. t[i].name = c /\ t[j].name = q /\ t[i].name = t[j].name
        BY <2>1, <3>1, <3>2
      <3>4. t[i] = t[j]
        BY <3>1, <3>2, <3>3
      <3> QED
        BY <1>5, <2>1, <3>4
    <2>2. \A x \in DOMAIN t, y \in DOMAIN u : t[x].name # u[y].name
      BY <1>14 DEF Named
    <2>3. CASE /\ i - Len(t) \in DOMAIN u /\ w[i] = u[i - Len(t)] /\ i \in Nat
               /\ j - Len(t) \in DOMAIN u /\ w[j] = u[j - Len(t)] /\ j \in Nat
      <3>1. i - Len(t) = j - Len(t)
        BY <1>8, <2>3 DEF Distinct
      <3> QED
        BY <1>11, <2>3, <3>1
    <2> QED
      BY <1>12, <2>1, <2>2, <2>3
  <1>17. IsChecked(d) => Schema(s.rel) = s
    BY DEF IsChecked, Schema
  <1>18. IsChecked(d) => \A k \in DOMAIN w : w[k].cols \subseteq d.cols
    BY <1>9, <1>12, <1>14, <1>17
  <1> QED
    BY <1>13, <1>15, <1>16, <1>18 DEF SoundDims

LEMMA LaterSet ==
    ASSUME NEW s, IsSeq(s), NEW t, IsSeq(t)
    PROVE  ToSet(t) \subseteq ToSet(s \o t)
  <1>1. ToSet(s \o t) = ToSet(s) \cup ToSet(t)
    BY ConcatFacts
  <1> QED
    BY <1>1

LEMMA DraftedAccounts ==
    ASSUME AllOnIndex, NEW d, run.at \in DOMAIN run.evidence, NEW s, s = run.evidence[run.at],
           s.k = "schema", NEW b, b = Bucket(run.index, s.rel), d.rel = s.rel,
           d.dims = Dimensions(s, b), b.measures # <<>> => d.measures = b.measures
    PROVE  Accounted(d)
  <1> DEFINE X == Unreplaced(s, b)
             t == SetToSeq(X)
             n == Len(run.evidence)
             u == b.dims
  <1>1. BucketOK(b, s.rel, n, run.skipped)
    BY DEF AllOnIndex, IndexOK
  <1>2. IsFiniteSet(s.cols)
    BY DEF AllOnIndex, EvidenceOK, Parsed
  <1>3. IsFiniteSet(X)
    BY <1>2, UnreplacedFacts
  <1>4. d.dims = t \o u
    BY DEF Dimensions, Unreplaced
  <1> HIDE DEF X
  <1>5. IsSeq(t)
    BY <1>3, SetToSeqFacts
  <1>6. /\ EntriesOK(b.dims, b.noted, "dimension", s.rel, n, run.skipped)
        /\ EntriesOK(b.measures, b.noted, "measure", s.rel, n, run.skipped)
    BY <1>1 DEF BucketOK
  <1> HIDE DEF t
  <1>7. IsSeq(u)
    BY <1>6 DEF EntriesOK
  <1>8. ToSet(u) \subseteq ToSet(d.dims)
    BY <1>4, <1>5, <1>7, LaterSet, Zenon
  <1>9. DOMAIN run.evidence = 1..n
    BY SeqFacts DEF AllOnIndex, EvidenceOK
  <1> SUFFICES ASSUME NEW k \in 1..n, NEW e, e = run.evidence[k], k \notin run.skipped, e.refs = <<s.rel>>
               PROVE  /\ e.k = "measure" => e.entry \in ToSet(d.measures)
                      /\ e.k = "dimension" => \E m \in DOMAIN d.dims :
                                      [d.dims[m] EXCEPT !.alias = e.entry.alias] = e.entry
    BY <1>9 DEF Accounted
  <1>10. ASSUME e.k = "measure" PROVE e.entry \in ToSet(d.measures)
    <2>1. e.entry \in ToSet(b.measures)
      BY <1>6, <1>10 DEF EntriesOK
    <2>2. b.measures # <<>>
      BY <2>1, EmptyFacts DEF ToSet
    <2> QED
      BY <2>1, <2>2
  <1>11. ASSUME e.k = "dimension"
         PROVE  \E m \in DOMAIN d.dims : [d.dims[m] EXCEPT !.alias = e.entry.alias] = e.entry
    <2>1. e.entry \in ToSet(d.dims)
      BY <1>6, <1>8, <1>11 DEF EntriesOK
    <2>2. PICK m \in DOMAIN d.dims : d.dims[m] = e.entry
      BY <2>1 DEF ToSet
    <2>3. IsDimension(e.entry)
      BY <1>9, <1>11 DEF AllOnIndex, EvidenceOK, Parsed, IsDimension
    <2>4. [e.entry EXCEPT !.alias = e.entry.alias] = e.entry
      BY <2>3 DEF IsDimension
    <2> QED
      BY <2>2, <2>4
  <1> QED
    BY <1>10, <1>11

-----------------------------------------------------------------------------
(* Drafting: joins and completion                                           *)

GuessOK(s, b, g) ==
    /\ g.conf \in 50..85 /\ g.col \in CandidateColumns(s, b) /\ g.to \in OtherRelations(s)
    /\ g.ref \in Schema(g.to).cols
GuessesOK(s, b, guesses) == IsSeq(guesses) /\ \A i \in DOMAIN guesses : GuessOK(s, b, guesses[i])

LEMMA NoGuesses == \A s, b : GuessesOK(s, b, <<>>)
  BY EmptyFacts DEF GuessesOK

LEMMA SameDomain ==
    ASSUME NEW s, IsSeq(s), NEW t, t = [i \in DOMAIN s |-> t[i]]
    PROVE  IsSeq(t) /\ DOMAIN t = DOMAIN s /\ Len(t) = Len(s)
  <1> DEFINE n == Len(s)
             S == {t[i] : i \in 1..n}
             again == [i \in 1..n |-> t[i]]
  <1>1. n \in Nat /\ DOMAIN s = 1..n
    BY SeqFacts
  <1>2. t = again
    BY <1>1
  <1> HIDE DEF n
  <1>3. again \in Seq(S) /\ Len(again) = n
    BY <1>1
  <1> QED
    BY <1>1, <1>2, <1>3 DEF IsSeq, n

LEMMA AnsweredGuesses ==
    ASSUME NEW s, NEW b, NEW guesses \in BoundedSeq(JoinGuesses, MaxGuesses)
    PROVE  GuessesOK(s, b, ValidGuesses(s, b, guesses))
  <1> DEFINE Trusted(g) == /\ g.conf >= 50
                           /\ g.col \in CandidateColumns(s, b)
                           /\ g.to \in OtherRelations(s)
                           /\ g.ref \in Schema(g.to).cols
             places == {i \in DOMAIN guesses : Trusted(guesses[i])}
             valid == Keep(guesses, places)
             capped == [i \in DOMAIN valid |-> [valid[i] EXCEPT !.conf = IF @ > 85 THEN 85 ELSE @]]
  <1>1. \E n \in Nat : guesses \in [1..n -> JoinGuesses]
    BY DraftingAssumption DEF BoundedSeq, SeqOf
  <1>2. guesses \in Seq(JoinGuesses)
    BY <1>1
  <1>3. IsSeq(guesses) /\ \A i \in DOMAIN guesses : guesses[i] \in JoinGuesses
    BY <1>2 DEF IsSeq
  <1>4. /\ IsSeq(valid)
        /\ \A i \in DOMAIN valid : \E j \in DOMAIN guesses : j \in places /\ valid[i] = guesses[j]
    <2> HIDE DEF places
    <2> QED
      BY <1>3, KeepFacts
  <1>5. ValidGuesses(s, b, guesses) = capped
    BY DEF ValidGuesses
  <1>6. \A j \in places : Trusted(guesses[j]) /\ guesses[j] \in JoinGuesses
    BY <1>3
  <1> HIDE DEF places, valid, Trusted
  <1>7. IsSeq(capped) /\ DOMAIN capped = DOMAIN valid
    BY <1>4, SameDomain
  <1>8. ASSUME NEW i \in DOMAIN valid PROVE GuessOK(s, b, capped[i])
    <2> DEFINE g == valid[i]
               c == IF g.conf > 85 THEN 85 ELSE g.conf
    <2>1. Trusted(g) /\ g \in JoinGuesses
      BY <1>4, <1>6
    <2>2. capped[i] = [g EXCEPT !.conf = c]
      OBVIOUS
    <2>3. g = [col |-> g.col, to |-> g.to, ref |-> g.ref, conf |-> g.conf] /\ g.conf \in Nat
      BY <2>1, DraftingAssumption
    <2> HIDE DEF g, c, capped
    <2>4. capped[i] = [col |-> g.col, to |-> g.to, ref |-> g.ref, conf |-> c]
      BY <2>2, <2>3
    <2>5. c \in 50..85
      BY <2>1, <2>3 DEF Trusted, c
    <2>6. capped[i].col = g.col /\ capped[i].to = g.to /\ capped[i].ref = g.ref /\ capped[i].conf = c
      BY <2>4
    <2> QED
      BY <2>1, <2>5, <2>6 DEF GuessOK, Trusted
  <1> QED
    BY <1>5, <1>7, <1>8 DEF GuessesOK

\* Where the joins of a draft come from.
LEMMA BuiltJoins ==
    ASSUME NEW s, IsSeq(s.fks), NEW guesses, IsSeq(guesses), NEW modelled, IsSeq(modelled),
           NEW k \in DOMAIN BuildJoins(s, guesses, modelled)
    PROVE  LET j == BuildJoins(s, guesses, modelled)[k]
           IN  \/ /\ j.by = "fk"
                  /\ \E i \in DOMAIN s.fks : j.to = s.fks[i].to /\ j.col = s.fks[i].col /\ j.ref = s.fks[i].ref
               \/ /\ j.by = "llm"
                  /\ \E i \in DOMAIN guesses :
                        j.to = guesses[i].to /\ j.col = guesses[i].col /\ j.ref = guesses[i].ref
               \/ /\ j.by = "model"
                  /\ \E i \in DOMAIN modelled :
                        j.to = modelled[i].to /\ j.col = modelled[i].col /\ j.ref = modelled[i].ref
  <1> DEFINE Tag(list, by) == [i \in DOMAIN list |->
                                 [to |-> list[i].to, col |-> list[i].col, ref |-> list[i].ref, by |-> by]]
             Modelled(fk) == \E i \in DOMAIN modelled :
                               /\ modelled[i].to = fk.to
                               /\ modelled[i].col = fk.col /\ modelled[i].ref = fk.ref
             places == {i \in DOMAIN s.fks : ~Modelled(s.fks[i])}
             fks == Keep(s.fks, places)
             A == Tag(fks, "fk")
             B == Tag(guesses, "llm")
             C == Tag(modelled, "model")
             all == A \o B \o C
             joins == BuildJoins(s, guesses, modelled)
  <1>1. IsSeq(fks) /\ \A i \in DOMAIN fks : \E j \in DOMAIN s.fks : j \in places /\ fks[i] = s.fks[j]
    <2> HIDE DEF places
    <2> QED
      BY KeepFacts
  <1>2. /\ DOMAIN joins = DOMAIN all
        /\ \A i \in DOMAIN all : /\ joins[i].to = all[i].to /\ joins[i].col = all[i].col
                                /\ joins[i].ref = all[i].ref /\ joins[i].by = all[i].by
    BY DEF BuildJoins
  <1> HIDE DEF fks, places, joins
  <1>3. IsSeq(A) /\ DOMAIN A = DOMAIN fks /\ IsSeq(B) /\ DOMAIN B = DOMAIN guesses /\ IsSeq(C) /\ DOMAIN C = DOMAIN modelled
    BY <1>1, SameDomain
  <1>4. \A i \in DOMAIN A : /\ A[i].by = "fk" /\ A[i].to = fks[i].to /\ A[i].col = fks[i].col
                           /\ A[i].ref = fks[i].ref
    OBVIOUS
  <1>5. \A i \in DOMAIN B : /\ B[i].by = "llm" /\ B[i].to = guesses[i].to /\ B[i].col = guesses[i].col
                           /\ B[i].ref = guesses[i].ref
    OBVIOUS
  <1>6. \A i \in DOMAIN C : /\ C[i].by = "model" /\ C[i].to = modelled[i].to /\ C[i].col = modelled[i].col
                           /\ C[i].ref = modelled[i].ref
    OBVIOUS
  <1> HIDE DEF Tag
  <1>7. ToSet(all) = ToSet(A) \cup ToSet(B) \cup ToSet(C)
    <2> HIDE DEF A, B, C
    <2>1. IsSeq(A \o B) /\ ToSet(A \o B) = ToSet(A) \cup ToSet(B)
      BY <1>3, ConcatFacts
    <2>2. ToSet((A \o B) \o C) = ToSet(A \o B) \cup ToSet(C)
      BY <1>3, <2>1, ConcatFacts
    <2> QED
      BY <2>1, <2>2
  <1> HIDE DEF A, B, C, all
  <1>8. k \in DOMAIN all /\ all[k] \in ToSet(all)
    BY <1>2 DEF ToSet, joins
  <1>9. CASE all[k] \in ToSet(A)
    <2>1. PICK i \in DOMAIN A : all[k] = A[i]
      BY <1>9 DEF ToSet
    <2> QED
      BY <1>1, <1>2, <1>3, <1>4, <1>8, <2>1 DEF joins
  <1>10. CASE all[k] \in ToSet(B)
    <2>1. PICK i \in DOMAIN B : all[k] = B[i]
      BY <1>10 DEF ToSet
    <2> QED
      BY <1>2, <1>3, <1>5, <1>8, <2>1 DEF joins
  <1>11. CASE all[k] \in ToSet(C)
    <2>1. PICK i \in DOMAIN C : all[k] = C[i]
      BY <1>11 DEF ToSet
    <2> QED
      BY <1>2, <1>3, <1>6, <1>8, <2>1 DEF joins
  <1> QED
    BY <1>7, <1>8, <1>9, <1>10, <1>11

From(j, list) == \E i \in DOMAIN list : j.to = list[i].to /\ j.col = list[i].col /\ j.ref = list[i].ref
Origin(j, fks, guesses, modelled) ==
    \/ j.by = "fk" /\ From(j, fks)
    \/ j.by = "llm" /\ From(j, guesses)
    \/ j.by = "model" /\ From(j, modelled)

LEMMA JoinOrigins ==
    ASSUME NEW s, IsSeq(s.fks), NEW guesses, IsSeq(guesses), NEW modelled, IsSeq(modelled)
    PROVE  \A k \in DOMAIN BuildJoins(s, guesses, modelled) :
             Origin(BuildJoins(s, guesses, modelled)[k], s.fks, guesses, modelled)
  BY BuiltJoins DEF Origin, From

\* Two definitions of one name that differ, or a flagged one, are noted.
LEMMA ReviewIsNoted ==
    ASSUME AllOnIndex, NEW r, Known(r), NEW b, b = Bucket(run.index, r),
           Disputed(r) \/ FlaggedMeasure(r) \/ FlaggedJoin(r)
    PROVE  b.noted = TRUE
  <1> DEFINE n == Len(run.evidence)
  <1>1. BucketOK(b, r, n, run.skipped)
    BY DEF AllOnIndex, IndexOK
  <1>2. DOMAIN run.evidence = 1..n
    BY SeqFacts DEF AllOnIndex, EvidenceOK
  <1>3. /\ EntriesOK(b.measures, b.noted, "measure", r, n, run.skipped)
        /\ EntriesOK(b.dims, b.noted, "dimension", r, n, run.skipped)
    BY <1>1 DEF BucketOK
  <1>4. CASE FlaggedMeasure(r)
    <2>1. PICK i \in 1..n : FlaggedFirst(i, r)
      BY <1>2, <1>4 DEF FlaggedMeasure, FlaggedFirst
    <2>2. run.evidence[i].k = "measure"
      BY <2>1 DEF FlaggedFirst
    <2> QED
      BY <1>3, <2>1, <2>2 DEF EntriesOK
  <1>5. CASE Disputed(r)
    <2> SUFFICES ASSUME b.noted # TRUE PROVE FALSE
      OBVIOUS
    <2>1. PICK i \in 1..n, j \in 1..n :
            /\ WellFormed(run.evidence[i], r) /\ WellFormed(run.evidence[j], r)
            /\ Rival(run.evidence[i], run.evidence[j])
            /\ run.evidence[i].entry # run.evidence[j].entry
      BY <1>2, <1>5 DEF Disputed
    <2> DEFINE e == run.evidence[i]
               f == run.evidence[j]
    <2>2. e.k \in {"measure", "dimension"} /\ e.k = f.k /\ e.entry.name = f.entry.name /\ e.entry # f.entry
      BY <2>1 DEF WellFormed, Rival
    <2>3. ASSUME NEW list, NEW kind, EntriesOK(list, b.noted, kind, r, n, run.skipped), e.k = kind
          PROVE  FALSE
      <3>1. e.entry \in ToSet(list) /\ f.entry \in ToSet(list) /\ Distinct(list, "name")
        BY <2>1, <2>2, <2>3 DEF EntriesOK
      <3>2. PICK x \in DOMAIN list, y \in DOMAIN list : list[x] = e.entry /\ list[y] = f.entry
        BY <3>1 DEF ToSet
      <3>3. list[x]["name"] = list[y]["name"]
        BY <2>2, <3>2
      <3>4. x = y
        BY <3>1, <3>3 DEF Distinct
      <3> QED
        BY <2>2, <3>2, <3>4
    <2> QED
      BY <1>3, <2>2, <2>3
  <1>6. CASE FlaggedJoin(r)
    <2>1. PICK i \in 1..n : FlaggedOn(i, r)
      BY <1>2, <1>6 DEF FlaggedJoin, FlaggedOn
    <2> QED
      BY <1>1, <2>1 DEF BucketOK
  <1> QED
    BY <1>4, <1>5, <1>6

LEMMA CompletedJoins ==
    ASSUME AllOnIndex, run.at \in DOMAIN run.evidence, NEW s, s = run.evidence[run.at], s.k = "schema",
           NEW b, b = Bucket(run.index, s.rel), NEW guesses, GuessesOK(s, b, guesses),
           NEW d, d.rel = s.rel, d.conn = s.conn, d.from = run.at, d.cols = s.cols,
           d.joins = BuildJoins(s, guesses, b.joins)
    PROVE  SoundJoins(d)
  <1> SUFFICES ASSUME IsChecked(d), NEW k \in DOMAIN d.joins
               PROVE  LET j == d.joins[k]
                      IN  /\ j.by # "fk" => /\ j.col \in d.cols
                                            /\ Known(j.to) /\ j.ref \in Schema(j.to).cols
                                            /\ Schema(j.to).conn = d.conn
                          /\ j.by = "llm" =>
                               \A m \in DOMAIN d.joins :
                                 d.joins[m].by # "llm" /\ d.joins[m].to # d.rel => d.joins[m].col # j.col
    BY DEF SoundJoins
  <1> DEFINE js == d.joins
  <1>1. Schema(s.rel) = s
    BY DEF IsChecked, Schema
  <1>2. BucketOK(b, s.rel, Len(run.evidence), run.skipped)
    BY DEF AllOnIndex, IndexOK
  <1>3. IsSeq(b.joins) /\ (\A i \in DOMAIN b.joins : JoinOK(s.rel, b.joins[i])) /\ b.rel = s.rel
    <2>1. IsBucket(b, s.rel) /\ IsSeq(b.joins) /\ \A i \in DOMAIN b.joins : JoinOK(s.rel, b.joins[i])
      BY <1>2 DEF BucketOK
    <2>2. b.rel = s.rel
      <3>1. IsBucket(b, s.rel)
        BY <2>1
      <3> QED
        BY <3>1 DEF IsBucket
    <2> QED
      BY <2>1, <2>2
  <1>4. IsSeq(s.fks)
    BY ListIsSeq DEF AllOnIndex, EvidenceOK, Parsed
  <1>5. IsSeq(guesses) /\ \A i \in DOMAIN guesses : GuessOK(s, b, guesses[i])
    BY DEF GuessesOK
  <1>6. \A m \in DOMAIN js : Origin(js[m], s.fks, guesses, b.joins)
    BY <1>3, <1>4, <1>5, JoinOrigins, Zenon
  <1> HIDE DEF js
  <1>7. CASE js[k].by = "fk"
    BY <1>7 DEF js
  <1>8. CASE js[k].by = "model"
    <2>1. PICK i \in DOMAIN b.joins : js[k].to = b.joins[i].to /\ js[k].col = b.joins[i].col /\ js[k].ref = b.joins[i].ref
      BY <1>6, <1>8 DEF js, Origin, From
    <2>2. JoinOK(s.rel, b.joins[i])
      BY <1>3
    <2> QED
      BY <1>1, <1>8, <2>1, <2>2 DEF JoinOK, js
  <1>9. CASE js[k].by = "llm"
    <2>1. PICK i \in DOMAIN guesses : js[k].to = guesses[i].to /\ js[k].col = guesses[i].col /\ js[k].ref = guesses[i].ref
      BY <1>6, <1>9 DEF js, Origin, From
    <2>2. GuessOK(s, b, guesses[i])
      BY <1>5
    <2>3. js[k].col \in CandidateColumns(s, b) /\ js[k].to \in OtherRelations(s) /\ js[k].ref \in Schema(js[k].to).cols
      BY <2>1, <2>2 DEF GuessOK
    <2>4. js[k].col \in s.cols
      BY <2>3 DEF CandidateColumns
    <2>5. Known(js[k].to) /\ Schema(js[k].to).conn = s.conn
      <3>1. Schema(js[k].to).conn = s.conn
        BY <2>3 DEF OtherRelations
      <3>2. PICK x \in DOMAIN run.evidence : run.evidence[x].k = "schema" /\ run.evidence[x].rel = js[k].to
        BY <2>3 DEF OtherRelations
      <3> QED
        BY <3>1, <3>2 DEF Known, SchemasOf
    <2>6. ASSUME NEW m \in DOMAIN js, js[m].by # "llm", js[m].to # s.rel PROVE js[m].col # js[k].col
      <3>1. CASE js[m].by = "fk" /\ From(js[m], s.fks)
        BY <2>3, <3>1 DEF CandidateColumns, From
      <3>2. CASE js[m].by = "model" /\ From(js[m], b.joins)
        <4>1. PICK x \in DOMAIN b.joins : js[m].to = b.joins[x].to /\ js[m].col = b.joins[x].col
          BY <3>2 DEF From
        <4>2. js[m].col \in JoinColumns(b)
          BY <1>3, <2>6, <4>1 DEF JoinColumns
        <4> QED
          BY <2>3, <4>2 DEF CandidateColumns
      <3> QED
        BY <1>6, <2>6, <3>1, <3>2 DEF Origin
    <2> QED
      BY <1>9, <2>3, <2>4, <2>5, <2>6 DEF js
  <1> QED
    BY <1>6, <1>7, <1>8, <1>9 DEF js, Origin

LEMMA CompletedDraft ==
    ASSUME AllOnIndex, NEW r, r.index = run.index, r.evidence = run.evidence, r.at = run.at,
           InProgress(r.draft), NEW s, s = run.evidence[run.at], NEW b, b = Bucket(run.index, s.rel),
           NEW guesses, GuessesOK(s, b, guesses)
    PROVE  DraftOK(Complete(r, guesses))
  <1> DEFINE d == r.draft
             by == IF guesses = <<>> THEN d.by ELSE "llm"
             S == {d.conf} \cup {guesses[i].conf : i \in DOMAIN guesses} \cup (IF b.noted THEN {50} ELSE {})
             conf == Least(S)
             joins == BuildJoins(s, guesses, b.joins)
             c == [d EXCEPT !.by = by, !.conf = conf, !.joins = joins]
  <1>1. /\ run.at \in DOMAIN run.evidence /\ s.k = "schema" /\ IsDraft(d)
        /\ d.rel = s.rel /\ d.conn = s.conn /\ d.from = run.at /\ d.cols = s.cols
        /\ d.conf \in 0..100 /\ d.by \in {"deterministic", "llm"}
        /\ d.by = "deterministic" => d.asked = FALSE
        /\ SoundDims(d) /\ Accounted(d)
    BY DEF InProgress
  <1>2. Complete(r, guesses) = c
    BY <1>1 DEF Complete
  <1>3. /\ \A i \in DOMAIN guesses : guesses[i].conf \in 50..85
        /\ IsSeq(guesses)
    BY DEF GuessesOK, GuessOK
  <1>4. S \in SUBSET Nat /\ d.conf \in S /\ (b.noted = TRUE => 50 \in S)
    BY <1>1, <1>3
  <1> HIDE DEF S
  <1>5. conf \in Nat /\ conf <= d.conf /\ (b.noted = TRUE => conf <= 50)
    BY <1>4, LeastFacts
  <1> HIDE DEF d, conf, by, joins
  <1>6. /\ c.by = by /\ c.conf = conf /\ c.joins = joins /\ c.rel = d.rel /\ c.conn = d.conn
        /\ c.from = d.from /\ c.cols = d.cols /\ c.asked = d.asked /\ c.measures = d.measures
        /\ c.dims = d.dims
    BY <1>1 DEF IsDraft, DraftFields
  <1> HIDE DEF c
  <1>7. TypedDraft(c)
    <2>1. s.cols \subseteq Columns
      BY <1>1 DEF AllOnIndex, EvidenceOK, Parsed
    <2>2. by \in {"deterministic", "llm"}
      BY <1>1 DEF by
    <2>3. conf \in 0..100
      BY <1>1, <1>5
    <2> QED
      BY <1>1, <1>6, <2>1, <2>2, <2>3 DEF TypedDraft
  <1>8. SoundDims(c)
    BY <1>1, <1>6 DEF SoundDims, IsChecked
  <1>9. Accounted(c)
    BY <1>1, <1>6 DEF Accounted
  <1>10. SoundJoins(c)
    BY <1>1, <1>6, CompletedJoins DEF joins
  <1>11. Declared(c)
    <2> SUFFICES ASSUME by = "deterministic", conf = 100
                 PROVE  /\ d.asked = FALSE
                        /\ \A k \in DOMAIN joins : joins[k].by # "llm"
                        /\ ~Disputed(s.rel) /\ ~FlaggedMeasure(s.rel) /\ ~FlaggedJoin(s.rel)
      BY <1>1, <1>6 DEF Declared
    <2>1. guesses = <<>> /\ d.asked = FALSE
      BY <1>1 DEF by
    <2>2. ASSUME NEW k \in DOMAIN joins PROVE joins[k].by # "llm"
      <3>1. IsSeq(s.fks)
        BY <1>1, ListIsSeq DEF AllOnIndex, EvidenceOK, Parsed
      <3>2. IsSeq(b.joins)
        BY DEF AllOnIndex, IndexOK, BucketOK
      <3>3. DOMAIN guesses = {}
        BY <2>1, EmptyFacts
      <3> QED
        BY <1>3, <2>2, <3>1, <3>2, <3>3, BuiltJoins DEF joins
    <2>3. Known(s.rel)
      BY <1>1 DEF Known, SchemasOf
    <2>4. b.noted # TRUE
      <3> SUFFICES ASSUME b.noted = TRUE PROVE FALSE
        OBVIOUS
      <3> QED
        BY <1>5
    <2>5. ~Disputed(s.rel) /\ ~FlaggedMeasure(s.rel) /\ ~FlaggedJoin(s.rel)
      BY <2>3, <2>4, ReviewIsNoted
    <2> QED
      BY <2>1, <2>2, <2>5
  <1> QED
    BY <1>2, <1>7, <1>8, <1>9, <1>10, <1>11 DEF DraftOK

-----------------------------------------------------------------------------
(* Drafting: what depends on the evidence only                              *)

LEMMA SameSchemas ==
    ASSUME run'.evidence = run.evidence
    PROVE  \A r : /\ SchemasOf(r)' = SchemasOf(r) /\ Known(r)' = Known(r)
                  /\ Checked(r)' = Checked(r) /\ Schema(r)' = Schema(r)
  <1> TAKE r
  <1>1. SchemasOf(r)' = SchemasOf(r)
    BY DEF SchemasOf
  <1>2. Known(r)' = Known(r)
    BY <1>1 DEF Known
  <1>3. Checked(r)' = Checked(r)
    BY <1>1, Zenon DEF Checked
  <1>4. Schema(r)' = Schema(r)
    BY <1>3 DEF Schema
  <1> QED
    BY <1>1, <1>2, <1>3, <1>4

LEMMA SameStatements ==
    ASSUME run'.evidence = run.evidence
    PROVE  /\ \A e, r : WellFormed(e, r)' <=> WellFormed(e, r)
           /\ \A k, r : FlaggedFirst(k, r)' <=> FlaggedFirst(k, r)
           /\ \A r : Disputed(r)' <=> Disputed(r)
           /\ \A r : FlaggedMeasure(r)' <=> FlaggedMeasure(r)
           /\ \A k, r : FlaggedOn(k, r)' <=> FlaggedOn(k, r)
           /\ \A r : FlaggedJoin(r)' <=> FlaggedJoin(r)
           /\ \A r, j : JoinOK(r, j)' <=> JoinOK(r, j)
           /\ \A d : IsChecked(d)' <=> IsChecked(d)
           /\ EvidenceOK' <=> EvidenceOK
  <1>1. \A r : Known(r)' = Known(r) /\ Schema(r)' = Schema(r) /\ Checked(r)' = Checked(r)
    BY SameSchemas
  <1>2. \A e, r : WellFormed(e, r)' <=> WellFormed(e, r)
    BY <1>1 DEF WellFormed
  <1>3. \A k, r : FlaggedFirst(k, r)' <=> FlaggedFirst(k, r)
    BY <1>2 DEF FlaggedFirst
  <1>4. \A r : Disputed(r)' <=> Disputed(r)
    BY <1>2 DEF Disputed
  <1>5. \A r : FlaggedMeasure(r)' <=> FlaggedMeasure(r)
    BY <1>2 DEF FlaggedMeasure
  <1>6. \A r, j : JoinOK(r, j)' <=> JoinOK(r, j)
    BY <1>1 DEF JoinOK
  <1>7. \A d : IsChecked(d)' <=> IsChecked(d)
    BY <1>1 DEF IsChecked
  <1>8. EvidenceOK' <=> EvidenceOK
    BY DEF EvidenceOK
  <1>9. \A s : SpecOK(s)' <=> SpecOK(s)
    BY <1>1 DEF SpecOK
  <1>10. \A e, r : JoinsFrom(e, r)' <=> JoinsFrom(e, r)
    BY <1>9 DEF JoinsFrom
  <1>11. \A k, r : FlaggedOn(k, r)' <=> FlaggedOn(k, r)
    BY <1>10 DEF FlaggedOn
  <1>12. \A r : FlaggedJoin(r)' <=> FlaggedJoin(r)
    BY <1>10 DEF FlaggedJoin
  <1> QED
    BY <1>2, <1>3, <1>4, <1>5, <1>6, <1>7, <1>8, <1>11, <1>12

LEMMA SameIndex ==
    ASSUME run'.evidence = run.evidence, NEW ix, NEW n, NEW skipped, IndexOK(ix, n, skipped)
    PROVE  IndexOK(ix, n, skipped)'
  <1>1. \A r : Known(r)' = Known(r)
    BY SameSchemas
  <1>2. ASSUME NEW list, NEW noted, NEW kind, NEW r, EntriesOK(list, noted, kind, r, n, skipped)
        PROVE  EntriesOK(list, noted, kind, r, n, skipped)'
    BY <1>1, <1>2, SameStatements DEF EntriesOK
  <1>3. ASSUME NEW b, NEW r, BucketOK(b, r, n, skipped)
        PROVE  BucketOK(b, r, n, skipped)'
    BY <1>2, <1>3, SameStatements DEF BucketOK
  <1> QED
    BY <1>3 DEF IndexOK

LEMMA SameDraft ==
    ASSUME run'.evidence = run.evidence, run.skipped \subseteq run'.skipped, NEW d, DraftOK(d)
    PROVE  DraftOK(d)'
  <1>1. \A r : Known(r)' = Known(r) /\ Schema(r)' = Schema(r)
    BY SameSchemas
  <1>2. SoundDims(d)'
    BY SameStatements DEF DraftOK, SoundDims
  <1>3. Accounted(d)'
    BY DEF DraftOK, Accounted
  <1>4. SoundJoins(d)'
    BY <1>1, SameStatements DEF DraftOK, SoundJoins
  <1>5. Declared(d)'
    BY SameStatements DEF DraftOK, Declared
  <1> QED
    BY <1>2, <1>3, <1>4, <1>5 DEF DraftOK, TypedDraft

LEMMA SameProgress ==
    ASSUME run'.evidence = run.evidence, run'.skipped = run.skipped, run'.at = run.at, NEW d, InProgress(d)
    PROVE  InProgress(d)'
  <1>1. SoundDims(d)'
    BY SameStatements DEF InProgress, SoundDims
  <1>2. Accounted(d)'
    BY DEF InProgress, Accounted
  <1> QED
    BY <1>1, <1>2 DEF InProgress

-----------------------------------------------------------------------------
(* Drafting: the inductive invariant                                        *)

AreParsed(items) == IsSeq(items) /\ \A x \in ToSet(items) : Parsed(x)
IsPlan(plan) == IsSeq(plan) /\ \A items \in ToSet(plan) : AreParsed(items)

ProjectOK ==
    /\ DOMAIN project = {"conns", "default", "has", "filter", "outcomes", "sources", "metrics"}
    /\ IsList(project.conns) /\ ToSet(project.conns) \subseteq Conns
    /\ project.filter \in [Conns -> {None} \cup SUBSET Relations]
    /\ \A c \in Conns : /\ IsList(project.has[c])
                        /\ \A i \in DOMAIN project.has[c] : AllParsed(project.has[c][i].items)
    /\ AllParsed(project.outcomes)

RunFields == {"pc", "headless", "plan", "evidence", "at", "index", "skipped", "drafts", "others",
              "draft", "tries", "sources", "pending", "offered", "ready", "added", "held",
              "spare", "broken"}
Before == {"idle", "gather"}
Asks == {"grain", "labels", "joins"}
After == {"candidates", "resolve", "done"}
Builds == {"draft"} \cup Asks

RunOK ==
    /\ DOMAIN run = RunFields
    /\ run.pc \in Before \cup {"place", "failed"} \cup Builds \cup After
    /\ run.tries \in 0..MaxRetries
    /\ EvidenceOK /\ run.skipped \subseteq DOMAIN run.evidence
    /\ run.at \in 1..(Len(run.evidence) + 1)
    /\ IsPlan(run.plan)

Indexed ==
    /\ run.pc \in Before => run.index = <<>> /\ run.skipped = {} /\ run.at = 1
    /\ run.pc \in Before \cup {"place"} => run.drafts = <<>>
    /\ run.pc = "place" => IndexOK(run.index, run.at - 1, run.skipped)
    /\ run.pc \in Builds \cup After => IndexOK(run.index, Len(run.evidence), run.skipped)

Drafted ==
    /\ IsSeq(run.drafts) /\ \A i \in DOMAIN run.drafts : DraftOK(run.drafts[i])
    /\ run.pc \in Asks => InProgress(run.draft)

\* What resolution has come to: every binding rests on those before it, and, where
\* no candidates refer to each other in a circle, none that is not decided yet is
\* missed by one that is.
ResolvedOK(pending, ready, added) ==
    LET undecided == ToSet(ready) \cup ToSet(pending)
    IN  /\ IsSeq(run.offered) /\ IsSeq(pending) /\ IsSeq(ready) /\ IsSeq(added)
        /\ Len(added) + Len(ready) + Len(pending) <= Len(run.offered)
        /\ undecided \subseteq Offered
        /\ \A j \in DOMAIN added :
             /\ added[j] \in Offered /\ added[j].metric \notin project.metrics
             /\ Grounded(added[j], project.metrics \cup {added[i].metric : i \in 1..(j - 1)})
        /\ Acyclic =>
             /\ \A p \in Offered \ ToSet(pending), q \in undecided : q.metric \notin p.refs
             /\ \A p \in Offered \ undecided :
                  p.metric \notin project.metrics /\ Grounded(p, Bound(added)) => p \in ToSet(added)

CandidatesOK ==
    /\ run.pc \in Before \cup {"place"} \cup Builds => run.pending = <<>>
    /\ run.pc \in Before \cup {"place", "candidates"} \cup Builds => run.ready = <<>> /\ run.added = <<>>
    /\ run.pc = "candidates" => IsSeq(run.pending)
    /\ run.pc \in {"resolve", "done"} => ResolvedOK(run.pending, run.ready, run.added)

DraftingInv ==
    /\ ProjectOK /\ open \subseteq ToSet(project.conns)
    /\ RunOK /\ Indexed /\ Drafted /\ CandidatesOK

-----------------------------------------------------------------------------
(* Drafting: gathering                                                      *)

LEMMA ParsedList ==
    ASSUME NEW items, AllParsed(items)
    PROVE  AreParsed(items)
  BY ListIsSeq DEF AllParsed, AreParsed, ToSet

LEMMA KeepParsed ==
    ASSUME NEW items, AreParsed(items), NEW at
    PROVE  AreParsed(Keep(items, at))
  <1>1. /\ IsSeq(Keep(items, at))
        /\ \A i \in DOMAIN Keep(items, at) : \E j \in DOMAIN items : Keep(items, at)[i] = items[j]
    BY KeepFacts DEF AreParsed
  <1>2. \A x \in ToSet(Keep(items, at)) : x \in ToSet(items)
    BY <1>1 DEF ToSet
  <1> QED
    BY <1>1, <1>2 DEF AreParsed

LEMMA CallsArePlan ==
    ASSUME ProjectOK, NEW c \in Conns, NEW caps, NEW tables
    PROVE  IsPlan(GatherCalls(c, caps, tables))
  <1> DEFINE has == project.has[c]
             places == {i \in DOMAIN has : has[i].cap \in caps}
             calls == Keep(has, places)
             Asked(cap, e) == e.k = "schema" /\ cap = "introspect_schema"
                                => tables = None \/ e.rel \in tables
             Of(i) == {j \in DOMAIN calls[i].items :
                         Valid(calls[i].items[j]) /\ Asked(calls[i].cap, calls[i].items[j])}
             plan == [i \in DOMAIN calls |-> Keep(calls[i].items, Of(i))]
  <1>1. GatherCalls(c, caps, tables) = plan
    BY DEF GatherCalls
  <1>2. IsSeq(has) /\ \A i \in DOMAIN has : AreParsed(has[i].items)
    BY ListIsSeq, ParsedList DEF ProjectOK
  <1> HIDE DEF has, places
  <1>3. IsSeq(calls) /\ \A i \in DOMAIN calls : \E j \in DOMAIN has : calls[i] = has[j]
    BY <1>2, KeepFacts
  <1> HIDE DEF calls, Of
  <1>4. \A i \in DOMAIN calls : AreParsed(calls[i].items)
    BY <1>2, <1>3
  <1>5. \A i \in DOMAIN calls : AreParsed(plan[i])
    BY <1>4, KeepParsed
  <1>6. IsSeq(plan) /\ DOMAIN plan = DOMAIN calls
    BY <1>3, SameDomain
  <1> HIDE DEF plan
  <1>7. IsPlan(plan)
    BY <1>5, <1>6 DEF IsPlan, ToSet
  <1> QED
    BY <1>1, <1>7

LEMMA PlansJoin ==
    ASSUME NEW p, IsPlan(p), NEW q, IsPlan(q)
    PROVE  IsPlan(p \o q)
  <1>1. IsSeq(p) /\ IsSeq(q)
    BY DEF IsPlan
  <1>2. IsSeq(p \o q) /\ ToSet(p \o q) = ToSet(p) \cup ToSet(q)
    BY <1>1, ConcatFacts
  <1> QED
    BY <1>2 DEF IsPlan

LEMMA PlansFlatten ==
    ASSUME NEW pp, IsSeq(pp), \A i \in DOMAIN pp : IsPlan(pp[i])
    PROVE  IsPlan(FlattenSeq(pp))
  <1>1. IsSeqs(pp)
    BY DEF IsSeqs, IsPlan
  <1>2. IsSeq(FlattenSeq(pp)) /\ ToSet(FlattenSeq(pp)) = UNION {ToSet(pp[i]) : i \in DOMAIN pp}
    BY <1>1, FlattenFacts
  <1>3. \A x \in ToSet(FlattenSeq(pp)) : AreParsed(x)
    BY <1>2 DEF IsPlan
  <1> QED
    BY <1>2, <1>3 DEF IsPlan

LEMMA OneParsed ==
    ASSUME NEW items, AllParsed(items)
    PROVE  IsPlan(<<items>>)
  <1>1. <<items>> \in Seq({items}) /\ DOMAIN <<items>> = {1} /\ <<items>>[1] = items
    OBVIOUS
  <1>2. IsSeq(<<items>>) /\ \A x \in ToSet(<<items>>) : x = items
    BY <1>1 DEF IsSeq, ToSet
  <1> QED
    BY <1>2, ParsedList DEF IsPlan

LEMMA NamedByList ==
    ASSUME NEW list, IsSeq(list), NEW at
    PROVE  IsSeq(Keep(list, at)) /\ ToSet(Keep(list, at)) \subseteq ToSet(list)
  <1>1. /\ IsSeq(Keep(list, at))
        /\ \A i \in DOMAIN Keep(list, at) : \E j \in DOMAIN list : Keep(list, at)[i] = list[j]
    BY KeepFacts
  <1> QED
    BY <1>1 DEF ToSet

LEMMA SelectedFacts ==
    ASSUME ProjectOK, NEW bootstrap \in BOOLEAN, NEW named
    PROVE  LET targets == SelectConnections(bootstrap, named)
           IN  IsSeq(targets) /\ ToSet(targets) \subseteq ToSet(project.conns)
  <1> DEFINE targets == SelectConnections(bootstrap, named)
             conns == project.conns
  <1>1. IsSeq(conns) /\ DOMAIN conns = 1..Len(conns) /\ Len(conns) \in Nat
    BY ListIsSeq DEF ProjectOK
  <1>2. CASE named # None
    <2> DEFINE places == {i \in DOMAIN conns : conns[i] = named}
    <2>1. targets = Keep(conns, places)
      BY <1>2 DEF SelectConnections
    <2> HIDE DEF targets, places, conns
    <2> QED
      BY <1>1, <2>1, NamedByList DEF targets, conns
  <1>3. CASE named = None /\ bootstrap /\ conns # <<>>
    <2> DEFINE c == IF project.default \in ToSet(conns) THEN project.default ELSE conns[1]
    <2>1. targets = <<c>>
      BY <1>3 DEF SelectConnections
    <2>2. Len(conns) # 0
      <3>1. PICK S : conns \in Seq(S)
        BY <1>1 DEF IsSeq
      <3> QED
        BY <1>3, <3>1
    <2>3. c \in ToSet(conns)
      BY <1>1, <2>2 DEF ToSet
    <2> HIDE DEF c, targets
    <2>4. <<c>> \in Seq({c}) /\ DOMAIN <<c>> = {1} /\ <<c>>[1] = c
      OBVIOUS
    <2>5. IsSeq(<<c>>) /\ ToSet(<<c>>) = {c}
      BY <2>4 DEF IsSeq, ToSet
    <2> QED
      BY <2>1, <2>3, <2>5 DEF targets
  <1>4. CASE named = None /\ ~(bootstrap /\ conns # <<>>)
    BY <1>1, <1>4 DEF SelectConnections
  <1> QED
    BY <1>2, <1>3, <1>4

LEMMA NoEvidence ==
    ASSUME run.evidence = <<>>
    PROVE  EvidenceOK /\ DOMAIN run.evidence = {} /\ Len(run.evidence) = 0
  BY EmptyFacts DEF EvidenceOK

LEMMA DraftingInitially == DraftingInit => DraftingInv
  <1> SUFFICES ASSUME DraftingInit PROVE DraftingInv
    OBVIOUS
  <1> USE DEF DraftingInit
  <1>1. ProjectOK
    <2> DEFINE p == project
    <2>1. /\ p = [conns |-> p.conns, default |-> p.default, has |-> p.has, filter |-> p.filter,
                  outcomes |-> p.outcomes, sources |-> p.sources, metrics |-> p.metrics]
          /\ IsList(p.conns) /\ ToSet(p.conns) \subseteq Conns
          /\ p.filter \in [Conns -> {None} \cup SUBSET Relations]
          /\ \A c \in Conns : IsList(p.has[c]) /\ \A i \in DOMAIN p.has[c] : AllParsed(p.has[c][i].items)
          /\ AllParsed(p.outcomes)
      BY ProjectsAssumption
    <2>2. DOMAIN p = {"conns", "default", "has", "filter", "outcomes", "sources", "metrics"}
      <3>1. p = [conns |-> p.conns, default |-> p.default, has |-> p.has, filter |-> p.filter,
                  outcomes |-> p.outcomes, sources |-> p.sources, metrics |-> p.metrics]
        BY <2>1
      <3> QED
        BY <3>1
    <2> QED
      BY <2>1, <2>2 DEF ProjectOK
  <1>2. /\ DOMAIN run = RunFields /\ run.pc = "idle" /\ run.tries = 0 /\ run.evidence = <<>>
        /\ run.skipped = {} /\ run.at = 1 /\ run.plan = <<>> /\ run.index = <<>> /\ run.drafts = <<>>
        /\ run.pending = <<>> /\ run.ready = <<>> /\ run.added = <<>>
    BY DEF Idle, RunFields
  <1>3. RunOK
    <2>1. IsPlan(<<>>)
      BY EmptyFacts DEF IsPlan, ToSet
    <2>2. EvidenceOK /\ DOMAIN run.evidence = {} /\ Len(run.evidence) = 0
      BY <1>2, NoEvidence
    <2> QED
      BY <1>2, <2>1, <2>2, DraftingAssumption DEF RunOK, Before
  <1>4. Indexed /\ CandidatesOK
    BY <1>2 DEF Indexed, CandidatesOK, Before, Builds, Asks, After
  <1>5. Drafted
    BY <1>2, EmptyFacts DEF Drafted, Asks
  <1> QED
    BY <1>1, <1>3, <1>4, <1>5 DEF DraftingInv

\* A run that fails stays as it is.
LEMMA FailedKeeps ==
    ASSUME DraftingInv, ProjectOK', project'.conns = project.conns,
           open' \subseteq ToSet(project.conns),
           DOMAIN run' = RunFields, run'.pc = "failed", run'.tries \in 0..MaxRetries,
           run'.evidence = run.evidence, run'.skipped = run.skipped, run'.at = run.at,
           run'.plan = run.plan, run'.drafts = run.drafts
    PROVE  DraftingInv'
  <1>1. RunOK'
    BY SameStatements DEF DraftingInv, RunOK
  <1>2. Indexed' /\ CandidatesOK'
    BY DEF Indexed, CandidatesOK, Before, Builds, Asks, After
  <1>3. Drafted'
    BY SameDraft DEF DraftingInv, Drafted, Asks
  <1> QED
    BY <1>1, <1>2, <1>3 DEF DraftingInv

\* The connectors are created, or the run breaks off with some of them.
LEMMA BeginKeeps ==
    ASSUME DraftingInv, NEW pc \in {"gather", "failed"}, NEW headless, NEW created, IsSeq(created),
           NEW held, NEW plan, Begin(pc, headless, created, held, plan), IsPlan(plan), ProjectOK',
           project'.conns = project.conns, ToSet(created) \subseteq ToSet(project.conns)
    PROVE  DraftingInv'
  <1> DEFINE spare == ToSet(created) \ ToSet(held)
  <1>1. CASE /\ open' = ToSet(created)
             /\ run' = [Idle EXCEPT !.pc = pc, !.headless = headless, !.plan = plan,
                          !.held = held, !.spare = spare]
    <2> HIDE DEF spare
    <2>1. /\ DOMAIN run' = RunFields /\ run'.pc = pc /\ run'.tries = 0 /\ run'.evidence = <<>>
          /\ run'.skipped = {} /\ run'.at = 1 /\ run'.plan = plan /\ run'.index = <<>> /\ run'.drafts = <<>>
          /\ run'.pending = <<>> /\ run'.ready = <<>> /\ run'.added = <<>>
      BY <1>1 DEF Idle, RunFields
    <2>2. RunOK'
      <3>1. EvidenceOK' /\ DOMAIN run'.evidence = {} /\ Len(run'.evidence) = 0
        BY <2>1, EmptyFacts DEF EvidenceOK
      <3> QED
        BY <2>1, <3>1, DraftingAssumption DEF RunOK, Before
    <2>3. Indexed' /\ CandidatesOK'
      BY <2>1 DEF Indexed, CandidatesOK, Before, Builds, Asks, After
    <2>4. Drafted'
      BY <2>1, EmptyFacts DEF Drafted, Asks
    <2>5. open' \subseteq ToSet(project'.conns)
      BY <1>1
    <2> QED
      BY <2>2, <2>3, <2>4, <2>5 DEF DraftingInv
  <1>2. CASE \E n \in 0..Len(created) :
               /\ open' = {created[i] : i \in 1..n}
               /\ run' = [Failed(run) EXCEPT !.broken = TRUE]
    <2>1. PICK n \in 0..Len(created) :
               /\ open' = {created[i] : i \in 1..n}
               /\ run' = [Failed(run) EXCEPT !.broken = TRUE]
      BY <1>2
    <2>2. Len(created) \in Nat /\ DOMAIN created = 1..Len(created)
      BY SeqFacts
    <2>3. \A i \in 1..n : created[i] \in ToSet(created)
      BY <2>2 DEF ToSet
    <2>4. open' \subseteq ToSet(project.conns)
      BY <2>1, <2>3
    <2>5. /\ DOMAIN run' = RunFields /\ run'.pc = "failed" /\ run'.tries = run.tries
          /\ run'.evidence = run.evidence /\ run'.skipped = run.skipped /\ run'.at = run.at
          /\ run'.plan = run.plan /\ run'.drafts = run.drafts
      BY <2>1 DEF DraftingInv, RunOK, Failed, RunFields
    <2>6. run'.tries \in 0..MaxRetries
      BY <2>5 DEF DraftingInv, RunOK
    <2> QED
      BY <2>4, <2>5, <2>6, FailedKeeps
  <1> QED
    BY <1>1, <1>2 DEF Begin

LEMMA FailKeeps ==
    ASSUME DraftingInv, run' = Failed(run), project' = project, open' \subseteq ToSet(project.conns)
    PROVE  DraftingInv'
  <1>1. /\ DOMAIN run' = RunFields /\ run'.pc = "failed" /\ run'.tries = run.tries
        /\ run'.evidence = run.evidence /\ run'.skipped = run.skipped /\ run'.at = run.at
        /\ run'.plan = run.plan /\ run'.drafts = run.drafts
    BY DEF DraftingInv, RunOK, Failed, RunFields
  <1>2. run'.tries \in 0..MaxRetries
    BY <1>1 DEF DraftingInv, RunOK
  <1>3. ProjectOK' /\ project'.conns = project.conns
    BY DEF DraftingInv, ProjectOK
  <1> QED
    BY <1>1, <1>2, <1>3, FailedKeeps

LEMMA IngestKeeps == DraftingInv /\ Ingest => DraftingInv'
  <1> SUFFICES ASSUME DraftingInv, Ingest PROVE DraftingInv'
    OBVIOUS
  <1>1. PICK headless \in BOOLEAN, named \in {None} \cup Conns :
          LET targets == SelectConnections(FALSE, named)
          IN  IF targets = <<>> THEN run' = Failed(run) /\ UNCHANGED open
              ELSE Begin("gather", headless, targets, targets,
                     FlattenSeq([i \in DOMAIN targets |->
                       GatherCalls(targets[i], Seams, project.filter[targets[i]])])
                     \o <<project.outcomes>>)
    BY DEF Ingest
  <1> DEFINE targets == SelectConnections(FALSE, named)
             parts == [i \in DOMAIN targets |-> GatherCalls(targets[i], Seams, project.filter[targets[i]])]
  <1>2. project' = project /\ ProjectOK /\ open \subseteq ToSet(project.conns)
    BY DEF Ingest, DraftingInv
  <1>3. IsSeq(targets) /\ ToSet(targets) \subseteq ToSet(project.conns)
    BY <1>2, SelectedFacts
  <1> HIDE DEF targets
  <1>4. CASE targets = <<>>
    <2>1. run' = Failed(run) /\ open' = open
      BY <1>1, <1>4 DEF targets
    <2> QED
      BY <1>2, <2>1, FailKeeps
  <1>5. CASE targets # <<>>
    <2>1. Begin("gather", headless, targets, targets, FlattenSeq(parts) \o <<project.outcomes>>)
      BY <1>1, <1>5 DEF targets
    <2>2. ASSUME NEW i \in DOMAIN targets PROVE IsPlan(parts[i])
      <3>1. targets[i] \in Conns
        BY <1>2, <1>3 DEF ToSet, ProjectOK
      <3> QED
        BY <1>2, <3>1, CallsArePlan
    <2>3. IsSeq(parts) /\ DOMAIN parts = DOMAIN targets
      BY <1>3, SameDomain
    <2> HIDE DEF parts
    <2>4. IsPlan(FlattenSeq(parts))
      BY <2>2, <2>3, PlansFlatten
    <2>5. IsPlan(<<project.outcomes>>)
      BY <1>2, OneParsed DEF ProjectOK
    <2>6. IsPlan(FlattenSeq(parts) \o <<project.outcomes>>)
      BY <2>4, <2>5, PlansJoin
    <2>7. ProjectOK'
      BY <1>2 DEF ProjectOK
    <2> QED
      BY <1>2, <1>3, <2>1, <2>6, <2>7, BeginKeeps
  <1> QED
    BY <1>4, <1>5

LEMMA BootstrapKeeps == DraftingInv /\ Bootstrap => DraftingInv'
  <1> SUFFICES ASSUME DraftingInv, Bootstrap PROVE DraftingInv'
    OBVIOUS
  <1>1. PICK headless \in BOOLEAN, named \in {None} \cup Conns :
         LET targets == SelectConnections(TRUE, named)
             others == Keep(project.conns, {i \in DOMAIN project.conns :
                         project.conns[i] # targets[1]})
             rest == Keep(project.conns, {i \in DOMAIN project.conns :
                       /\ project.conns[i] # targets[1]
                       /\ HasCapability(project.conns[i], "extract_definitions")})
         IN  IF targets = <<>> THEN run' = Failed(run) /\ UNCHANGED open
             ELSE Begin(IF HasCapability(targets[1], "introspect_schema") THEN "gather" ELSE "failed",
                    headless, <<targets[1]>> \o others, <<targets[1]>> \o rest,
                    GatherCalls(targets[1], {"introspect_schema"}, project.filter[targets[1]])
                    \o FlattenSeq([i \in DOMAIN rest |->
                         GatherCalls(rest[i], {"extract_definitions"}, None)]))
    BY DEF Bootstrap
  <1> DEFINE targets == SelectConnections(TRUE, named)
             c == targets[1]
             places == {i \in DOMAIN project.conns :
                          /\ project.conns[i] # c
                          /\ HasCapability(project.conns[i], "extract_definitions")}
             rest == Keep(project.conns, places)
             one == GatherCalls(c, {"introspect_schema"}, project.filter[c])
             parts == [i \in DOMAIN rest |-> GatherCalls(rest[i], {"extract_definitions"}, None)]
             plan == one \o FlattenSeq(parts)
             others == Keep(project.conns, {i \in DOMAIN project.conns : project.conns[i] # c})
             pc == IF HasCapability(c, "introspect_schema") THEN "gather" ELSE "failed"
             created == <<c>> \o others
             held == <<c>> \o rest
  <1>2. project' = project /\ ProjectOK /\ open \subseteq ToSet(project.conns)
    BY DEF Bootstrap, DraftingInv
  <1>3. IsSeq(targets) /\ ToSet(targets) \subseteq ToSet(project.conns)
    BY <1>2, SelectedFacts
  <1>4. IF targets = <<>> THEN run' = Failed(run) /\ UNCHANGED open
        ELSE Begin(pc, headless, created, held, plan)
    BY <1>1
  <1>5. /\ IsSeq(rest) /\ ToSet(rest) \subseteq ToSet(project.conns)
        /\ IsSeq(others) /\ ToSet(others) \subseteq ToSet(project.conns)
    <2>1. IsSeq(project.conns)
      BY <1>2, ListIsSeq DEF ProjectOK
    <2> HIDE DEF places
    <2> QED
      BY <2>1, NamedByList
  <1> HIDE DEF targets, rest, others
  <1>6. CASE targets = <<>>
    <2>1. run' = Failed(run) /\ open' = open
      BY <1>4, <1>6
    <2> QED
      BY <1>2, <2>1, FailKeeps
  <1>7. CASE targets # <<>>
    <2>1. c \in ToSet(project.conns) /\ c \in Conns
      <3>1. PICK S : targets \in Seq(S)
        BY <1>3 DEF IsSeq
      <3>2. 1 \in DOMAIN targets
        BY <1>7, <3>1
      <3> QED
        BY <1>2, <1>3, <3>2 DEF ToSet, ProjectOK
    <2>2. IsSeq(created) /\ ToSet(created) \subseteq ToSet(project.conns)
      <3>1. <<c>> \in Seq({c}) /\ DOMAIN <<c>> = {1} /\ <<c>>[1] = c
        OBVIOUS
      <3>2. IsSeq(<<c>>) /\ ToSet(<<c>>) = {c}
        BY <3>1 DEF IsSeq, ToSet
      <3>3. IsSeq(<<c>> \o others) /\ ToSet(<<c>> \o others) = ToSet(<<c>>) \cup ToSet(others)
        BY <1>5, <3>2, ConcatFacts
      <3> QED
        BY <1>5, <2>1, <3>2, <3>3
    <2> HIDE DEF c, created, held
    <2>3. Begin(pc, headless, created, held, plan) /\ pc \in {"gather", "failed"}
      BY <1>4, <1>7
    <2>4. ASSUME NEW i \in DOMAIN rest PROVE IsPlan(parts[i])
      <3>1. rest[i] \in Conns
        BY <1>2, <1>5 DEF ToSet, ProjectOK
      <3> QED
        BY <1>2, <3>1, CallsArePlan
    <2>5. IsSeq(parts) /\ DOMAIN parts = DOMAIN rest
      BY <1>5, SameDomain
    <2>6. IsPlan(one)
      BY <1>2, <2>1, CallsArePlan
    <2> HIDE DEF parts, one
    <2>7. IsPlan(FlattenSeq(parts))
      BY <2>4, <2>5, PlansFlatten
    <2>8. IsPlan(plan)
      BY <2>6, <2>7, PlansJoin
    <2>9. ProjectOK'
      BY <1>2 DEF ProjectOK
    <2> HIDE DEF plan, pc
    <2> QED
      BY <1>2, <2>2, <2>3, <2>8, <2>9, BeginKeeps
  <1> QED
    BY <1>6, <1>7

LEMMA AddTablesKeeps == DraftingInv /\ AddTables => DraftingInv'
  <1> SUFFICES ASSUME DraftingInv, AddTables PROVE DraftingInv'
    OBVIOUS
  <1> DEFINE Found(c) == {e \in UNION {ToSet(project.has[c][i].items) : i \in DOMAIN project.has[c]} :
                            e.k = "schema" /\ e.conn = c}
             Tables(c) == {e.rel : e \in Found(c)} \ {s.name : s \in project.sources}
  <1>1. PICK headless \in BOOLEAN, c \in ToSet(project.conns) :
          \E chosen \in (SUBSET Tables(c)) \ {{}} :
            LET scope == IF project.filter[c] = None THEN chosen ELSE project.filter[c] \cup chosen
            IN  /\ project' = IF project.filter[c] = None THEN project
                              ELSE [project EXCEPT !.filter[c] = scope]
                /\ Begin("gather", headless, <<c>>, <<c>>,
                         GatherCalls(c, Seams, scope) \o <<project.outcomes>>)
    BY DEF AddTables
  <1>2. PICK chosen \in SUBSET Tables(c) :
            LET scope == IF project.filter[c] = None THEN chosen ELSE project.filter[c] \cup chosen
            IN  /\ project' = IF project.filter[c] = None THEN project
                              ELSE [project EXCEPT !.filter[c] = scope]
                /\ Begin("gather", headless, <<c>>, <<c>>,
                         GatherCalls(c, Seams, scope) \o <<project.outcomes>>)
    BY <1>1
  <1> DEFINE scope == IF project.filter[c] = None THEN chosen ELSE project.filter[c] \cup chosen
             plan == GatherCalls(c, Seams, scope) \o <<project.outcomes>>
  <1>3. ProjectOK /\ c \in Conns
    BY DEF DraftingInv, ProjectOK
  <1>4. \A e \in Found(c) : e.rel \in Relations
    <2> SUFFICES ASSUME NEW e \in Found(c) PROVE e.rel \in Relations
      OBVIOUS
    <2>1. PICK i \in DOMAIN project.has[c] : e \in ToSet(project.has[c][i].items)
      OBVIOUS
    <2>2. AreParsed(project.has[c][i].items)
      BY <1>3, <2>1, ParsedList DEF ProjectOK
    <2> QED
      BY <2>1, <2>2 DEF AreParsed, Parsed
  <1>5. chosen \subseteq Relations
    BY <1>4
  <1> HIDE DEF Tables, Found
  <1>6. IsPlan(plan)
    <2>1. IsPlan(GatherCalls(c, Seams, scope))
      BY <1>3, CallsArePlan
    <2>2. IsPlan(<<project.outcomes>>)
      BY <1>3, OneParsed DEF ProjectOK
    <2> QED
      BY <2>1, <2>2, PlansJoin
  <1>7. ProjectOK' /\ project'.conns = project.conns
    <2>1. CASE project.filter[c] = None
      <3>1. project' = project
        BY <1>2, <2>1
      <3> QED
        BY <1>3, <3>1 DEF ProjectOK
    <2>2. CASE project.filter[c] # None
      <3> DEFINE wider == [project.filter EXCEPT ![c] = scope]
      <3>1. project' = [project EXCEPT !.filter = wider]
        BY <1>2, <2>2
      <3>2. wider \in [Conns -> {None} \cup SUBSET Relations]
        BY <1>3, <1>5, <2>2 DEF ProjectOK
      <3> HIDE DEF wider
      <3>3. /\ DOMAIN project' = DOMAIN project /\ project'.conns = project.conns
            /\ project'.has = project.has /\ project'.outcomes = project.outcomes
            /\ project'.filter = wider
        BY <1>3, <3>1 DEF ProjectOK
      <3> QED
        BY <1>3, <3>2, <3>3 DEF ProjectOK
    <2> QED
      BY <2>1, <2>2
  <1>8. Begin("gather", headless, <<c>>, <<c>>, plan)
    BY <1>2
  <1>9. IsSeq(<<c>>) /\ ToSet(<<c>>) = {c}
    <2>1. <<c>> \in Seq({c}) /\ DOMAIN <<c>> = {1} /\ <<c>>[1] = c
      OBVIOUS
    <2> QED
      BY <2>1 DEF IsSeq, ToSet
  <1> HIDE DEF plan
  <1> QED
    BY <1>6, <1>7, <1>8, <1>9, BeginKeeps

LEMMA TailFacts ==
    ASSUME NEW s, IsSeq(s), s # <<>>
    PROVE  /\ IsSeq(Tail(s)) /\ Head(s) \in ToSet(s) /\ ToSet(s) = {Head(s)} \cup ToSet(Tail(s))
           /\ Len(s) = Len(Tail(s)) + 1
  <1>1. PICK S : s \in Seq(S)
    BY DEF IsSeq
  <1>2. Tail(s) \in Seq(S) /\ Len(s) \in Nat /\ Len(s) # 0 /\ Len(Tail(s)) = Len(s) - 1
    BY <1>1
  <1>3. DOMAIN s = 1..Len(s) /\ DOMAIN Tail(s) = 1..(Len(s) - 1) /\ Head(s) = s[1]
    BY <1>1, <1>2
  <1>4. \A i \in 1..(Len(s) - 1) : Tail(s)[i] = s[i + 1]
    BY <1>1, <1>2
  <1>5. ASSUME NEW i \in DOMAIN s PROVE s[i] \in {Head(s)} \cup ToSet(Tail(s))
    <2>1. CASE i = 1
      BY <1>3, <2>1
    <2>2. CASE i # 1
      <3>1. i - 1 \in 1..(Len(s) - 1) /\ (i - 1) + 1 = i
        BY <1>2, <1>3, <2>2
      <3> QED
        BY <1>3, <1>4, <3>1 DEF ToSet
    <2> QED
      BY <2>1, <2>2
  <1>6. ASSUME NEW i \in DOMAIN Tail(s) PROVE Tail(s)[i] \in ToSet(s)
    <2>1. i + 1 \in DOMAIN s
      BY <1>2, <1>3
    <2> QED
      BY <1>3, <1>4, <2>1 DEF ToSet
  <1>7. Head(s) \in ToSet(s)
    BY <1>2, <1>3 DEF ToSet
  <1>8. ToSet(s) = {Head(s)} \cup ToSet(Tail(s))
    <2>1. ToSet(s) \subseteq {Head(s)} \cup ToSet(Tail(s))
      BY <1>5 DEF ToSet
    <2>2. ToSet(Tail(s)) \subseteq ToSet(s)
      BY <1>6 DEF ToSet
    <2> QED
      BY <1>7, <2>1, <2>2
  <1> QED
    BY <1>2, <1>7, <1>8 DEF IsSeq

LEMMA GatherKeeps == DraftingInv /\ Gather => DraftingInv'
  <1> SUFFICES ASSUME DraftingInv, Gather PROVE DraftingInv'
    OBVIOUS
  <1>1. run.pc = "gather" /\ run.plan # <<>> /\ project' = project /\ open' = open
    BY DEF Gather
  <1>2. CASE run' = Failed(run)
    BY <1>1, <1>2, FailKeeps DEF DraftingInv
  <1>3. CASE run' = [run EXCEPT !.plan = Tail(@), !.evidence = @ \o Head(run.plan)]
    <2> DEFINE more == Head(run.plan)
    <2>1. /\ DOMAIN run' = RunFields /\ run'.plan = Tail(run.plan) /\ run'.evidence = run.evidence \o more
          /\ run'.pc = "gather" /\ run'.tries = run.tries /\ run'.skipped = run.skipped
          /\ run'.at = run.at /\ run'.index = run.index /\ run'.drafts = run.drafts
          /\ run'.pending = run.pending /\ run'.ready = run.ready /\ run'.added = run.added
      BY <1>1, <1>3 DEF DraftingInv, RunOK, RunFields
    <2>2. IsPlan(run.plan) /\ AreParsed(more) /\ IsPlan(Tail(run.plan))
      BY <1>1, TailFacts DEF DraftingInv, RunOK, IsPlan
    <2>3. AreParsed(run.evidence)
      BY DEF DraftingInv, RunOK, EvidenceOK, AreParsed, ToSet
    <2>4. AreParsed(run'.evidence)
      <3>1. IsSeq(run.evidence) /\ IsSeq(more)
        BY <2>2, <2>3 DEF AreParsed
      <3>2. /\ IsSeq(run.evidence \o more)
            /\ ToSet(run.evidence \o more) = ToSet(run.evidence) \cup ToSet(more)
        BY <3>1, ConcatFacts
      <3> QED
        BY <2>1, <2>2, <2>3, <3>2 DEF AreParsed
    <2>5. /\ run.skipped = {} /\ run.at = 1 /\ run.index = <<>> /\ run.drafts = <<>> /\ run.pending = <<>>
          /\ run.ready = <<>> /\ run.added = <<>> /\ run.tries \in 0..MaxRetries
      BY <1>1 DEF DraftingInv, RunOK, Indexed, CandidatesOK, Before
    <2>6. RunOK'
      <3>1. EvidenceOK'
        BY <2>4 DEF EvidenceOK, AreParsed, ToSet
      <3>2. Len(run'.evidence) \in Nat
        BY <2>4, SeqFacts DEF AreParsed
      <3>3. run'.at \in 1..(Len(run'.evidence) + 1)
        <4>1. run'.at = 1
          BY <2>1, <2>5
        <4> QED
          BY <3>2, <4>1
      <3> QED
        BY <2>1, <2>2, <2>5, <3>1, <3>3 DEF RunOK, Before
    <2>7. Indexed' /\ CandidatesOK'
      BY <2>1, <2>5 DEF Indexed, CandidatesOK, Before, Builds, Asks, After
    <2>8. Drafted'
      BY <2>1, <2>5, EmptyFacts DEF Drafted, Asks
    <2>9. ProjectOK' /\ open' \subseteq ToSet(project'.conns)
      BY <1>1 DEF DraftingInv, ProjectOK
    <2> QED
      BY <2>6, <2>7, <2>8, <2>9 DEF DraftingInv
  <1> QED
    BY <1>2, <1>3 DEF Gather

LEMMA GatheredKeeps == DraftingInv /\ Gathered => DraftingInv'
  <1> SUFFICES ASSUME DraftingInv, Gathered PROVE DraftingInv'
    OBVIOUS
  <1>1. run.pc = "gather" /\ project' = project /\ open' = open /\ run' = [run EXCEPT !.pc = "place"]
    BY DEF Gathered
  <1>2. /\ DOMAIN run' = RunFields /\ run'.plan = run.plan /\ run'.evidence = run.evidence
        /\ run'.pc = "place" /\ run'.tries = run.tries /\ run'.skipped = run.skipped
        /\ run'.at = run.at /\ run'.index = run.index /\ run'.drafts = run.drafts
        /\ run'.pending = run.pending /\ run'.ready = run.ready /\ run'.added = run.added
    BY <1>1 DEF DraftingInv, RunOK, RunFields
  <1>3. /\ run.skipped = {} /\ run.at = 1 /\ run.index = <<>> /\ run.drafts = <<>> /\ run.pending = <<>>
        /\ run.ready = <<>> /\ run.added = <<>>
    BY <1>1 DEF DraftingInv, Indexed, CandidatesOK, Before
  <1>4. RunOK'
    BY <1>2, SameStatements DEF DraftingInv, RunOK
  <1>5. Indexed'
    <2>1. IndexOK(<<>>, 0, {})'
      BY <1>2, NoIndex, SameIndex
    <2>2. IndexOK(run.index, run.at - 1, run.skipped)'
      BY <1>2, <1>3, <2>1
    <2> QED
      BY <1>2, <1>3, <2>2 DEF Indexed, Before, Builds, Asks, After
  <1>6. CandidatesOK'
    BY <1>2, <1>3 DEF CandidatesOK, Before, Builds, Asks, After
  <1>7. Drafted'
    BY <1>2, <1>3, EmptyFacts DEF Drafted, Asks
  <1>8. ProjectOK' /\ open' \subseteq ToSet(project'.conns)
    BY <1>1 DEF DraftingInv, ProjectOK
  <1> QED
    BY <1>4, <1>5, <1>6, <1>7, <1>8 DEF DraftingInv

-----------------------------------------------------------------------------
(* Drafting: placing                                                        *)

LEMMA PlacedKeeps ==
    ASSUME DraftingInv, Placing, NEW ix, NEW unplaced, Placed(ix, unplaced),
           NEW more, more = IF unplaced THEN run.skipped \cup {run.at} ELSE run.skipped,
           IndexOK(ix, run.at, more)
    PROVE  DraftingInv'
  <1>1. run.pc = "place" /\ run.at <= Len(run.evidence) /\ project' = project /\ open' = open
    BY DEF Placing, Placed
  <1>2. run' = [run EXCEPT !.at = @ + 1, !.index = ix, !.skipped = more]
    BY DEF Placed
  <1>3. /\ DOMAIN run' = RunFields /\ run'.plan = run.plan /\ run'.evidence = run.evidence
        /\ run'.pc = "place" /\ run'.tries = run.tries /\ run'.skipped = more
        /\ run'.at = run.at + 1 /\ run'.index = ix /\ run'.drafts = run.drafts
        /\ run'.pending = run.pending /\ run'.ready = run.ready /\ run'.added = run.added
    BY <1>1, <1>2 DEF DraftingInv, RunOK, RunFields
  <1>4. EvidenceOK /\ run.at \in 1..(Len(run.evidence) + 1) /\ run.skipped \subseteq DOMAIN run.evidence
    BY DEF DraftingInv, RunOK
  <1>5. Len(run.evidence) \in Nat /\ DOMAIN run.evidence = 1..Len(run.evidence)
    BY <1>4, SeqFacts DEF EvidenceOK
  <1>6. RunOK'
    <2>1. run.at + 1 \in 1..(Len(run.evidence) + 1) /\ run.at \in DOMAIN run.evidence
      BY <1>1, <1>4, <1>5
    <2>2. more \subseteq DOMAIN run.evidence
      BY <1>4, <2>1
    <2> QED
      BY <1>3, <2>1, <2>2, SameStatements DEF DraftingInv, RunOK, Before
  <1>7. Indexed'
    <2>1. run.drafts = <<>>
      BY <1>1 DEF DraftingInv, Indexed
    <2>2. IndexOK(run.index, run.at - 1, run.skipped)'
      <3>1. PICK n : n = run.at
        OBVIOUS
      <3>2. IndexOK(ix, n, more)'
        BY <1>3, <3>1, SameIndex
      <3>3. n = run'.at - 1
        BY <1>3, <1>4, <3>1
      <3> QED
        BY <1>3, <3>2, <3>3
    <2> QED
      BY <1>3, <2>1, <2>2 DEF Indexed, Before, Builds, Asks, After
  <1>8. CandidatesOK'
    BY <1>1, <1>3 DEF DraftingInv, CandidatesOK, Before, Builds, Asks, After
  <1>9. Drafted'
    BY <1>1, <1>3, EmptyFacts DEF DraftingInv, Indexed, Drafted, Asks
  <1>10. ProjectOK' /\ open' \subseteq ToSet(project'.conns)
    BY <1>1 DEF DraftingInv, ProjectOK
  <1> QED
    BY <1>6, <1>7, <1>8, <1>9, <1>10 DEF DraftingInv

\* What every placing step starts from.
LEMMA PlacingFacts ==
    ASSUME DraftingInv, Placing
    PROVE  \E n \in Nat : /\ n + 1 = run.at /\ IndexOK(run.index, n, run.skipped)
                          /\ Parsed(run.evidence[n + 1])
  <1>1. run.pc = "place" /\ run.at <= Len(run.evidence)
    BY DEF Placing
  <1>2. EvidenceOK /\ run.at \in 1..(Len(run.evidence) + 1) /\ IndexOK(run.index, run.at - 1, run.skipped)
    BY <1>1 DEF DraftingInv, RunOK, Indexed
  <1>3. Len(run.evidence) \in Nat /\ DOMAIN run.evidence = 1..Len(run.evidence)
    BY <1>2, SeqFacts DEF EvidenceOK
  <1>4. PICK n \in Nat : n = run.at - 1 /\ n + 1 = run.at
    BY <1>2, <1>3
  <1>5. n + 1 \in DOMAIN run.evidence
    BY <1>1, <1>2, <1>3, <1>4
  <1>6. IndexOK(run.index, n, run.skipped) /\ Parsed(run.evidence[n + 1])
    BY <1>2, <1>4, <1>5 DEF EvidenceOK
  <1> QED
    BY <1>4, <1>6

\* A definition that is well formed speaks of one relation.
LEMMA SpeaksOfOne ==
    ASSUME NEW e, e.k \in {"measure", "dimension"}, Parsed(e), NEW r, WellFormed(e, r), Known(r)
    PROVE  SingleRelation(e) /\ e.refs[1] = r
  BY DEF WellFormed, SingleRelation, Parsed

LEMMA PlaceMeasureKeeps == DraftingInv /\ PlaceMeasure => DraftingInv'
  <1> SUFFICES ASSUME DraftingInv, PlaceMeasure PROVE DraftingInv'
    OBVIOUS
  <1> DEFINE d == run.evidence[run.at]
             b == Bucket(run.index, d.refs[1])
             new == PutBucket(run.index,
                      [b EXCEPT !.measures = Adopt(@, d.entry),
                                !.noted = @ \/ Conflicts(b.measures, d.entry)
                                            \/ (d.flagged /\ ~Named(b.measures, d.entry.name))])
  <1>1. /\ Placing /\ d.k = "measure"
        /\ IF d.additivity = None \/ ~SingleRelation(d) THEN Placed(run.index, TRUE)
           ELSE Placed(new, Conflicts(b.measures, d.entry))
    BY DEF PlaceMeasure
  <1>2. PICK n \in Nat : /\ n + 1 = run.at /\ IndexOK(run.index, n, run.skipped)
                         /\ Parsed(run.evidence[n + 1])
    BY <1>1, PlacingFacts
  <1>3. d = run.evidence[n + 1] /\ Parsed(d)
    BY <1>2
  <1>4. CASE d.additivity = None \/ ~SingleRelation(d)
    <2> DEFINE more == run.skipped \cup {run.at}
    <2>1. Placed(run.index, TRUE)
      BY <1>1, <1>4
    <2>2. \A r : ~(Known(r) /\ WellFormed(run.evidence[n + 1], r))
      <3> SUFFICES ASSUME NEW r, Known(r), WellFormed(d, r) PROVE FALSE
        BY <1>3
      <3>1. SingleRelation(d)
        BY <1>1, <1>3, SpeaksOfOne
      <3>2. d.additivity # None
        BY <1>1 DEF WellFormed
      <3> QED
        BY <1>4, <3>1, <3>2
    <2>3. run.skipped \subseteq more /\ n + 1 \in more
      BY <1>2
    <2> HIDE DEF more
    <2>4. IndexOK(run.index, n + 1, more)
      <3>1. \A r : ~FlaggedOn(n + 1, r)
        BY <1>1, <1>3, NoFlaggedJoin
      <3> QED
        BY <1>2, <2>2, <2>3, <3>1, IndexPass
    <2>5. IndexOK(run.index, run.at, more)
      BY <1>2, <2>4
    <2> QED
      BY <1>1, <2>1, <2>5, PlacedKeeps DEF more
  <1>5. CASE d.additivity # None /\ SingleRelation(d)
    <2> DEFINE clash == Conflicts(b.measures, d.entry)
               more == IF clash THEN run.skipped \cup {run.at} ELSE run.skipped
    <2>1. Placed(new, clash)
      BY <1>1, <1>5
    <2>2. run.skipped \subseteq more /\ (clash => n + 1 \in more)
      BY <1>2
    <2> HIDE DEF more, d, b
    <2>3. IndexOK(new, n + 1, more)
      BY <1>1, <1>2, <1>3, <1>5, <2>2, MeasurePlaced, ZenonT(60) DEF b
    <2> HIDE DEF new
    <2>4. IndexOK(new, run.at, more)
      BY <1>2, <2>3
    <2> QED
      BY <1>1, <2>1, <2>4, PlacedKeeps DEF more
  <1> QED
    BY <1>4, <1>5

LEMMA PlaceDimensionKeeps == DraftingInv /\ PlaceDimension => DraftingInv'
  <1> SUFFICES ASSUME DraftingInv, PlaceDimension PROVE DraftingInv'
    OBVIOUS
  <1> DEFINE d == run.evidence[run.at]
             b == Bucket(run.index, d.refs[1])
             new == PutBucket(run.index,
                      [b EXCEPT !.dims = Adopt(@, d.entry),
                                !.noted = @ \/ Conflicts(b.dims, d.entry)])
  <1>1. /\ Placing /\ d.k = "dimension"
        /\ IF ~SingleRelation(d) \/ ~Readable(d) THEN Placed(run.index, TRUE)
           ELSE Placed(new, Conflicts(b.dims, d.entry))
    BY DEF PlaceDimension
  <1>2. PICK n \in Nat : /\ n + 1 = run.at /\ IndexOK(run.index, n, run.skipped)
                         /\ Parsed(run.evidence[n + 1])
    BY <1>1, PlacingFacts
  <1>3. d = run.evidence[n + 1] /\ Parsed(d)
    BY <1>2
  <1>4. CASE ~SingleRelation(d) \/ ~Readable(d)
    <2> DEFINE more == run.skipped \cup {run.at}
    <2>1. Placed(run.index, TRUE)
      BY <1>1, <1>4
    <2>2. \A r : ~(Known(r) /\ WellFormed(run.evidence[n + 1], r))
      <3> SUFFICES ASSUME NEW r, Known(r), WellFormed(d, r) PROVE FALSE
        BY <1>3
      <3>1. SingleRelation(d) /\ d.refs[1] = r
        BY <1>1, <1>3, SpeaksOfOne
      <3>2. d.entry.cols \subseteq Schema(r).cols /\ d.typed
        BY <1>1 DEF WellFormed
      <3> QED
        BY <1>4, <3>1, <3>2 DEF Readable
    <2>3. run.skipped \subseteq more /\ n + 1 \in more
      BY <1>2
    <2> HIDE DEF more
    <2>4. IndexOK(run.index, n + 1, more)
      <3>1. \A r : ~FlaggedOn(n + 1, r)
        BY <1>1, <1>3, NoFlaggedJoin
      <3> QED
        BY <1>2, <2>2, <2>3, <3>1, IndexPass
    <2>5. IndexOK(run.index, run.at, more)
      BY <1>2, <2>4
    <2> QED
      BY <1>1, <2>1, <2>5, PlacedKeeps DEF more
  <1>5. CASE SingleRelation(d) /\ Readable(d)
    <2> DEFINE clash == Conflicts(b.dims, d.entry)
               more == IF clash THEN run.skipped \cup {run.at} ELSE run.skipped
    <2>1. Placed(new, clash)
      BY <1>1, <1>5
    <2>2. run.skipped \subseteq more /\ (clash => n + 1 \in more)
      BY <1>2
    <2> HIDE DEF more, d, b
    <2>3. IndexOK(new, n + 1, more)
      BY <1>1, <1>2, <1>3, <1>5, <2>2, DimensionPlaced, ZenonT(60) DEF b
    <2> HIDE DEF new
    <2>4. IndexOK(new, run.at, more)
      BY <1>2, <2>3
    <2> QED
      BY <1>1, <2>1, <2>4, PlacedKeeps DEF more
  <1> QED
    BY <1>4, <1>5

LEMMA GreatestNatural ==
    ASSUME NEW m \in Nat, NEW S \in SUBSET (0..m), S # {}
    PROVE  \E x \in S : \A y \in S : y <= x
  <1> DEFINE T == {m - y : y \in S}
  <1>1. T \in SUBSET Nat /\ T # {}
    <2>1. \A y \in S : m - y \in Nat
      OBVIOUS
    <2>2. T \in SUBSET Nat
      BY <2>1
    <2>3. PICK y : y \in S
      OBVIOUS
    <2>4. m - y \in T
      BY <2>3
    <2> QED
      BY <2>2, <2>4
  <1> HIDE DEF T
  <1>2. PICK t \in T : \A u \in T : t <= u
    BY <1>1, LeastNatural
  <1>3. PICK x \in S : t = m - x
    BY DEF T
  <1>4. \A y \in S : m - x <= m - y
    BY <1>2, <1>3 DEF T
  <1> QED
    BY <1>4

LEMMA PlaceJoinKeeps == DraftingInv /\ PlaceJoin => DraftingInv'
  <1> SUFFICES ASSUME DraftingInv, PlaceJoin PROVE DraftingInv'
    OBVIOUS
  <1> DEFINE d == run.evidence[run.at]
             specs == Stated(d)
             good == {x \in 0..Len(specs) : \A i \in 1..x : SpecOK(specs[i])}
             m == CHOOSE x \in good : \A k \in good : k <= x
             f == CHOOSE g : SpecsPlaced(g, run.index, d, m)
             short == m < Len(specs)
  <1>1. Placing /\ d.k = "join" /\ Placed(f[m], short)
    BY DEF PlaceJoin, SpecsPlaced
  <1>2. PICK n \in Nat : /\ n + 1 = run.at /\ IndexOK(run.index, n, run.skipped)
                         /\ Parsed(run.evidence[n + 1])
    BY <1>1, PlacingFacts
  <1>3. d = run.evidence[n + 1] /\ Parsed(d)
    BY <1>2
  <1>4. Len(specs) \in Nat /\ DOMAIN specs = 1..Len(specs) /\ d.flagged \in BOOLEAN
    <2>1. IsSeq(d.specs) /\ d.flagged \in BOOLEAN
      BY <1>1, <1>3, ListIsSeq DEF Parsed
    <2> DEFINE places == {i \in DOMAIN d.specs : d.specs[i].on}
    <2>2. specs = Keep(d.specs, places)
      BY DEF Stated
    <2> HIDE DEF places, specs
    <2>3. IsSeq(specs)
      BY <2>1, <2>2, KeepFacts
    <2> QED
      BY <2>1, <2>3, SeqFacts
  <1> HIDE DEF d, specs
  <1>5. /\ m \in Nat /\ \A i \in 1..m : SpecOK(specs[i])
        /\ \A k \in DOMAIN specs : (\A i \in 1..k : SpecOK(specs[i])) => k \in 1..m
    <2>1. good \in SUBSET (0..Len(specs)) /\ 0 \in good
      BY <1>4
    <2>2. \A x \in good : x \in Nat /\ \A i \in 1..x : SpecOK(specs[i])
      BY <1>4
    <2>3. \A k \in DOMAIN specs : (\A i \in 1..k : SpecOK(specs[i])) => k \in good /\ k \in Nat /\ k >= 1
      BY <1>4
    <2> HIDE DEF good
    <2>4. \E x \in good : \A k \in good : k <= x
      BY <1>4, <2>1, GreatestNatural
    <2>5. m \in good /\ \A k \in good : k <= m
      BY <2>4
    <2> HIDE DEF m
    <2> QED
      BY <2>2, <2>3, <2>5
  <1> HIDE DEF m
  <1>6. SpecsPlaced(f, run.index, d, m)
    BY <1>5, SpecsPlacedExists
  <1> HIDE DEF f, short
  <1> DEFINE more == IF short THEN run.skipped \cup {run.at} ELSE run.skipped
  <1>7. run.skipped \subseteq more
    OBVIOUS
  <1>8. run.evidence[n + 1].k \notin {"measure", "dimension"}
    BY <1>1, <1>3
  <1> HIDE DEF more
  <1>9. /\ IndexOK(f[m], n, run.skipped)
        /\ IsFlagged(d) => \A i \in 1..m : IsNoted(f[m], specs[i].left)
    <2>1. \A i \in 1..m : SpecOK(Stated(d)[i])
      BY <1>5 DEF specs
    <2>2. /\ IndexOK(f[m], n, run.skipped)
          /\ IsFlagged(d) => \A i \in 1..m : IsNoted(f[m], Stated(d)[i].left)
      <3>1. PICK ix, sk : ix = run.index /\ sk = run.skipped
        OBVIOUS
      <3>2. IndexOK(ix, n, sk) /\ SpecsPlaced(f, ix, d, m)
        BY <1>2, <1>6, <3>1
      <3>3. d.flagged \in BOOLEAN /\ m \in Nat
        BY <1>4, <1>5
      <3>4. /\ IndexOK(f[m], n, sk)
            /\ IsFlagged(d) => \A i \in 1..m : IsNoted(f[m], Stated(d)[i].left)
        BY <2>1, <3>2, <3>3, SpecsKeep
      <3> QED
        BY <3>1, <3>4, Zenon
    <2> QED
      BY <2>2 DEF specs
  <1>10. ASSUME NEW r, FlaggedOn(n + 1, r) PROVE Bucket(f[m], r).noted = TRUE
    <2>1. IsFlagged(d) /\ JoinsFrom(d, r)
      BY <1>3, <1>4, <1>10 DEF FlaggedOn, IsFlagged
    <2>2. PICK k \in DOMAIN specs : specs[k].left = r /\ \A l \in 1..k : SpecOK(specs[l])
      BY <2>1 DEF JoinsFrom, specs
    <2>3. k \in 1..m
      BY <1>5, <2>2
    <2> QED
      BY <1>9, <2>1, <2>2, <2>3 DEF IsNoted
  <1>11. IndexOK(f[m], n + 1, more)
    BY <1>7, <1>8, <1>9, <1>10, IndexPass
  <1>12. IndexOK(f[m], run.at, more)
    BY <1>2, <1>11
  <1> QED
    BY <1>1, <1>12, PlacedKeeps DEF more

LEMMA PlaceEntityKeeps == DraftingInv /\ PlaceEntity => DraftingInv'
  <1> SUFFICES ASSUME DraftingInv, PlaceEntity PROVE DraftingInv'
    OBVIOUS
  <1> DEFINE d == run.evidence[run.at]
             m == Len(d.refs)
             f == CHOOSE g : GrainsPlaced(g, run.index, d, m)
  <1>1. Placing /\ d.k \in {"entity", "model"} /\ Placed(f[m], FALSE)
    BY DEF PlaceEntity, GrainsPlaced
  <1>2. PICK n \in Nat : /\ n + 1 = run.at /\ IndexOK(run.index, n, run.skipped)
                         /\ Parsed(run.evidence[n + 1])
    BY <1>1, PlacingFacts
  <1>3. d = run.evidence[n + 1] /\ Parsed(d)
    BY <1>2
  <1>4. m \in Nat
    BY <1>1, <1>3, ListIsSeq DEF Parsed
  <1> HIDE DEF d, m
  <1>5. GrainsPlaced(f, run.index, d, m)
    BY <1>4, GrainsPlacedExists
  <1> HIDE DEF f
  <1>6. run.evidence[n + 1].k \notin {"measure", "dimension"}
    BY <1>1, <1>3
  <1>7. IndexOK(run.index, n + 1, run.skipped)
    <2>1. \A r : ~FlaggedOn(n + 1, r)
      BY <1>1, <1>3, NoFlaggedJoin
    <2> QED
      BY <1>2, <1>6, <2>1, IndexPass
  <1>8. IndexOK(f[m], n + 1, run.skipped)
    BY <1>4, <1>5, <1>7, GrainsKeep
  <1>9. IndexOK(f[m], run.at, run.skipped)
    BY <1>2, <1>8
  <1> QED
    BY <1>1, <1>9, PlacedKeeps

LEMMA PassOverKeeps == DraftingInv /\ PassOver => DraftingInv'
  <1> SUFFICES ASSUME DraftingInv, PassOver PROVE DraftingInv'
    OBVIOUS
  <1>1. /\ Placing /\ Placed(run.index, FALSE)
        /\ run.evidence[run.at].k \notin {"measure", "dimension", "join", "entity", "model"}
    BY DEF PassOver
  <1>2. PICK n \in Nat : /\ n + 1 = run.at /\ IndexOK(run.index, n, run.skipped)
                         /\ Parsed(run.evidence[n + 1])
    BY <1>1, PlacingFacts
  <1>3. run.evidence[n + 1].k \notin {"measure", "dimension"}
    BY <1>1, <1>2
  <1>4. IndexOK(run.index, n + 1, run.skipped)
    <2>1. \A r : ~FlaggedOn(n + 1, r)
      BY <1>1, <1>2, NoFlaggedJoin
    <2> QED
      BY <1>2, <1>3, <2>1, IndexPass
  <1>5. IndexOK(run.index, run.at, run.skipped)
    BY <1>2, <1>4
  <1> QED
    BY <1>1, <1>5, PlacedKeeps

LEMMA AllPlacedKeeps == DraftingInv /\ AllPlaced => DraftingInv'
  <1> SUFFICES ASSUME DraftingInv, AllPlaced PROVE DraftingInv'
    OBVIOUS
  <1>1. /\ run.pc = "place" /\ run.at > Len(run.evidence) /\ project' = project /\ open' = open
        /\ run' = [run EXCEPT !.pc = "draft", !.at = 1]
    BY DEF AllPlaced
  <1>2. /\ DOMAIN run' = RunFields /\ run'.plan = run.plan /\ run'.evidence = run.evidence
        /\ run'.pc = "draft" /\ run'.tries = run.tries /\ run'.skipped = run.skipped
        /\ run'.at = 1 /\ run'.index = run.index /\ run'.drafts = run.drafts
        /\ run'.pending = run.pending /\ run'.ready = run.ready /\ run'.added = run.added
    BY <1>1 DEF DraftingInv, RunOK, RunFields
  <1>3. EvidenceOK /\ run.at \in 1..(Len(run.evidence) + 1) /\ IndexOK(run.index, run.at - 1, run.skipped)
    BY <1>1 DEF DraftingInv, RunOK, Indexed
  <1>4. Len(run.evidence) \in Nat
    BY <1>3, SeqFacts DEF EvidenceOK
  <1>5. RunOK'
    <2>1. 1 \in 1..(Len(run.evidence) + 1)
      BY <1>4
    <2> QED
      BY <1>2, <2>1, SameStatements DEF DraftingInv, RunOK, Builds
  <1>6. Indexed'
    <2>1. run.at - 1 = Len(run.evidence)
      BY <1>1, <1>3, <1>4
    <2>2. PICK n, ix, sk : n = Len(run.evidence) /\ ix = run.index /\ sk = run.skipped
      OBVIOUS
    <2>3. IndexOK(ix, n, sk)
      BY <1>3, <2>1, <2>2
    <2>4. IndexOK(ix, n, sk)'
      BY <1>2, <2>3, SameIndex
    <2>5. IndexOK(run.index, Len(run.evidence), run.skipped)'
      BY <1>2, <2>2, <2>4
    <2> QED
      BY <1>2, <2>5 DEF Indexed, Before, Builds, Asks, After
  <1>7. CandidatesOK'
    BY <1>1, <1>2 DEF DraftingInv, CandidatesOK, Before, Builds, Asks, After
  <1>8. Drafted'
    BY <1>1, <1>2, EmptyFacts DEF DraftingInv, Indexed, Drafted, Asks
  <1>9. ProjectOK' /\ open' \subseteq ToSet(project'.conns)
    BY <1>1 DEF DraftingInv, ProjectOK
  <1> QED
    BY <1>5, <1>6, <1>7, <1>8, <1>9 DEF DraftingInv

-----------------------------------------------------------------------------
(* Drafting: drafts                                                         *)

\* A step among the states in which relations become drafts.
LEMMA BuildsKeeps ==
    ASSUME DraftingInv, run.pc \in Builds, project' = project, open' = open,
           DOMAIN run' = RunFields, run'.pc \in Builds, run'.tries \in 0..MaxRetries,
           run'.evidence = run.evidence, run.skipped \subseteq run'.skipped,
           run'.skipped \subseteq DOMAIN run.evidence, run'.at \in 1..(Len(run.evidence) + 1),
           run'.plan = run.plan, run'.index = run.index, run'.pending = run.pending,
           run'.ready = run.ready, run'.added = run.added, Drafted'
    PROVE  DraftingInv'
  <1>1. RunOK'
    BY SameStatements DEF DraftingInv, RunOK
  <1>2. Indexed'
    <2>1. IndexOK(run.index, Len(run.evidence), run.skipped)
      BY DEF DraftingInv, Indexed
    <2>2. PICK n, ix, sk : n = Len(run.evidence) /\ ix = run.index /\ sk = run'.skipped
      OBVIOUS
    <2>3. IndexOK(ix, n, sk)
      BY <2>1, <2>2, IndexSkips
    <2>4. IndexOK(ix, n, sk)'
      BY <2>3, SameIndex
    <2>5. IndexOK(run.index, Len(run.evidence), run.skipped)'
      BY <2>2, <2>4
    <2> QED
      BY <2>5 DEF Indexed, Before, Builds, Asks, After
  <1>3. CandidatesOK'
    BY DEF DraftingInv, CandidatesOK, Before, Builds, Asks, After
  <1>4. ProjectOK' /\ open' \subseteq ToSet(project'.conns)
    BY DEF DraftingInv, ProjectOK
  <1> QED
    BY <1>1, <1>2, <1>3, <1>4 DEF DraftingInv

\* r differs from the run in its draft, its tries and its place in the code only.
Alike(r) ==
    /\ DOMAIN r = RunFields /\ r.tries \in 0..MaxRetries
    /\ r.evidence = run.evidence /\ r.skipped = run.skipped /\ r.at = run.at /\ r.plan = run.plan
    /\ r.index = run.index /\ r.drafts = run.drafts /\ r.pending = run.pending
    /\ r.ready = run.ready /\ r.added = run.added

LEMMA BuildingFacts ==
    ASSUME DraftingInv, run.pc \in Builds
    PROVE  /\ AllOnIndex /\ run.skipped \subseteq DOMAIN run.evidence
           /\ Len(run.evidence) \in Nat /\ DOMAIN run.evidence = 1..Len(run.evidence)
           /\ run.at \in 1..(Len(run.evidence) + 1)
  <1>1. AllOnIndex /\ run.skipped \subseteq DOMAIN run.evidence /\ run.at \in 1..(Len(run.evidence) + 1)
    BY DEF DraftingInv, Indexed, RunOK, AllOnIndex
  <1> QED
    BY <1>1, SeqFacts DEF AllOnIndex, EvidenceOK

LEMMA AskedKeeps ==
    ASSUME DraftingInv, run.pc \in Builds, project' = project, open' = open,
           Alike(run'), run'.pc \in Asks, InProgress(run'.draft)
    PROVE  DraftingInv'
  <1>1. AllOnIndex /\ run.skipped \subseteq DOMAIN run.evidence /\ run.at \in 1..(Len(run.evidence) + 1)
    BY BuildingFacts
  <1>2. Drafted'
    <2>1. run'.evidence = run.evidence /\ run'.skipped = run.skipped /\ run'.at = run.at /\ run'.drafts = run.drafts
      BY DEF Alike
    <2>2. PICK d : d = run'.draft
      OBVIOUS
    <2>3. InProgress(d)'
      BY <2>1, <2>2, SameProgress
    <2>4. InProgress(run.draft)'
      BY <2>2, <2>3
    <2>5. IsSeq(run.drafts) /\ \A i \in DOMAIN run.drafts : DraftOK(run.drafts[i])
      BY DEF DraftingInv, Drafted
    <2>6. \A d1 : DraftOK(d1) => DraftOK(d1)'
      BY <2>1, SameDraft
    <2>7. PICK ds : ds = run.drafts
      OBVIOUS
    <2>8. \A i \in DOMAIN ds : DraftOK(ds[i])'
      BY <2>5, <2>6, <2>7
    <2> QED
      BY <2>1, <2>4, <2>5, <2>7, <2>8 DEF Drafted
  <1> QED
    BY <1>1, <1>2, BuildsKeeps DEF Alike, Builds

LEMMA FinishedKeeps ==
    ASSUME DraftingInv, run.pc \in Builds, project' = project, open' = open,
           NEW r, Alike(r), InProgress(r.draft), NEW s, s = run.evidence[run.at], NEW guesses,
           GuessesOK(s, Bucket(run.index, s.rel), guesses), run' = Finished(r, guesses)
    PROVE  DraftingInv'
  <1> DEFINE c == Complete(r, guesses)
  <1>1. /\ AllOnIndex /\ run.skipped \subseteq DOMAIN run.evidence /\ Len(run.evidence) \in Nat
        /\ DOMAIN run.evidence = 1..Len(run.evidence)
    BY BuildingFacts
  <1>2. run.at \in DOMAIN run.evidence
    BY DEF InProgress
  <1>3. DraftOK(c)
    BY <1>1, CompletedDraft DEF Alike
  <1> HIDE DEF c
  <1>4. run' = [r EXCEPT !.pc = "draft", !.at = @ + 1, !.draft = None, !.tries = 0,
                         !.drafts = Append(@, c)]
    BY DEF Finished, c
  <1>5. /\ DOMAIN run' = RunFields /\ run'.pc = "draft" /\ run'.tries = 0 /\ run'.evidence = r.evidence
        /\ run'.skipped = r.skipped /\ run'.at = r.at + 1 /\ run'.plan = r.plan /\ run'.index = r.index
        /\ run'.pending = r.pending /\ run'.ready = r.ready /\ run'.added = r.added
        /\ run'.drafts = Append(r.drafts, c)
    BY <1>4 DEF Alike, RunFields
  <1>6. /\ run'.evidence = run.evidence /\ run'.skipped = run.skipped /\ run'.at = run.at + 1
        /\ run'.plan = run.plan /\ run'.index = run.index /\ run'.pending = run.pending
        /\ run'.ready = run.ready /\ run'.added = run.added /\ run'.drafts = Append(run.drafts, c)
    BY <1>5 DEF Alike
  <1>7. Drafted'
    <2>1. IsSeq(run.drafts) /\ \A i \in DOMAIN run.drafts : DraftOK(run.drafts[i])
      BY DEF DraftingInv, Drafted
    <2>2. \A d : DraftOK(d) => DraftOK(d)'
      BY <1>6, SameDraft
    <2>3. PICK ds : ds = run'.drafts
      OBVIOUS
    <2>4. /\ IsSeq(ds) /\ DOMAIN ds = 1..(Len(run.drafts) + 1) /\ ds[Len(run.drafts) + 1] = c
          /\ \A i \in 1..Len(run.drafts) : ds[i] = run.drafts[i]
      BY <1>6, <2>1, <2>3, AppendFacts
    <2>5. Len(run.drafts) \in Nat /\ DOMAIN run.drafts = 1..Len(run.drafts)
      BY <2>1, SeqFacts
    <2>6. \A i \in DOMAIN ds : DraftOK(ds[i])
      <3> SUFFICES ASSUME NEW i \in DOMAIN ds PROVE DraftOK(ds[i])
        OBVIOUS
      <3>1. CASE i \in 1..Len(run.drafts)
        BY <2>1, <2>4, <2>5, <3>1
      <3>2. CASE i = Len(run.drafts) + 1
        BY <1>3, <2>4, <3>2
      <3> QED
        BY <2>4, <2>5, <3>1, <3>2
    <2>7. \A i \in DOMAIN ds : DraftOK(ds[i])'
      BY <2>2, <2>6
    <2> QED
      BY <1>5, <2>3, <2>4, <2>7 DEF Drafted, Asks
  <1>8. run'.at \in 1..(Len(run.evidence) + 1)
    BY <1>1, <1>2, <1>6
  <1>9. run'.tries \in 0..MaxRetries
    BY <1>5, DraftingAssumption
  <1> QED
    BY <1>1, <1>5, <1>6, <1>7, <1>8, <1>9, BuildsKeeps DEF Builds

LEMMA ToJoinsKeeps ==
    ASSUME DraftingInv, run.pc \in Builds, project' = project, open' = open,
           NEW r, Alike(r), InProgress(r.draft), run' = ToJoins(r)
    PROVE  DraftingInv'
  <1> DEFINE s == run.evidence[run.at]
             b == Bucket(run.index, s.rel)
  <1>1. run' = IF CandidateColumns(s, b) = {} \/ OtherRelations(s) = {}
               THEN Finished(r, <<>>) ELSE [r EXCEPT !.pc = "joins", !.tries = 0]
    BY DEF ToJoins, Alike
  <1>2. CASE run' = Finished(r, <<>>)
    <2>1. GuessesOK(s, b, <<>>)
      BY NoGuesses
    <2> HIDE DEF s
    <2> QED
      BY <1>2, <2>1, FinishedKeeps DEF s
  <1>3. CASE run' = [r EXCEPT !.pc = "joins", !.tries = 0]
    <2>1. Alike(run') /\ run'.pc = "joins" /\ run'.draft = r.draft
      <3>1. /\ DOMAIN run' = RunFields /\ run'.pc = "joins" /\ run'.tries = 0 /\ run'.evidence = r.evidence
            /\ run'.skipped = r.skipped /\ run'.at = r.at /\ run'.plan = r.plan /\ run'.index = r.index
            /\ run'.pending = r.pending /\ run'.ready = r.ready /\ run'.added = r.added
            /\ run'.drafts = r.drafts /\ run'.draft = r.draft
        BY <1>3 DEF Alike, RunFields
      <3> QED
        BY <3>1, DraftingAssumption DEF Alike
    <2> QED
      BY <2>1, AskedKeeps DEF Asks
  <1> QED
    BY <1>1, <1>2, <1>3

LEMMA ToLabelsKeeps ==
    ASSUME DraftingInv, run.pc \in Builds, project' = project, open' = open,
           NEW r, Alike(r), InProgress(r.draft), run' = ToLabels(r)
    PROVE  DraftingInv'
  <1>1. \/ run' = ToJoins(r)
        \/ run' = Failed(r)
        \/ run' = [r EXCEPT !.pc = "labels", !.tries = 0]
    BY DEF ToLabels
  <1>2. CASE run' = ToJoins(r)
    BY <1>2, ToJoinsKeeps
  <1>3. CASE run' = Failed(r)
    <2>1. /\ DOMAIN run' = RunFields /\ run'.pc = "failed" /\ run'.tries = r.tries
          /\ run'.evidence = r.evidence /\ run'.skipped = r.skipped /\ run'.at = r.at
          /\ run'.plan = r.plan /\ run'.drafts = r.drafts
      BY <1>3 DEF Failed, Alike, RunFields
    <2>2. ProjectOK' /\ project'.conns = project.conns
      BY DEF DraftingInv, ProjectOK
    <2> QED
      BY <2>1, <2>2, FailedKeeps DEF Alike, DraftingInv
  <1>4. CASE run' = [r EXCEPT !.pc = "labels", !.tries = 0]
    <2>1. Alike(run') /\ run'.pc = "labels" /\ run'.draft = r.draft
      <3>1. /\ DOMAIN run' = RunFields /\ run'.pc = "labels" /\ run'.tries = 0 /\ run'.evidence = r.evidence
            /\ run'.skipped = r.skipped /\ run'.at = r.at /\ run'.plan = r.plan /\ run'.index = r.index
            /\ run'.pending = r.pending /\ run'.ready = r.ready /\ run'.added = r.added
            /\ run'.drafts = r.drafts /\ run'.draft = r.draft
        BY <1>4 DEF Alike, RunFields
      <3> QED
        BY <3>1, DraftingAssumption DEF Alike
    <2> QED
      BY <2>1, AskedKeeps DEF Asks
  <1> QED
    BY <1>1, <1>2, <1>3, <1>4

LEMMA DraftRelationKeeps == DraftingInv /\ DraftRelation => DraftingInv'
  <1> SUFFICES ASSUME DraftingInv, DraftRelation PROVE DraftingInv'
    OBVIOUS
  <1> DEFINE s == run.evidence[run.at]
             b == Bucket(run.index, s.rel)
             d == [rel |-> s.rel, conn |-> s.conn, from |-> run.at, cols |-> s.cols,
                   grain |-> IF s.pk # {} THEN s.pk ELSE b.grain, asked |-> FALSE,
                   measures |-> IF b.measures # <<>> THEN b.measures ELSE InferMeasures(s.cols),
                   dims |-> Dimensions(s, b), joins |-> <<>>, by |-> "deterministic", conf |-> 100]
             r == [run EXCEPT !.draft = d, !.tries = 0]
  <1>1. /\ run.pc = "draft" /\ run.at <= Len(run.evidence) /\ s.k = "schema"
        /\ run' = IF d.grain # {} THEN ToLabels(r) ELSE [r EXCEPT !.pc = "grain"]
        /\ project' = project /\ open' = open
    BY DEF DraftRelation, Building
  <1>2. run.pc \in Builds
    BY <1>1 DEF Builds
  <1>3. AllOnIndex /\ run.at \in DOMAIN run.evidence
    BY <1>1, <1>2, BuildingFacts
  <1>4. /\ DOMAIN d = DraftFields /\ d.rel = s.rel /\ d.conn = s.conn /\ d.from = run.at /\ d.cols = s.cols
        /\ d.asked = FALSE /\ d.by = "deterministic" /\ d.conf = 100 /\ d.dims = Dimensions(s, b)
        /\ (b.measures # <<>> => d.measures = b.measures)
    BY DEF DraftFields
  <1> HIDE DEF d
  <1>5. SoundDims(d) /\ Accounted(d)
    <2> HIDE DEF s, b
    <2>1. s = run.evidence[run.at] /\ b = Bucket(run.index, s.rel)
      BY DEF s, b
    <2> QED
      BY <1>1, <1>3, <1>4, <2>1, DraftedDims, DraftedAccounts
  <1>6. InProgress(d)
    BY <1>1, <1>3, <1>4, <1>5 DEF InProgress, IsDraft
  <1>7. Alike(r) /\ r.draft = d
    <2>1. /\ DOMAIN r = RunFields /\ r.tries = 0 /\ r.evidence = run.evidence
          /\ r.skipped = run.skipped /\ r.at = run.at /\ r.plan = run.plan /\ r.index = run.index
          /\ r.pending = run.pending /\ r.ready = run.ready /\ r.added = run.added
          /\ r.drafts = run.drafts /\ r.draft = d
      BY DEF DraftingInv, RunOK, RunFields
    <2> HIDE DEF r
    <2> QED
      BY <2>1, DraftingAssumption DEF Alike
  <1> HIDE DEF r
  <1>8. CASE run' = ToLabels(r)
    BY <1>1, <1>2, <1>6, <1>7, <1>8, ToLabelsKeeps
  <1>9. CASE run' = [r EXCEPT !.pc = "grain"]
    <2>1. /\ DOMAIN run' = RunFields /\ run'.pc = "grain" /\ run'.tries = r.tries /\ run'.evidence = r.evidence
          /\ run'.skipped = r.skipped /\ run'.at = r.at /\ run'.plan = r.plan /\ run'.index = r.index
          /\ run'.pending = r.pending /\ run'.ready = r.ready /\ run'.added = r.added
          /\ run'.drafts = r.drafts /\ run'.draft = r.draft
      BY <1>7, <1>9 DEF Alike, RunFields
    <2>2. Alike(run') /\ run'.draft = d
      BY <1>7, <2>1 DEF Alike
    <2> QED
      BY <1>1, <1>2, <1>6, <2>1, <2>2, AskedKeeps DEF Asks
  <1> QED
    BY <1>1, <1>8, <1>9

\* Drafts that were made before stay what they are.
LEMMA DraftsStay ==
    ASSUME DraftingInv, run'.evidence = run.evidence, run.skipped \subseteq run'.skipped,
           run'.drafts = run.drafts
    PROVE  (IsSeq(run.drafts) /\ \A i \in DOMAIN run.drafts : DraftOK(run.drafts[i]))'
  <1>1. IsSeq(run.drafts) /\ \A i \in DOMAIN run.drafts : DraftOK(run.drafts[i])
    BY DEF DraftingInv, Drafted
  <1>2. \A d : DraftOK(d) => DraftOK(d)'
    BY SameDraft
  <1>3. PICK ds : ds = run.drafts
    OBVIOUS
  <1>4. \A i \in DOMAIN ds : DraftOK(ds[i])'
    BY <1>1, <1>2, <1>3
  <1> QED
    BY <1>1, <1>3, <1>4

LEMMA BuildOtherKeeps == DraftingInv /\ BuildOther => DraftingInv'
  <1> SUFFICES ASSUME DraftingInv, BuildOther PROVE DraftingInv'
    OBVIOUS
  <1>1. PICK others, skipped :
          /\ run.pc = "draft" /\ run.at <= Len(run.evidence) /\ project' = project /\ open' = open
          /\ skipped \in {run.skipped, run.skipped \cup {run.at}}
          /\ run' = [run EXCEPT !.at = @ + 1, !.others = others, !.skipped = skipped]
    <2> DEFINE e == run.evidence[run.at]
               others == CASE e.k = "usage" /\ e.role = "alternative" -> Append(run.others, "edit")
                           [] e.k = "usage" /\ e.role = "trusted_example" -> Append(run.others, "assertion")
                           [] e.k = "outcome" -> Append(run.others, "edit")
                           [] e.k = "doc" /\ e.usable -> Append(run.others, "page")
                           [] OTHER -> run.others
               skipped == IF e.k = "unknown" \/ (e.k = "doc" /\ ~e.usable)
                          THEN run.skipped \cup {run.at} ELSE run.skipped
    <2>1. /\ Building /\ project' = project /\ open' = open
          /\ run' = [run EXCEPT !.at = @ + 1, !.others = others, !.skipped = skipped]
      BY DEF BuildOther
    <2>2. skipped \in {run.skipped, run.skipped \cup {run.at}}
      OBVIOUS
    <2> HIDE DEF others, skipped
    <2> QED
      BY <2>1, <2>2 DEF Building
  <1>2. /\ DOMAIN run' = RunFields /\ run'.pc = "draft" /\ run'.tries = run.tries /\ run'.evidence = run.evidence
        /\ run'.skipped = skipped /\ run'.at = run.at + 1 /\ run'.plan = run.plan /\ run'.index = run.index
        /\ run'.pending = run.pending /\ run'.ready = run.ready /\ run'.added = run.added
        /\ run'.drafts = run.drafts
    BY <1>1 DEF DraftingInv, RunOK, RunFields
  <1>3. run.pc \in Builds /\ run'.pc \in Builds
    BY <1>1, <1>2 DEF Builds
  <1>4. /\ run.skipped \subseteq DOMAIN run.evidence /\ Len(run.evidence) \in Nat
        /\ DOMAIN run.evidence = 1..Len(run.evidence) /\ run.at \in 1..(Len(run.evidence) + 1)
    BY <1>3, BuildingFacts
  <1>5. run'.at \in 1..(Len(run.evidence) + 1) /\ run.at \in DOMAIN run.evidence
    BY <1>1, <1>2, <1>4
  <1>6. run.skipped \subseteq run'.skipped /\ run'.skipped \subseteq DOMAIN run.evidence
    BY <1>1, <1>2, <1>4, <1>5
  <1>7. Drafted'
    BY <1>2, <1>6, DraftsStay DEF Drafted, Asks
  <1>8. run'.tries \in 0..MaxRetries
    BY <1>2 DEF DraftingInv, RunOK
  <1> QED
    BY <1>1, <1>2, <1>3, <1>5, <1>6, <1>7, <1>8, BuildsKeeps

LEMMA AllDraftedKeeps == DraftingInv /\ AllDrafted => DraftingInv'
  <1> SUFFICES ASSUME DraftingInv, AllDrafted PROVE DraftingInv'
    OBVIOUS
  <1>1. /\ run.pc = "draft" /\ project' = project /\ open' = open
        /\ run' = [run EXCEPT !.pc = "candidates", !.at = 1]
    BY DEF AllDrafted
  <1>2. /\ DOMAIN run' = RunFields /\ run'.pc = "candidates" /\ run'.tries = run.tries
        /\ run'.evidence = run.evidence /\ run'.skipped = run.skipped /\ run'.at = 1
        /\ run'.plan = run.plan /\ run'.index = run.index /\ run'.drafts = run.drafts
        /\ run'.pending = run.pending /\ run'.ready = run.ready /\ run'.added = run.added
    BY <1>1 DEF DraftingInv, RunOK, RunFields
  <1>3. AllOnIndex /\ Len(run.evidence) \in Nat
    BY <1>1, BuildingFacts DEF Builds
  <1>4. RunOK'
    <2>1. 1 \in 1..(Len(run.evidence) + 1)
      BY <1>3
    <2> QED
      BY <1>2, <2>1, SameStatements DEF DraftingInv, RunOK, After
  <1>5. Indexed'
    <2>1. PICK n, ix, sk : n = Len(run.evidence) /\ ix = run.index /\ sk = run.skipped
      OBVIOUS
    <2>2. IndexOK(ix, n, sk)
      BY <1>3, <2>1 DEF AllOnIndex
    <2>3. IndexOK(ix, n, sk)'
      BY <1>2, <2>2, SameIndex
    <2>4. IndexOK(run.index, Len(run.evidence), run.skipped)'
      BY <1>2, <2>1, <2>3
    <2> QED
      BY <1>2, <2>4 DEF Indexed, Before, Builds, Asks, After
  <1>6. CandidatesOK'
    BY <1>1, <1>2, EmptyFacts DEF DraftingInv, CandidatesOK, Before, Builds, Asks, After
  <1>7. Drafted'
    BY <1>2, DraftsStay DEF Drafted, Asks
  <1>8. ProjectOK' /\ open' \subseteq ToSet(project'.conns)
    BY <1>1 DEF DraftingInv, ProjectOK
  <1> QED
    BY <1>4, <1>5, <1>6, <1>7, <1>8 DEF DraftingInv

LEMMA AttemptFailsKeeps == DraftingInv /\ (AttemptFails \/ AnswerUnusable) => DraftingInv'
  <1> SUFFICES ASSUME DraftingInv, AttemptFails \/ AnswerUnusable PROVE DraftingInv'
    OBVIOUS
  <1>1. /\ run.pc \in Asks /\ project' = project /\ open' = open
        /\ \/ run' = Failed(run)
           \/ run.tries < MaxRetries /\ run' = [run EXCEPT !.tries = @ + 1]
    BY DEF AttemptFails, AnswerUnusable, Asking, Asks
  <1>2. CASE run' = Failed(run)
    BY <1>1, <1>2, FailKeeps DEF DraftingInv
  <1>3. CASE run.tries < MaxRetries /\ run' = [run EXCEPT !.tries = @ + 1]
    <2>1. /\ DOMAIN run' = RunFields /\ run'.pc = run.pc /\ run'.tries = run.tries + 1
          /\ run'.evidence = run.evidence
          /\ run'.skipped = run.skipped /\ run'.at = run.at /\ run'.plan = run.plan /\ run'.index = run.index
          /\ run'.pending = run.pending /\ run'.ready = run.ready /\ run'.added = run.added
          /\ run'.drafts = run.drafts /\ run'.draft = run.draft
      BY <1>3 DEF DraftingInv, RunOK, RunFields
    <2>2. run'.tries \in 0..MaxRetries
      BY <1>3, <2>1, DraftingAssumption DEF DraftingInv, RunOK
    <2>3. Alike(run')
      BY <2>1, <2>2 DEF Alike
    <2>4. InProgress(run'.draft)
      BY <1>1, <2>1 DEF DraftingInv, Drafted
    <2> QED
      BY <1>1, <2>1, <2>3, <2>4, AskedKeeps DEF Builds
  <1> QED
    BY <1>1, <1>2, <1>3

LEMMA AnswerGrainKeeps == DraftingInv /\ AnswerGrain => DraftingInv'
  <1> SUFFICES ASSUME DraftingInv, AnswerGrain PROVE DraftingInv'
    OBVIOUS
  <1>1. /\ run.pc = "grain" /\ project' = project /\ open' = open
        /\ \E a \in GrainAnswers :
             run' = ToLabels([run EXCEPT !.draft.grain = a.grain, !.draft.conf = a.conf,
                                         !.draft.by = "llm", !.draft.asked = TRUE])
    BY DEF AnswerGrain
  <1>2. PICK a \in GrainAnswers :
             run' = ToLabels([run EXCEPT !.draft.grain = a.grain, !.draft.conf = a.conf,
                                         !.draft.by = "llm", !.draft.asked = TRUE])
    BY <1>1
  <1>3. a.conf \in 0..100
    <2>1. CASE a = NullGrain
      BY <2>1 DEF NullGrain
    <2>2. CASE \E g \in Grains, raw \in {30, 100} :
                 a = [grain |-> g, conf |-> IF g = {} THEN 0 ELSE Least({raw, 85})]
      <3>1. PICK g \in Grains, raw \in {30, 100} :
                 a = [grain |-> g, conf |-> IF g = {} THEN 0 ELSE Least({raw, 85})]
        BY <2>2
      <3>2. Least({raw, 85}) \in {raw, 85}
        <4>1. {raw, 85} \in SUBSET Nat /\ {raw, 85} # {}
          OBVIOUS
        <4> QED
          BY <4>1, LeastFacts
      <3>3. Least({raw, 85}) \in 0..100
        BY <3>2
      <3>4. a.conf = IF g = {} THEN 0 ELSE Least({raw, 85})
        BY <3>1
      <3> QED
        BY <3>3, <3>4
    <2> QED
      BY <2>1, <2>2 DEF GrainAnswers
  <1> DEFINE d == run.draft
             c == [d EXCEPT !.grain = a.grain, !.conf = a.conf, !.by = "llm", !.asked = TRUE]
             r == [run EXCEPT !.draft = c]
  <1>4. InProgress(d)
    BY <1>1 DEF DraftingInv, Drafted, Asks
  <1>5. DOMAIN run = RunFields
    BY DEF DraftingInv, RunOK
  <1>6. run' = ToLabels(r)
    BY <1>2, <1>4, <1>5 DEF InProgress, IsDraft, DraftFields, RunFields
  <1>7. /\ DOMAIN c = DraftFields /\ c.rel = d.rel /\ c.conn = d.conn /\ c.from = d.from
        /\ c.cols = d.cols /\ c.dims = d.dims /\ c.measures = d.measures /\ c.conf = a.conf /\ c.by = "llm"
    BY <1>4 DEF InProgress, IsDraft, DraftFields
  <1> HIDE DEF c, d
  <1>8. InProgress(c)
    <2>1. SoundDims(c)
      BY <1>4, <1>7 DEF InProgress, SoundDims, IsChecked
    <2>2. Accounted(c)
      BY <1>4, <1>7 DEF InProgress, Accounted
    <2> QED
      BY <1>3, <1>4, <1>7, <2>1, <2>2 DEF InProgress, IsDraft
  <1>9. Alike(r) /\ r.draft = c
    <2>1. /\ DOMAIN r = RunFields /\ r.tries = run.tries /\ r.evidence = run.evidence
          /\ r.skipped = run.skipped /\ r.at = run.at /\ r.plan = run.plan /\ r.index = run.index
          /\ r.pending = run.pending /\ r.ready = run.ready /\ r.added = run.added
          /\ r.drafts = run.drafts /\ r.draft = c
      BY <1>5 DEF RunFields
    <2> HIDE DEF r
    <2> QED
      BY <2>1 DEF Alike, DraftingInv, RunOK
  <1> HIDE DEF r
  <1> QED
    BY <1>1, <1>6, <1>8, <1>9, ToLabelsKeeps DEF Builds, Asks

LEMMA AnswerLabelsKeeps == DraftingInv /\ AnswerLabels => DraftingInv'
  <1> SUFFICES ASSUME DraftingInv, AnswerLabels PROVE DraftingInv'
    OBVIOUS
  <1> DEFINE d == run.draft
  <1>1. PICK names :
          /\ run.pc = "labels" /\ project' = project /\ open' = open
          /\ LET Label(x) == IF x.name \in names /\ x.alias = None THEN [x EXCEPT !.alias = "llm"] ELSE x
             IN  run' = ToJoins([run EXCEPT !.draft.dims = [i \in DOMAIN @ |-> Label(run.draft.dims[i])]])
    BY DEF AnswerLabels
  <1> DEFINE Label(x) == IF x.name \in names /\ x.alias = None THEN [x EXCEPT !.alias = "llm"] ELSE x
             dims == [i \in DOMAIN d.dims |-> Label(d.dims[i])]
             c == [d EXCEPT !.dims = dims]
             r == [run EXCEPT !.draft = c]
  <1>2. DOMAIN run = RunFields
    BY DEF DraftingInv, RunOK
  <1>3. run' = ToJoins(r)
    BY <1>1, <1>2 DEF RunFields
  <1>4. InProgress(d)
    BY <1>1 DEF DraftingInv, Drafted, Asks
  <1>5. /\ DOMAIN c = DraftFields /\ c.rel = d.rel /\ c.conn = d.conn /\ c.from = d.from
        /\ c.cols = d.cols /\ c.dims = dims /\ c.measures = d.measures /\ c.conf = d.conf /\ c.by = d.by
        /\ c.asked = d.asked
    BY <1>4 DEF InProgress, IsDraft, DraftFields
  <1> HIDE DEF c
  <1>6. \A i \in DOMAIN d.dims : /\ IsDimension(dims[i]) /\ dims[i].name = d.dims[i].name
                                 /\ dims[i].cols = d.dims[i].cols /\ dims[i].bare = d.dims[i].bare
    <2> SUFFICES ASSUME NEW i \in DOMAIN d.dims
                 PROVE  /\ IsDimension(dims[i]) /\ dims[i].name = d.dims[i].name
                        /\ dims[i].cols = d.dims[i].cols /\ dims[i].bare = d.dims[i].bare
      OBVIOUS
    <2>1. PICK x : x = d.dims[i]
      OBVIOUS
    <2>2. IsDimension(x)
      BY <1>4, <2>1 DEF InProgress, SoundDims
    <2>3. dims[i] = x \/ dims[i] = [x EXCEPT !.alias = "llm"]
      BY <2>1
    <2>4. [x EXCEPT !.alias = "llm"] = [name |-> x.name, cols |-> x.cols, bare |-> x.bare, alias |-> "llm"]
      BY <2>2 DEF IsDimension
    <2> HIDE DEF dims
    <2>5. CASE dims[i] = x
      BY <2>1, <2>2, <2>5
    <2>6. CASE dims[i] = [name |-> x.name, cols |-> x.cols, bare |-> x.bare, alias |-> "llm"]
      <3>1. dims[i].name = x.name /\ dims[i].cols = x.cols /\ dims[i].bare = x.bare /\ dims[i].alias = "llm"
        BY <2>6
      <3> QED
        BY <2>1, <2>6, <3>1 DEF IsDimension
    <2> QED
      BY <2>3, <2>4, <2>5, <2>6
  <1>7. IsSeq(dims) /\ DOMAIN dims = DOMAIN d.dims
    <2>1. IsSeq(d.dims)
      BY <1>4 DEF InProgress, SoundDims
    <2> QED
      BY <2>1, SameDomain
  <1> HIDE DEF dims, d
  <1>8. SoundDims(c)
    <2>1. Distinct(d.dims, "name") /\ (IsChecked(d) => \A k \in DOMAIN d.dims : d.dims[k].cols \subseteq d.cols)
      BY <1>4 DEF InProgress, SoundDims
    <2>2. Distinct(dims, "name")
      <3> SUFFICES ASSUME NEW i \in DOMAIN dims, NEW j \in DOMAIN dims, dims[i].name = dims[j].name PROVE i = j
        BY DEF Distinct
      <3>1. d.dims[i].name = d.dims[j].name
        BY <1>6, <1>7
      <3> QED
        BY <1>7, <2>1, <3>1 DEF Distinct
    <2>3. IsChecked(c) <=> IsChecked(d)
      BY <1>5 DEF IsChecked
    <2> QED
      BY <1>5, <1>6, <1>7, <2>1, <2>2, <2>3 DEF SoundDims
  <1>9. Accounted(c)
    <2> SUFFICES ASSUME NEW k \in DOMAIN run.evidence, NEW e, e = run.evidence[k], k \notin run.skipped,
                        e.refs = <<d.rel>>
                 PROVE  /\ e.k = "measure" => e.entry \in ToSet(d.measures)
                        /\ e.k = "dimension" => \E m \in DOMAIN dims :
                             [dims[m] EXCEPT !.alias = e.entry.alias] = e.entry
      BY <1>5 DEF Accounted
    <2>1. /\ e.k = "measure" => e.entry \in ToSet(d.measures)
          /\ e.k = "dimension" => \E m \in DOMAIN d.dims :
               [d.dims[m] EXCEPT !.alias = e.entry.alias] = e.entry
      BY <1>4 DEF InProgress, Accounted
    <2>2. ASSUME NEW m \in DOMAIN d.dims, [d.dims[m] EXCEPT !.alias = e.entry.alias] = e.entry
          PROVE  [dims[m] EXCEPT !.alias = e.entry.alias] = e.entry
      <3>1. PICK x, y, al : x = d.dims[m] /\ y = dims[m] /\ al = e.entry.alias
        OBVIOUS
      <3>2. IsDimension(x) /\ IsDimension(y)
        BY <1>4, <1>6, <3>1 DEF InProgress, SoundDims
      <3>3. y.name = x.name /\ y.cols = x.cols /\ y.bare = x.bare
        BY <1>6, <3>1
      <3>4. [x EXCEPT !.alias = al] = [name |-> x.name, cols |-> x.cols, bare |-> x.bare, alias |-> al]
        BY <3>2 DEF IsDimension
      <3>5. [y EXCEPT !.alias = al] = [name |-> y.name, cols |-> y.cols, bare |-> y.bare, alias |-> al]
        BY <3>2 DEF IsDimension
      <3>6. [y EXCEPT !.alias = al] = [x EXCEPT !.alias = al]
        BY <3>3, <3>4, <3>5
      <3> QED
        BY <2>2, <3>1, <3>6
    <2> QED
      BY <1>7, <2>1, <2>2
  <1>10. InProgress(c)
    BY <1>4, <1>5, <1>8, <1>9 DEF InProgress, IsDraft
  <1>11. Alike(r) /\ r.draft = c
    <2>1. /\ DOMAIN r = RunFields /\ r.tries = run.tries /\ r.evidence = run.evidence
          /\ r.skipped = run.skipped /\ r.at = run.at /\ r.plan = run.plan /\ r.index = run.index
          /\ r.pending = run.pending /\ r.ready = run.ready /\ r.added = run.added
          /\ r.drafts = run.drafts /\ r.draft = c
      BY <1>2 DEF RunFields
    <2> HIDE DEF r
    <2> QED
      BY <2>1 DEF Alike, DraftingInv, RunOK
  <1> HIDE DEF r
  <1> QED
    BY <1>1, <1>3, <1>10, <1>11, ToJoinsKeeps DEF Builds, Asks

LEMMA AnswerJoinsKeeps == DraftingInv /\ AnswerJoins => DraftingInv'
  <1> SUFFICES ASSUME DraftingInv, AnswerJoins PROVE DraftingInv'
    OBVIOUS
  <1> DEFINE s == run.evidence[run.at]
             b == Bucket(run.index, s.rel)
  <1>1. PICK guesses \in JoinAnswers :
          /\ run.pc = "joins" /\ project' = project /\ open' = open
          /\ run' = Finished(run, ValidGuesses(s, b, guesses))
    BY DEF AnswerJoins
  <1>2. GuessesOK(s, b, ValidGuesses(s, b, guesses))
    <2>1. guesses \in BoundedSeq(JoinGuesses, MaxGuesses)
      <3>1. CASE guesses = <<>>
        <4>1. <<>> \in [1..0 -> JoinGuesses] /\ 0 \in 0..MaxGuesses
          BY DraftingAssumption
        <4> QED
          BY <3>1, <4>1 DEF BoundedSeq, SeqOf
      <3> QED
        BY <3>1 DEF JoinAnswers
    <2> HIDE DEF s, b
    <2> QED
      BY <2>1, AnsweredGuesses
  <1>3. Alike(run)
    BY DEF Alike, DraftingInv, RunOK
  <1>4. InProgress(run.draft)
    BY <1>1 DEF DraftingInv, Drafted, Asks
  <1>5. PICK t, r : t = s /\ r = run
    OBVIOUS
  <1>6. run.pc \in Builds
    BY <1>1 DEF Builds, Asks
  <1> QED
    BY <1>1, <1>2, <1>3, <1>4, <1>5, <1>6, FinishedKeeps

-----------------------------------------------------------------------------
(* Drafting: candidates                                                     *)

LEMMA OneFacts == \A x : IsSeq(<<x>>)
  <1> TAKE x
  <1>1. <<x>> \in Seq({x})
    OBVIOUS
  <1> QED
    BY <1>1 DEF IsSeq

LEMMA ExpressedFacts ==
    ASSUME NEW d, Parsed(d), d.k = "candidate"
    PROVE  IsSeq(Expressed(d))
  <1> DEFINE bind == [i \in DOMAIN d.measures |-> MeasureBinding(d.measures[i], d.measures[i])]
             composite == [metric |-> d.entity, kind |-> d.kind,
                           refs |-> ToSet(d.metrics) \cup ToSet(d.measures),
                           source |-> None, item |-> None, wants |-> d.wants]
  <1>1. IsSeq(d.measures)
    BY ListIsSeq DEF Parsed
  <1>2. IsSeq(bind)
    BY <1>1, SameDomain
  <1> DEFINE whole == d.kind \in {"offset", "derived"} \/ d.metrics # <<>>
             unbound == \E i \in DOMAIN bind : bind[i] = None
             one == <<[bind[1] EXCEPT !.metric = d.entity, !.kind = "cumulative", !.wants = d.wants]>>
             other == <<[bind[1] EXCEPT !.metric = d.entity]>>
             both == Append(bind, composite)
  <1>3. IsSeq(<<composite>>) /\ IsSeq(<<>>) /\ IsSeq(one) /\ IsSeq(other)
    BY OneFacts, EmptyFacts
  <1>4. IsSeq(both)
    <2> HIDE DEF bind, composite
    <2> QED
      BY <1>2, AppendFacts
  <1>5. Expressed(d) = CASE whole -> <<composite>>
                         [] ~whole /\ unbound -> <<>>
                         [] ~whole /\ ~unbound /\ d.kind \in {"ratio", "conversion"} -> both
                         [] ~whole /\ ~unbound /\ d.kind = "cumulative" ->
                              IF bind[1].kind # "single" THEN <<>> ELSE one
                         [] OTHER -> other
    BY Zenon DEF Expressed
  <1> HIDE DEF bind, composite, one, other, both, whole, unbound
  <1> QED
    BY <1>3, <1>4, <1>5

\* A step after every relation has its draft.
LEMMA AfterKeeps ==
    ASSUME DraftingInv, run.pc \in After, project' = project, open' \subseteq ToSet(project.conns),
           DOMAIN run' = RunFields, run'.pc \in After, run'.tries = run.tries,
           run'.evidence = run.evidence, run.skipped \subseteq run'.skipped,
           run'.skipped \subseteq DOMAIN run.evidence, run'.at \in 1..(Len(run.evidence) + 1),
           run'.plan = run.plan, run'.index = run.index, run'.drafts = run.drafts, CandidatesOK'
    PROVE  DraftingInv'
  <1>1. RunOK'
    BY SameStatements DEF DraftingInv, RunOK
  <1>2. Indexed'
    <2>1. IndexOK(run.index, Len(run.evidence), run.skipped)
      BY DEF DraftingInv, Indexed
    <2>2. PICK n, ix, sk : n = Len(run.evidence) /\ ix = run.index /\ sk = run'.skipped
      OBVIOUS
    <2>3. IndexOK(ix, n, sk)
      BY <2>1, <2>2, IndexSkips
    <2>4. IndexOK(ix, n, sk)'
      BY <2>3, SameIndex
    <2>5. IndexOK(run.index, Len(run.evidence), run.skipped)'
      BY <2>2, <2>4
    <2> QED
      BY <2>5 DEF Indexed, Before, Builds, Asks, After
  <1>3. Drafted'
    BY DraftsStay DEF Drafted, Asks, After
  <1>4. ProjectOK'
    BY DEF DraftingInv, ProjectOK
  <1> QED
    BY <1>1, <1>2, <1>3, <1>4 DEF DraftingInv

LEMMA AfterFacts ==
    ASSUME DraftingInv
    PROVE  /\ EvidenceOK /\ run.skipped \subseteq DOMAIN run.evidence
           /\ Len(run.evidence) \in Nat /\ DOMAIN run.evidence = 1..Len(run.evidence)
           /\ run.at \in 1..(Len(run.evidence) + 1) /\ open \subseteq ToSet(project.conns)
  <1>1. /\ EvidenceOK /\ run.skipped \subseteq DOMAIN run.evidence
        /\ run.at \in 1..(Len(run.evidence) + 1) /\ open \subseteq ToSet(project.conns)
    BY DEF DraftingInv, RunOK
  <1> QED
    BY <1>1, SeqFacts DEF EvidenceOK

LEMMA BuildCandidateKeeps == DraftingInv /\ BuildCandidate => DraftingInv'
  <1> SUFFICES ASSUME DraftingInv, BuildCandidate PROVE DraftingInv'
    OBVIOUS
  <1> DEFINE d == run.evidence[run.at]
  <1>1. run.pc = "candidates" /\ run.at <= Len(run.evidence) /\ project' = project /\ open' = open
    BY DEF BuildCandidate
  <1>2. IsSeq(run.pending) /\ run.ready = <<>> /\ run.added = <<>>
    BY <1>1 DEF DraftingInv, CandidatesOK
  <1>3. /\ EvidenceOK /\ run.skipped \subseteq DOMAIN run.evidence /\ Len(run.evidence) \in Nat
        /\ DOMAIN run.evidence = 1..Len(run.evidence) /\ run.at \in 1..(Len(run.evidence) + 1)
        /\ open \subseteq ToSet(project.conns)
    BY AfterFacts
  <1>4. run.at \in DOMAIN run.evidence /\ run.at + 1 \in 1..(Len(run.evidence) + 1)
    BY <1>1, <1>3
  <1>5. PICK pending, skipped :
          /\ IsSeq(pending) /\ skipped \in {run.skipped, run.skipped \cup {run.at}}
          /\ run' = [run EXCEPT !.at = @ + 1, !.pending = pending, !.skipped = skipped]
    <2>1. CASE d.k # "candidate"
      <3>1. run' = [run EXCEPT !.at = @ + 1]
        BY <2>1 DEF BuildCandidate
      <3>2. DOMAIN run = RunFields
        BY DEF DraftingInv, RunOK
      <3>3. run' = [run EXCEPT !.at = @ + 1, !.pending = run.pending, !.skipped = run.skipped]
        BY <3>1, <3>2 DEF RunFields
      <3> QED
        BY <1>2, <3>3
    <2>2. CASE d.k = "candidate"
      <3> DEFINE list == run.pending \o Expressed(d)
                 pending == FirstPerMetric(list)
                 skipped == IF Expressed(d) = <<>> THEN run.skipped \cup {run.at} ELSE run.skipped
      <3>1. run' = [run EXCEPT !.at = @ + 1, !.pending = pending, !.skipped = skipped]
        BY <2>2 DEF BuildCandidate
      <3>2. IsSeq(Expressed(d))
        BY <1>3, <1>4, <2>2, ExpressedFacts DEF EvidenceOK
      <3>3. IsSeq(list)
        BY <1>2, <3>2, ConcatFacts
      <3> HIDE DEF list
      <3>4. IsSeq(pending)
        BY <3>3, NamedByList DEF FirstPerMetric
      <3> HIDE DEF pending
      <3> QED
        BY <3>1, <3>4
    <2> QED
      BY <2>1, <2>2
  <1>6. /\ DOMAIN run' = RunFields /\ run'.pc = "candidates" /\ run'.tries = run.tries
        /\ run'.evidence = run.evidence /\ run'.skipped = skipped /\ run'.at = run.at + 1
        /\ run'.plan = run.plan /\ run'.index = run.index /\ run'.drafts = run.drafts
        /\ run'.pending = pending /\ run'.ready = run.ready /\ run'.added = run.added
    BY <1>1, <1>5 DEF DraftingInv, RunOK, RunFields
  <1>7. CandidatesOK'
    BY <1>2, <1>5, <1>6 DEF CandidatesOK, Before, Builds, Asks, After
  <1>8. run.skipped \subseteq run'.skipped /\ run'.skipped \subseteq DOMAIN run.evidence
    BY <1>3, <1>4, <1>5, <1>6
  <1> QED
    BY <1>1, <1>3, <1>4, <1>6, <1>7, <1>8, AfterKeeps DEF After

LEMMA ReconcileKeeps == DraftingInv /\ Reconcile => DraftingInv'
  <1> SUFFICES ASSUME DraftingInv, Reconcile PROVE DraftingInv'
    OBVIOUS
  <1>1. PICK sources :
          /\ run.pc = "candidates" /\ project' = project /\ open' = open
          /\ run' = [run EXCEPT !.pc = "resolve", !.sources = sources, !.offered = run.pending]
    BY DEF Reconcile
  <1>2. IsSeq(run.pending) /\ run.ready = <<>> /\ run.added = <<>>
    BY <1>1 DEF DraftingInv, CandidatesOK
  <1>3. /\ DOMAIN run' = RunFields /\ run'.pc = "resolve" /\ run'.tries = run.tries
        /\ run'.evidence = run.evidence /\ run'.skipped = run.skipped /\ run'.at = run.at
        /\ run'.plan = run.plan /\ run'.index = run.index /\ run'.drafts = run.drafts
        /\ run'.pending = run.pending /\ run'.ready = run.ready /\ run'.added = run.added
        /\ run'.offered = run.pending
    BY <1>1 DEF DraftingInv, RunOK, RunFields
  <1>4. ResolvedOK(run.pending, run.ready, run.added)'
    <2>1. PICK p : p = run.pending
      OBVIOUS
    <2>2. IsSeq(p) /\ Len(p) \in Nat /\ Len(<<>>) = 0 /\ IsSeq(<<>>) /\ DOMAIN <<>> = {} /\ ToSet(<<>>) = {}
      BY <1>2, <2>1, SeqFacts, EmptyFacts DEF ToSet
    <2>3. Offered' = ToSet(p)
      BY <1>3, <2>1 DEF Offered
    <2>4. run'.pending = p /\ run'.ready = <<>> /\ run'.added = <<>> /\ run'.offered = p
      BY <1>2, <1>3, <2>1
    <2>5. 0 + 0 + Len(p) <= Len(p)
      BY <2>2
    <2> QED
      BY <2>2, <2>3, <2>4, <2>5 DEF ResolvedOK
  <1>5. CandidatesOK'
    BY <1>3, <1>4 DEF CandidatesOK, Before, Builds, Asks, After
  <1>6. /\ EvidenceOK /\ run.skipped \subseteq DOMAIN run.evidence
        /\ run.at \in 1..(Len(run.evidence) + 1) /\ open \subseteq ToSet(project.conns)
    BY AfterFacts
  <1> QED
    BY <1>1, <1>3, <1>5, <1>6, AfterKeeps DEF After

LEMMA SameGrounds ==
    ASSUME run'.offered = run.offered, run'.sources = run.sources, project' = project,
           NEW pending, NEW ready, NEW added, ResolvedOK(pending, ready, added)
    PROVE  ResolvedOK(pending, ready, added)'
  <1>1. Offered' = Offered
    BY DEF Offered
  <1>2. \A p, bound : Grounded(p, bound)' <=> Grounded(p, bound)
    BY DEF Grounded
  <1>3. Acyclic' <=> Acyclic
    BY <1>1 DEF Acyclic
  <1>4. \A list : Bound(list)' = Bound(list)
    BY DEF Bound
  <1> QED
    BY <1>1, <1>2, <1>3, <1>4 DEF ResolvedOK

\* Nobody refers to a metric of its own, if there is no circle.
LEMMA NoSelfSupport ==
    ASSUME Acyclic, NEW p \in Offered
    PROVE  p.metric \notin p.refs
  <1> SUFFICES ASSUME p.metric \in p.refs PROVE FALSE
    OBVIOUS
  <1> DEFINE S == {p}
  <1>1. S \in (SUBSET Offered) \ {{}} /\ \A x \in S : \E q \in S : q.metric \in x.refs
    OBVIOUS
  <1> HIDE DEF S
  <1> QED
    BY <1>1 DEF Acyclic

LEMMA SomebodyIsFree ==
    ASSUME Acyclic, NEW pending, IsSeq(pending), pending # <<>>, ToSet(pending) \subseteq Offered
    PROVE  \E i \in DOMAIN pending : ~WaitsForAnother(pending[i], pending)
  <1> SUFFICES ASSUME \A i \in DOMAIN pending : WaitsForAnother(pending[i], pending) PROVE FALSE
    OBVIOUS
  <1> DEFINE S == ToSet(pending)
  <1>1. Head(pending) \in S
    BY TailFacts
  <1>2. ASSUME NEW p \in S PROVE \E q \in S : q.metric \in p.refs
    <2>1. PICK i \in DOMAIN pending : p = pending[i]
      BY <1>2 DEF ToSet
    <2>2. WaitsForAnother(p, pending)
      BY <2>1
    <2> QED
      BY <2>2 DEF WaitsForAnother, ToSet
  <1> HIDE DEF S
  <1>3. S \in (SUBSET Offered) \ {{}}
    BY <1>1 DEF S
  <1> QED
    BY <1>2, <1>3 DEF Acyclic

LEMMA RoundKeeps ==
    ASSUME NEW pending, NEW added, ResolvedOK(pending, <<>>, added), pending # <<>>,
           NEW waiting, waiting = {i \in DOMAIN pending : WaitsForAnother(pending[i], pending)},
           NEW free, free = Keep(pending, DOMAIN pending \ waiting)
    PROVE  /\ free = <<>> => ResolvedOK(<<>>, pending, added)
           /\ ResolvedOK(Keep(pending, waiting), free, added)
  <1> DEFINE held == Keep(pending, waiting)
  <1>1. /\ IsSeq(run.offered) /\ IsSeq(pending) /\ IsSeq(added)
        /\ Len(added) + Len(<<>>) + Len(pending) <= Len(run.offered)
        /\ ToSet(pending) \subseteq Offered
        /\ \A j \in DOMAIN added :
             /\ added[j] \in Offered /\ added[j].metric \notin project.metrics
             /\ Grounded(added[j], project.metrics \cup {added[i].metric : i \in 1..(j - 1)})
    BY DEF ResolvedOK
  <1>2. ToSet(<<>>) = {} /\ IsSeq(<<>>) /\ Len(<<>>) = 0 /\ DOMAIN <<>> = {}
    BY EmptyFacts DEF ToSet
  <1>3. ASSUME Acyclic
        PROVE  /\ \A p \in Offered \ ToSet(pending), q \in ToSet(pending) : q.metric \notin p.refs
               /\ \A p \in Offered \ ToSet(pending) :
                    p.metric \notin project.metrics /\ Grounded(p, Bound(added)) => p \in ToSet(added)
    BY <1>2, <1>3 DEF ResolvedOK
  <1>4. Len(pending) \in Nat /\ Len(added) \in Nat /\ Len(run.offered) \in Nat
    BY <1>1, SeqFacts
  <1> DEFINE Chosen(t, at) ==
                 /\ IsSeq(t)
                 /\ \A i \in DOMAIN t : \E j \in DOMAIN pending : j \in at /\ t[i] = pending[j]
                 /\ \A j \in DOMAIN pending : j \in at => \E i \in DOMAIN t : t[i] = pending[j]
  <1>a. ASSUME NEW at PROVE Chosen(Keep(pending, at), at)
    <2>1. IsSeq(pending)
      BY <1>1
    <2> QED
      BY <2>1, KeepFacts, SMTT(30)
  <1>5. Chosen(free, DOMAIN pending \ waiting)
    <2> HIDE DEF Chosen
    <2> QED
      BY <1>a
  <1>6. Chosen(held, waiting)
    <2> HIDE DEF Chosen
    <2> QED
      BY <1>a
  <1>7. Len(free) + Len(held) = Len(pending) /\ Len(free) \in Nat /\ Len(held) \in Nat
    <2>1. Halves(held, free, Len(pending))
      BY <1>1, KeepSplits
    <2> QED
      BY <2>1 DEF Halves
  <1> HIDE DEF held
  <1>8. ToSet(free) \cup ToSet(held) = ToSet(pending)
    <2>1. ToSet(free) \subseteq ToSet(pending) /\ ToSet(held) \subseteq ToSet(pending)
      BY <1>5, <1>6 DEF ToSet
    <2>2. ASSUME NEW j \in DOMAIN pending PROVE pending[j] \in ToSet(free) \cup ToSet(held)
      BY <1>5, <1>6, ZenonT(60) DEF ToSet
    <2>3. ToSet(pending) \subseteq ToSet(free) \cup ToSet(held)
      BY <2>2 DEF ToSet
    <2> QED
      BY <2>1, <2>3
  <1>9. free = <<>> => ResolvedOK(<<>>, pending, added)
    <2> SUFFICES ASSUME free = <<>> PROVE ResolvedOK(<<>>, pending, added)
      OBVIOUS
    <2>1. \A j \in DOMAIN pending : WaitsForAnother(pending[j], pending)
      BY <1>2, <1>5
    <2>2. ~Acyclic
      BY <1>1, <2>1, SomebodyIsFree
    <2>3. Len(added) + Len(pending) + Len(<<>>) <= Len(run.offered)
      BY <1>1, <1>2, <1>4
    <2>4. ToSet(pending) \cup ToSet(<<>>) \subseteq Offered
      BY <1>1, <1>2
    <2> QED
      BY <1>1, <1>2, <2>2, <2>3, <2>4 DEF ResolvedOK
  <1>10. ResolvedOK(held, free, added)
    <2>1. Len(added) + Len(free) + Len(held) <= Len(run.offered)
      BY <1>1, <1>2, <1>4, <1>7
    <2>2. ASSUME Acyclic
          PROVE  \A p \in Offered \ ToSet(held), q \in ToSet(pending) : q.metric \notin p.refs
      <3> SUFFICES ASSUME NEW p \in Offered \ ToSet(held), NEW q \in ToSet(pending) PROVE q.metric \notin p.refs
        OBVIOUS
      <3>1. CASE p \notin ToSet(pending)
        BY <1>3, <2>2, <3>1
      <3>2. CASE p \in ToSet(pending)
        <4>1. PICK j \in DOMAIN pending : p = pending[j]
          BY <3>2 DEF ToSet
        <4>2. j \notin waiting
          BY <1>6, <4>1 DEF ToSet
        <4>3. ~WaitsForAnother(p, pending)
          BY <4>1, <4>2
        <4>4. PICK i \in DOMAIN pending : q = pending[i]
          BY DEF ToSet
        <4>5. q.metric = p.metric \/ q.metric \notin p.refs
          BY <4>3, <4>4 DEF WaitsForAnother
        <4>6. p.metric \notin p.refs
          BY <2>2, NoSelfSupport
        <4> QED
          BY <4>5, <4>6
      <3> QED
        BY <3>1, <3>2
    <2>3. ToSet(free) \cup ToSet(held) \subseteq Offered
      BY <1>1, <1>8
    <2>4. ASSUME Acyclic
          PROVE  /\ \A p \in Offered \ ToSet(held), q \in ToSet(free) \cup ToSet(held) : q.metric \notin p.refs
                 /\ \A p \in Offered \ (ToSet(free) \cup ToSet(held)) :
                      p.metric \notin project.metrics /\ Grounded(p, Bound(added)) => p \in ToSet(added)
      BY <1>3, <1>8, <2>2, <2>4
    <2> QED
      BY <1>1, <1>5, <1>6, <2>1, <2>3, <2>4 DEF ResolvedOK
  <1> QED
    BY <1>9, <1>10 DEF held

LEMMA DecideKeeps ==
    ASSUME NEW pending, NEW ready, NEW added, ResolvedOK(pending, ready, added), ready # <<>>,
           NEW more, more = IF /\ Head(ready).metric \notin project.metrics
                               /\ Grounded(Head(ready), Bound(added))
                            THEN Append(added, Head(ready)) ELSE added
    PROVE  ResolvedOK(pending, Tail(ready), more)
  <1> DEFINE h == Head(ready)
             rest == Tail(ready)
             binds == h.metric \notin project.metrics /\ Grounded(h, Bound(added))
  <1>1. /\ IsSeq(run.offered) /\ IsSeq(pending) /\ IsSeq(ready) /\ IsSeq(added)
        /\ Len(added) + Len(ready) + Len(pending) <= Len(run.offered)
        /\ ToSet(ready) \cup ToSet(pending) \subseteq Offered
        /\ \A j \in DOMAIN added :
             /\ added[j] \in Offered /\ added[j].metric \notin project.metrics
             /\ Grounded(added[j], project.metrics \cup {added[i].metric : i \in 1..(j - 1)})
    BY DEF ResolvedOK
  <1>2. ASSUME Acyclic
        PROVE  /\ \A p \in Offered \ ToSet(pending), q \in ToSet(ready) \cup ToSet(pending) :
                    q.metric \notin p.refs
               /\ \A p \in Offered \ (ToSet(ready) \cup ToSet(pending)) :
                    p.metric \notin project.metrics /\ Grounded(p, Bound(added)) => p \in ToSet(added)
    BY <1>2 DEF ResolvedOK
  <1>3. /\ IsSeq(rest) /\ h \in ToSet(ready) /\ ToSet(ready) = {h} \cup ToSet(rest)
        /\ Len(ready) = Len(rest) + 1
    BY <1>1, TailFacts
  <1> HIDE DEF h, rest
  <1>4. /\ Len(added) \in Nat /\ DOMAIN added = 1..Len(added) /\ Len(rest) \in Nat /\ Len(pending) \in Nat
        /\ Len(run.offered) \in Nat
    BY <1>1, <1>3, SeqFacts
  <1>5. CASE ~binds
    <2>1. more = added
      BY <1>5 DEF h
    <2>2. Len(added) + Len(rest) + Len(pending) <= Len(run.offered)
      BY <1>1, <1>3, <1>4
    <2>3. ASSUME Acyclic
          PROVE  /\ \A p \in Offered \ ToSet(pending), q \in ToSet(rest) \cup ToSet(pending) :
                      q.metric \notin p.refs
                 /\ \A p \in Offered \ (ToSet(rest) \cup ToSet(pending)) :
                      p.metric \notin project.metrics /\ Grounded(p, Bound(added)) => p \in ToSet(added)
      BY <1>2, <1>3, <1>5, <2>3
    <2>4. ResolvedOK(pending, rest, added)
      BY <1>1, <1>3, <2>2, <2>3 DEF ResolvedOK
    <2> QED
      BY <2>1, <2>4 DEF rest
  <1>6. CASE binds
    <2>1. more = Append(added, h)
      BY <1>6 DEF h
    <2>2. /\ IsSeq(more) /\ Len(more) = Len(added) + 1 /\ DOMAIN more = 1..(Len(added) + 1)
          /\ more[Len(added) + 1] = h /\ \A i \in 1..Len(added) : more[i] = added[i]
      BY <1>1, <2>1, AppendFacts
    <2>3. Len(more) + Len(rest) + Len(pending) <= Len(run.offered)
      BY <1>1, <1>3, <1>4, <2>2
    <2>4. h \in Offered
      BY <1>1, <1>3
    <2>5. ASSUME NEW j \in DOMAIN more
          PROVE  /\ more[j] \in Offered /\ more[j].metric \notin project.metrics
                 /\ Grounded(more[j], project.metrics \cup {more[i].metric : i \in 1..(j - 1)})
      <3>1. CASE j \in 1..Len(added)
        <4>1. \A i \in 1..(j - 1) : more[i] = added[i]
          BY <1>4, <2>2, <3>1
        <4>2. {more[i].metric : i \in 1..(j - 1)} = {added[i].metric : i \in 1..(j - 1)}
          BY <4>1
        <4>3. more[j] = added[j]
          BY <2>2, <3>1
        <4> QED
          BY <1>1, <1>4, <3>1, <4>2, <4>3
      <3>2. CASE j = Len(added) + 1
        <4>1. j - 1 = Len(added)
          BY <1>4, <3>2
        <4>2. {more[i].metric : i \in 1..(j - 1)} = {added[i].metric : i \in DOMAIN added}
          BY <1>4, <2>2, <4>1
        <4>3. more[j] = h
          BY <2>2, <3>2
        <4>4. Bound(added) = project.metrics \cup {more[i].metric : i \in 1..(j - 1)}
          BY <4>2 DEF Bound
        <4> QED
          BY <1>6, <2>4, <4>3, <4>4
      <3>3. DOMAIN more = 1..(Len(added) + 1)
        BY <2>2
      <3>4. j \in 1..Len(added) \/ j = Len(added) + 1
        BY <1>4, <3>3
      <3> QED
        BY <3>1, <3>2, <3>4
    <2>6. ToSet(more) = ToSet(added) \cup {h} /\ Bound(more) = Bound(added) \cup {h.metric}
      <3>1. \A i \in DOMAIN more : more[i] \in ToSet(added) \cup {h}
        BY <1>4, <2>2 DEF ToSet
      <3>2. h = more[Len(added) + 1] /\ Len(added) + 1 \in DOMAIN more
        BY <1>4, <2>2
      <3>3. \A i \in DOMAIN added : added[i] = more[i] /\ i \in DOMAIN more
        BY <1>4, <2>2
      <3>4. ToSet(more) = ToSet(added) \cup {h}
        BY <3>1, <3>2, <3>3 DEF ToSet
      <3>5. \A list : Bound(list) = project.metrics \cup {x.metric : x \in ToSet(list)}
        BY DEF Bound, ToSet
      <3> QED
        BY <3>4, <3>5
    <2>7. ASSUME Acyclic
          PROVE  /\ \A p \in Offered \ ToSet(pending), q \in ToSet(rest) \cup ToSet(pending) :
                      q.metric \notin p.refs
                 /\ \A p \in Offered \ (ToSet(rest) \cup ToSet(pending)) :
                      p.metric \notin project.metrics /\ Grounded(p, Bound(more)) => p \in ToSet(more)
      <3>1. \A p \in Offered \ ToSet(pending), q \in ToSet(rest) \cup ToSet(pending) : q.metric \notin p.refs
        BY <1>2, <1>3, <2>7
      <3>2. ASSUME NEW p \in Offered \ (ToSet(rest) \cup ToSet(pending)), p.metric \notin project.metrics,
                   Grounded(p, Bound(more)), p # h
            PROVE  p \in ToSet(added)
        <4>1. h.metric \notin p.refs
          BY <1>2, <1>3, <2>7, <3>2
        <4>2. Grounded(p, Bound(added))
          BY <2>6, <3>2, <4>1 DEF Grounded
        <4> QED
          BY <1>2, <1>3, <2>7, <3>2, <4>2
      <3> QED
        BY <2>6, <3>1, <3>2
    <2>8. ResolvedOK(pending, rest, more)
      BY <1>1, <1>3, <2>2, <2>3, <2>5, <2>7 DEF ResolvedOK
    <2> QED
      BY <2>8 DEF rest
  <1> QED
    BY <1>5, <1>6

LEMMA NextRoundKeeps == DraftingInv /\ NextRound => DraftingInv'
  <1> SUFFICES ASSUME DraftingInv, NextRound PROVE DraftingInv'
    OBVIOUS
  <1>1. PICK waiting, free :
          /\ waiting = {i \in DOMAIN run.pending : WaitsForAnother(run.pending[i], run.pending)}
          /\ free = Keep(run.pending, DOMAIN run.pending \ waiting)
          /\ run.pc = "resolve" /\ run.ready = <<>> /\ run.pending # <<>>
          /\ run' = IF free = <<>> THEN [run EXCEPT !.ready = run.pending, !.pending = <<>>]
                    ELSE [run EXCEPT !.ready = free, !.pending = Keep(@, waiting)]
          /\ project' = project /\ open' = open
    BY DEF NextRound
  <1>2. PICK old, added : old = run.pending /\ added = run.added
    OBVIOUS
  <1>3. ResolvedOK(old, <<>>, added)
    BY <1>1, <1>2 DEF DraftingInv, CandidatesOK
  <1>4. /\ free = <<>> => ResolvedOK(<<>>, old, added)
        /\ ResolvedOK(Keep(old, waiting), free, added)
    BY <1>1, <1>2, <1>3, RoundKeeps
  <1>5. PICK pending, ready :
          /\ ResolvedOK(pending, ready, added)
          /\ run' = [run EXCEPT !.ready = ready, !.pending = pending]
    BY <1>1, <1>2, <1>4
  <1>6. /\ DOMAIN run' = RunFields /\ run'.pc = "resolve" /\ run'.tries = run.tries
        /\ run'.evidence = run.evidence /\ run'.skipped = run.skipped /\ run'.at = run.at
        /\ run'.plan = run.plan /\ run'.index = run.index /\ run'.drafts = run.drafts
        /\ run'.pending = pending /\ run'.ready = ready /\ run'.added = added
        /\ run'.offered = run.offered /\ run'.sources = run.sources
    BY <1>1, <1>2, <1>5 DEF DraftingInv, RunOK, RunFields
  <1>7. ResolvedOK(pending, ready, added)'
    BY <1>1, <1>5, <1>6, SameGrounds
  <1>8. CandidatesOK'
    BY <1>6, <1>7 DEF CandidatesOK, Before, Builds, Asks, After
  <1>9. /\ run.skipped \subseteq DOMAIN run.evidence /\ run.at \in 1..(Len(run.evidence) + 1)
        /\ open \subseteq ToSet(project.conns)
    BY AfterFacts
  <1> QED
    BY <1>1, <1>6, <1>8, <1>9, AfterKeeps DEF After

LEMMA DecideCandidateKeeps == DraftingInv /\ DecideCandidate => DraftingInv'
  <1> SUFFICES ASSUME DraftingInv, DecideCandidate PROVE DraftingInv'
    OBVIOUS
  <1>1. PICK pending, ready, added, more :
          /\ pending = run.pending /\ ready = run.ready /\ added = run.added
          /\ more = IF /\ Head(ready).metric \notin project.metrics /\ Grounded(Head(ready), Bound(added))
                    THEN Append(added, Head(ready)) ELSE added
    OBVIOUS
  <1>2. /\ run.pc = "resolve" /\ ready # <<>> /\ project' = project /\ open' = open
        /\ run' = [run EXCEPT !.ready = Tail(ready), !.added = more]
    BY <1>1 DEF DecideCandidate
  <1>3. ResolvedOK(pending, ready, added)
    BY <1>1, <1>2 DEF DraftingInv, CandidatesOK
  <1>4. ResolvedOK(pending, Tail(ready), more)
    BY <1>1, <1>2, <1>3, DecideKeeps
  <1>5. PICK rest : rest = Tail(ready)
    OBVIOUS
  <1>6. /\ DOMAIN run' = RunFields /\ run'.pc = "resolve" /\ run'.tries = run.tries
        /\ run'.evidence = run.evidence /\ run'.skipped = run.skipped /\ run'.at = run.at
        /\ run'.plan = run.plan /\ run'.index = run.index /\ run'.drafts = run.drafts
        /\ run'.pending = pending /\ run'.ready = rest /\ run'.added = more
        /\ run'.offered = run.offered /\ run'.sources = run.sources
    <2>1. DOMAIN run = RunFields
      BY DEF DraftingInv, RunOK
    <2>2. run' = [run EXCEPT !.ready = rest, !.added = more]
      BY <1>2, <1>5
    <2>3. run.pc = "resolve" /\ pending = run.pending
      BY <1>1, <1>2
    <2> QED
      BY <2>1, <2>2, <2>3 DEF RunFields
  <1>7. ResolvedOK(pending, rest, more)'
    BY <1>2, <1>4, <1>5, <1>6, SameGrounds
  <1>8. CandidatesOK'
    BY <1>6, <1>7 DEF CandidatesOK, Before, Builds, Asks, After
  <1>9. /\ run.skipped \subseteq DOMAIN run.evidence /\ run.at \in 1..(Len(run.evidence) + 1)
        /\ open \subseteq ToSet(project.conns)
    BY AfterFacts
  <1> QED
    BY <1>2, <1>6, <1>8, <1>9, AfterKeeps DEF After

LEMMA GateKeeps == DraftingInv /\ Gate => DraftingInv'
  <1> SUFFICES ASSUME DraftingInv, Gate PROVE DraftingInv'
    OBVIOUS
  <1>1. PICK pc \in {"done", "failed"} :
          /\ run.pc = "resolve" /\ project' = project /\ open' = open
          /\ run' = [run EXCEPT !.pc = pc]
    BY DEF Gate
  <1>2. /\ DOMAIN run' = RunFields /\ run'.pc = pc /\ run'.tries = run.tries
        /\ run'.evidence = run.evidence /\ run'.skipped = run.skipped /\ run'.at = run.at
        /\ run'.plan = run.plan /\ run'.index = run.index /\ run'.drafts = run.drafts
        /\ run'.pending = run.pending /\ run'.ready = run.ready /\ run'.added = run.added
        /\ run'.offered = run.offered /\ run'.sources = run.sources
    BY <1>1 DEF DraftingInv, RunOK, RunFields
  <1>3. CASE pc = "failed"
    <2>1. run' = Failed(run)
      BY <1>1, <1>3 DEF Failed
    <2> QED
      BY <1>1, <2>1, FailKeeps DEF DraftingInv
  <1>4. CASE pc = "done"
    <2>1. PICK pending, ready, added : pending = run.pending /\ ready = run.ready /\ added = run.added
      OBVIOUS
    <2>2. ResolvedOK(pending, ready, added)
      BY <1>1, <2>1 DEF DraftingInv, CandidatesOK
    <2>3. ResolvedOK(pending, ready, added)'
      BY <1>1, <1>2, <2>2, SameGrounds
    <2>4. CandidatesOK'
      BY <1>2, <1>4, <2>1, <2>3 DEF CandidatesOK, Before, Builds, Asks, After
    <2>5. /\ run.skipped \subseteq DOMAIN run.evidence /\ run.at \in 1..(Len(run.evidence) + 1)
          /\ open \subseteq ToSet(project.conns)
      BY AfterFacts
    <2> QED
      BY <1>1, <1>2, <1>4, <2>4, <2>5, AfterKeeps DEF After
  <1> QED
    BY <1>3, <1>4

\* A connector is closed, or nothing happens.
LEMMA OpenKeeps ==
    ASSUME DraftingInv, project' = project, open' \subseteq open, DOMAIN run' = RunFields,
           run'.pc = run.pc, run'.tries = run.tries, run'.evidence = run.evidence,
           run'.skipped = run.skipped, run'.at = run.at, run'.plan = run.plan,
           run'.index = run.index, run'.drafts = run.drafts, run'.draft = run.draft,
           run'.pending = run.pending, run'.ready = run.ready, run'.added = run.added,
           run'.offered = run.offered, run'.sources = run.sources
    PROVE  DraftingInv'
  <1>1. RunOK'
    BY SameStatements DEF DraftingInv, RunOK
  <1>2. Indexed'
    <2>1. PICK n, m, ix, sk : n = run.at - 1 /\ m = Len(run.evidence) /\ ix = run.index /\ sk = run.skipped
      OBVIOUS
    <2>2. \A k : IndexOK(ix, k, sk) => IndexOK(ix, k, sk)'
      BY SameIndex
    <2>3. run.pc = "place" => IndexOK(ix, n, sk)
      BY <2>1 DEF DraftingInv, Indexed
    <2>4. run.pc \in Builds \cup After => IndexOK(ix, m, sk)
      BY <2>1 DEF DraftingInv, Indexed
    <2>5. /\ run.pc = "place" => IndexOK(run.index, run.at - 1, run.skipped)'
          /\ run.pc \in Builds \cup After => IndexOK(run.index, Len(run.evidence), run.skipped)'
      BY <2>1, <2>2, <2>3, <2>4
    <2> QED
      BY <2>5 DEF DraftingInv, Indexed
  <1>3. Drafted'
    <2>1. (IsSeq(run.drafts) /\ \A i \in DOMAIN run.drafts : DraftOK(run.drafts[i]))'
      BY DraftsStay
    <2>2. PICK d : d = run.draft
      OBVIOUS
    <2>3. run.pc \in Asks => InProgress(d)'
      BY <2>2, SameProgress DEF DraftingInv, Drafted
    <2> QED
      BY <2>1, <2>2, <2>3 DEF Drafted
  <1>4. CandidatesOK'
    <2>1. PICK pending, ready, added : pending = run.pending /\ ready = run.ready /\ added = run.added
      OBVIOUS
    <2>2. run.pc \in {"resolve", "done"} => ResolvedOK(pending, ready, added)'
      BY <2>1, SameGrounds DEF DraftingInv, CandidatesOK
    <2> QED
      BY <2>1, <2>2 DEF DraftingInv, CandidatesOK
  <1>5. ProjectOK' /\ open' \subseteq ToSet(project'.conns)
    BY DEF DraftingInv, ProjectOK
  <1> QED
    BY <1>1, <1>2, <1>3, <1>4, <1>5 DEF DraftingInv

LEMMA CloseKeeps == DraftingInv /\ Close => DraftingInv'
  <1> SUFFICES ASSUME DraftingInv, Close PROVE DraftingInv'
    OBVIOUS
  <1>1. DOMAIN run = RunFields /\ open \subseteq ToSet(project.conns) /\ project' = project
    BY DEF DraftingInv, RunOK, Close
  <1>2. CASE open' = open \ {Head(run.held)} /\ run' = [run EXCEPT !.held = Tail(@)]
    <2>1. /\ DOMAIN run' = RunFields /\ run'.pc = run.pc /\ run'.tries = run.tries
          /\ run'.evidence = run.evidence /\ run'.skipped = run.skipped /\ run'.at = run.at
          /\ run'.plan = run.plan /\ run'.index = run.index /\ run'.drafts = run.drafts
          /\ run'.draft = run.draft /\ run'.pending = run.pending /\ run'.ready = run.ready
          /\ run'.added = run.added /\ run'.offered = run.offered /\ run'.sources = run.sources
      BY <1>1, <1>2 DEF RunFields
    <2>2. open' \subseteq open
      BY <1>2
    <2> QED
      BY <1>1, <2>1, <2>2, OpenKeeps
  <1>3. CASE open' = open /\ run' = [Failed(run) EXCEPT !.held = <<>>, !.broken = TRUE]
    <2>1. /\ DOMAIN run' = RunFields /\ run'.pc = "failed" /\ run'.tries = run.tries
          /\ run'.evidence = run.evidence /\ run'.skipped = run.skipped /\ run'.at = run.at
          /\ run'.plan = run.plan /\ run'.drafts = run.drafts
      BY <1>1, <1>3 DEF Failed, RunFields
    <2>2. run'.tries \in 0..MaxRetries
      BY <2>1 DEF DraftingInv, RunOK
    <2>3. ProjectOK' /\ project'.conns = project.conns
      BY <1>1 DEF DraftingInv, ProjectOK
    <2> QED
      BY <1>1, <1>3, <2>1, <2>2, <2>3, FailedKeeps
  <1> QED
    BY <1>2, <1>3 DEF Close

LEMMA DraftingStep == DraftingInv /\ [DraftingNext]_draftingVars => DraftingInv'
  <1> SUFFICES ASSUME DraftingInv, [DraftingNext]_draftingVars PROVE DraftingInv'
    OBVIOUS
  <1>1. CASE UNCHANGED draftingVars
    BY <1>1, OpenKeeps DEF draftingVars, DraftingInv, RunOK
  <1>2. CASE Close
    BY <1>2, CloseKeeps
  <1>3. CASE Ingest \/ Bootstrap \/ AddTables \/ Gather \/ Gathered
    BY <1>3, IngestKeeps, BootstrapKeeps, AddTablesKeeps, GatherKeeps, GatheredKeeps
  <1>4. CASE PlaceMeasure \/ PlaceDimension \/ PlaceJoin \/ PlaceEntity \/ PassOver \/ AllPlaced
    BY <1>4, PlaceMeasureKeeps, PlaceDimensionKeeps, PlaceJoinKeeps, PlaceEntityKeeps, PassOverKeeps,
       AllPlacedKeeps
  <1>5. CASE DraftRelation \/ BuildOther \/ AttemptFails \/ AnswerUnusable \/ AnswerGrain
    BY <1>5, DraftRelationKeeps, BuildOtherKeeps, AttemptFailsKeeps, AnswerGrainKeeps
  <1>6. CASE AnswerLabels \/ AnswerJoins \/ AllDrafted \/ BuildCandidate \/ Reconcile
    BY <1>6, AnswerLabelsKeeps, AnswerJoinsKeeps, AllDraftedKeeps, BuildCandidateKeeps, ReconcileKeeps
  <1>7. CASE NextRound \/ DecideCandidate \/ Gate
    BY <1>7, NextRoundKeeps, DecideCandidateKeeps, GateKeeps
  <1> QED
    BY <1>1, <1>2, <1>3, <1>4, <1>5, <1>6, <1>7 DEF DraftingNext

-----------------------------------------------------------------------------
(* Drafting: what can be bound                                              *)

BoundOn(B) ==
    {p \in Offered : p.metric \notin project.metrics
       /\ Grounded(p, project.metrics \cup {q.metric : q \in B})}
BindsUpTo(f, m) == f = [n \in 0..m |-> IF n = 0 THEN {} ELSE BoundOn(f[n - 1])]

LEMMA BindsUpToExists ==
    ASSUME NEW m \in Nat
    PROVE  \E f : BindsUpTo(f, m)
  <1> DEFINE S == {k \in Nat : \E f : BindsUpTo(f, k)}
  <1>1. 0 \in S
    <2>1. BindsUpTo([n \in 0..0 |-> {}], 0)
      BY DEF BindsUpTo
    <2> QED
      BY <2>1
  <1>2. ASSUME NEW k \in S PROVE k + 1 \in S
    <2>1. PICK f : BindsUpTo(f, k)
      OBVIOUS
    <2> DEFINE h == [n \in 0..k+1 |-> IF n = k + 1 THEN BoundOn(f[k]) ELSE f[n]]
    <2>2. ASSUME NEW n \in 0..k+1
          PROVE  h[n] = IF n = 0 THEN {} ELSE BoundOn(h[n - 1])
      <3>1. CASE n = k + 1
        <4>1. h[n] = BoundOn(f[k]) /\ h[n - 1] = f[k]
          BY <3>1
        <4> QED
          BY <3>1, <4>1
      <3>2. CASE n # k + 1 /\ n = 0
        <4>1. h[n] = f[0] /\ f[0] = {}
          BY <2>1, <3>2 DEF BindsUpTo
        <4> QED
          BY <3>2, <4>1
      <3>3. CASE n # k + 1 /\ n # 0
        <4>1. h[n] = f[n] /\ h[n - 1] = f[n - 1] /\ n \in 0..k
          BY <3>3
        <4>2. f[n] = BoundOn(f[n - 1])
          BY <2>1, <3>3, <4>1 DEF BindsUpTo
        <4> QED
          BY <3>3, <4>1, <4>2
      <3> QED
        BY <3>1, <3>2, <3>3
    <2>3. BindsUpTo(h, k + 1)
      BY <2>2 DEF BindsUpTo
    <2> QED
      BY <2>3
  <1>3. S = Nat
    <2> HIDE DEF S
    <2>1. S \in SUBSET Nat
      BY DEF S
    <2> QED
      BY <1>1, <1>2, <2>1, Induction
  <1> QED
    BY <1>3

LEMMA BindableIs ==
    ASSUME Len(run.offered) \in Nat
    PROVE  /\ Bindable[0] = {}
           /\ \A n \in Nat : n + 1 <= Len(run.offered) => Bindable[n + 1] = BoundOn(Bindable[n])
  <1> DEFINE m == Len(run.offered)
  <1>1. \E f : BindsUpTo(f, m)
    BY BindsUpToExists
  <1>2. Bindable = CHOOSE f : BindsUpTo(f, m)
    BY DEF Bindable, BindsUpTo, BoundOn
  <1>3. BindsUpTo(Bindable, m)
    BY <1>1, <1>2
  <1>4. \A n \in 0..m : Bindable[n] = IF n = 0 THEN {} ELSE BoundOn(Bindable[n - 1])
    BY <1>3 DEF BindsUpTo
  <1>5. ASSUME NEW n \in Nat, n + 1 <= m PROVE Bindable[n + 1] = BoundOn(Bindable[n])
    <2>1. n + 1 \in 0..m /\ n + 1 # 0 /\ (n + 1) - 1 = n
      BY <1>5
    <2> QED
      BY <1>4, <2>1
  <1>6. Bindable[0] = {}
    BY <1>4
  <1> QED
    BY <1>5, <1>6

LEMMA GroundedGrows ==
    ASSUME NEW A, NEW B, A \subseteq B, NEW p, Grounded(p, A)
    PROVE  Grounded(p, B)
  BY DEF Grounded

LEMMA BoundOnGrows ==
    ASSUME NEW A, NEW B, A \subseteq B
    PROVE  BoundOn(A) \subseteq BoundOn(B)
  <1> DEFINE X == project.metrics \cup {q.metric : q \in A}
             Y == project.metrics \cup {q.metric : q \in B}
  <1>1. X \subseteq Y
    OBVIOUS
  <1> HIDE DEF X, Y
  <1>2. \A p : Grounded(p, X) => Grounded(p, Y)
    BY <1>1, GroundedGrows
  <1> QED
    BY <1>2 DEF BoundOn, X, Y

LEMMA BindableGrows ==
    ASSUME Len(run.offered) \in Nat, NEW n \in Nat
    PROVE  n + 1 <= Len(run.offered) => Bindable[n] \subseteq Bindable[n + 1]
  <1> DEFINE m == Len(run.offered)
             S == {k \in Nat : k + 1 <= m => Bindable[k] \subseteq Bindable[k + 1]}
  <1> HIDE DEF m
  <1>1. /\ Bindable[0] = {}
        /\ \A k \in Nat : k + 1 <= m => Bindable[k + 1] = BoundOn(Bindable[k])
    BY BindableIs DEF m
  <1>2. 0 \in S
    BY <1>1
  <1>3. ASSUME NEW k \in S PROVE k + 1 \in S
    <2> SUFFICES ASSUME (k + 1) + 1 <= m PROVE Bindable[k + 1] \subseteq Bindable[(k + 1) + 1]
      OBVIOUS
    <2>1. m \in Nat
      BY DEF m
    <2>2. k + 1 <= m /\ k \in Nat /\ k + 1 \in Nat
      BY <2>1
    <2>3. Bindable[k] \subseteq Bindable[k + 1]
      BY <2>2
    <2>4. Bindable[k + 1] = BoundOn(Bindable[k]) /\ Bindable[(k + 1) + 1] = BoundOn(Bindable[k + 1])
      BY <1>1, <2>2
    <2> QED
      BY <2>3, <2>4, BoundOnGrows
  <1>4. S = Nat
    <2> HIDE DEF S
    <2>1. S \in SUBSET Nat
      BY DEF S
    <2> QED
      BY <1>2, <1>3, <2>1, Induction
  <1> QED
    BY <1>4 DEF m

LEMMA AddedIsBindable ==
    ASSUME NEW pending, NEW ready, NEW added, ResolvedOK(pending, ready, added)
    PROVE  ToSet(added) \subseteq Bindable[Len(run.offered)]
  <1> DEFINE m == Len(run.offered)
  <1>1. /\ IsSeq(run.offered) /\ IsSeq(pending) /\ IsSeq(ready) /\ IsSeq(added)
        /\ Len(added) + Len(ready) + Len(pending) <= m
        /\ \A j \in DOMAIN added :
             /\ added[j] \in Offered /\ added[j].metric \notin project.metrics
             /\ Grounded(added[j], project.metrics \cup {added[i].metric : i \in 1..(j - 1)})
    BY DEF ResolvedOK
  <1>2. m \in Nat /\ Len(added) \in Nat /\ DOMAIN added = 1..Len(added) /\ Len(added) <= m
    <2>1. m \in Nat /\ Len(added) \in Nat /\ DOMAIN added = 1..Len(added) /\ Len(ready) \in Nat /\ Len(pending) \in Nat
      BY <1>1, SeqFacts
    <2> HIDE DEF m
    <2> QED
      BY <1>1, <2>1
  <1>3. /\ Bindable[0] = {}
        /\ \A k \in Nat : k + 1 <= m => Bindable[k + 1] = BoundOn(Bindable[k])
    BY <1>2, BindableIs
  <1>4. \A n \in Nat : n + 1 <= m => Bindable[n] \subseteq Bindable[n + 1]
    BY <1>2, BindableGrows
  <1> HIDE DEF m
  <1> DEFINE S == {n \in Nat : n <= m => \A i \in DOMAIN added : i <= n => added[i] \in Bindable[n]}
  <1>5. 0 \in S
    BY <1>2
  <1>6. ASSUME NEW n \in S, n < m PROVE n + 1 \in S
    <2>1. n \in Nat /\ n + 1 <= m /\ n <= m
      BY <1>2, <1>6
    <2>2. \A i \in DOMAIN added : i <= n => added[i] \in Bindable[n]
      BY <2>1
    <2>3. Bindable[n] \subseteq Bindable[n + 1] /\ Bindable[n + 1] = BoundOn(Bindable[n])
      BY <1>3, <1>4, <2>1
    <2>4. ASSUME NEW i \in DOMAIN added, i <= n + 1 PROVE added[i] \in Bindable[n + 1]
      <3>1. CASE i <= n
        BY <2>2, <2>3, <3>1
      <3>2. CASE i = n + 1
        <4> DEFINE X == project.metrics \cup {added[k].metric : k \in 1..(i - 1)}
                   Y == project.metrics \cup {q.metric : q \in Bindable[n]}
        <4>1. \A k \in 1..(i - 1) : k \in DOMAIN added /\ k <= n
          BY <1>2, <2>1, <3>2
        <4>2. X \subseteq Y
          BY <2>2, <4>1
        <4>3. Grounded(added[i], X) /\ added[i] \in Offered /\ added[i].metric \notin project.metrics
          BY <1>1
        <4> HIDE DEF X, Y
        <4>4. Grounded(added[i], Y)
          BY <4>2, <4>3, GroundedGrows
        <4>5. added[i] \in BoundOn(Bindable[n])
          BY <4>3, <4>4 DEF BoundOn, Y
        <4> QED
          BY <2>3, <4>5
      <3> QED
        BY <1>2, <2>1, <2>4, <3>1, <3>2
    <2> QED
      BY <2>1, <2>4
  <1>7. m \in S
    <2> HIDE DEF S
    <2>1. S \in SUBSET Nat
      BY DEF S
    <2> QED
      BY <1>2, <1>5, <1>6, <2>1, UpTo
  <1>8. \A i \in DOMAIN added : added[i] \in Bindable[m]
    BY <1>2, <1>7
  <1> QED
    BY <1>8 DEF ToSet, m

LEMMA BindableIsAdded ==
    ASSUME Acyclic, NEW added, ResolvedOK(<<>>, <<>>, added)
    PROVE  Bindable[Len(run.offered)] \subseteq ToSet(added)
  <1> DEFINE m == Len(run.offered)
             A == ToSet(added)
  <1>1. IsSeq(run.offered) /\ ToSet(<<>>) = {}
    BY EmptyFacts DEF ResolvedOK, ToSet
  <1>2. \A p \in Offered : p.metric \notin project.metrics /\ Grounded(p, Bound(added)) => p \in A
    BY <1>1 DEF ResolvedOK
  <1>3. m \in Nat
    BY <1>1, SeqFacts
  <1>4. /\ Bindable[0] = {}
        /\ \A k \in Nat : k + 1 <= m => Bindable[k + 1] = BoundOn(Bindable[k])
    BY <1>3, BindableIs
  <1>5. Bound(added) = project.metrics \cup {q.metric : q \in A}
    BY DEF Bound, ToSet
  <1>6. BoundOn(A) \subseteq A
    BY <1>2, <1>5 DEF BoundOn
  <1> HIDE DEF m, A
  <1> DEFINE S == {n \in Nat : n <= m => Bindable[n] \subseteq A}
  <1>7. 0 \in S
    BY <1>4
  <1>8. ASSUME NEW n \in S, n < m PROVE n + 1 \in S
    <2>1. n \in Nat /\ n + 1 <= m /\ Bindable[n] \subseteq A
      BY <1>3, <1>8
    <2>2. Bindable[n + 1] = BoundOn(Bindable[n])
      BY <1>4, <2>1
    <2>3. BoundOn(Bindable[n]) \subseteq BoundOn(A)
      BY <2>1, BoundOnGrows
    <2> QED
      BY <1>6, <2>1, <2>2, <2>3
  <1>9. m \in S
    <2> HIDE DEF S
    <2>1. S \in SUBSET Nat
      BY DEF S
    <2> QED
      BY <1>3, <1>7, <1>8, <2>1, UpTo
  <1> QED
    BY <1>3, <1>9 DEF m, A

-----------------------------------------------------------------------------
(* Drafting: the theorems                                                   *)

LEMMA DraftingInvImplies == DraftingInv => DraftsAreGrounded /\ SelfAppliedIsDeclared
  <1> SUFFICES ASSUME DraftingInv PROVE DraftsAreGrounded /\ SelfAppliedIsDeclared
    OBVIOUS
  <1>1. \A i \in DOMAIN run.drafts : DraftOK(run.drafts[i])
    BY DEF DraftingInv, Drafted
  <1>2. DraftingTypeOK
    <2>1. \A i \in DOMAIN run.drafts : TypedDraft(run.drafts[i])
      BY <1>1 DEF DraftOK
    <2>2. run.pc \in {"idle", "gather", "place", "draft", "grain", "labels", "joins", "candidates",
                      "resolve", "done", "failed"}
      BY DEF DraftingInv, RunOK, Before, Builds, Asks, After
    <2> QED
      BY <2>1, <2>2 DEF DraftingTypeOK, DraftingInv, ProjectOK, RunOK, TypedDraft
  <1>3. DimensionsAreSound
    BY <1>1 DEF DimensionsAreSound, DraftOK, SoundDims
  <1>4. JoinsAreGrounded
    <2>1. \A i \in DOMAIN run.drafts : SoundJoins(run.drafts[i])
      BY <1>1 DEF DraftOK
    <2> QED
      BY <2>1 DEF JoinsAreGrounded, SoundJoins
  <1>5. DefinitionsAreAccounted
    <2>1. \A i \in DOMAIN run.drafts : Accounted(run.drafts[i])
      BY <1>1 DEF DraftOK
    <2> QED
      BY <2>1 DEF DefinitionsAreAccounted, Accounted
  <1>6. CandidatesAreGrounded
    <2> SUFFICES ASSUME run.pc \in {"done", "resolve"}, run.pending = <<>>, run.ready = <<>>
                 PROVE  /\ ToSet(run.added) \subseteq Bindable[Len(run.offered)]
                        /\ Acyclic => ToSet(run.added) = Bindable[Len(run.offered)]
      BY DEF CandidatesAreGrounded
    <2>1. ResolvedOK(<<>>, <<>>, run.added)
      BY DEF DraftingInv, CandidatesOK
    <2>2. ToSet(run.added) \subseteq Bindable[Len(run.offered)]
      BY <2>1, AddedIsBindable
    <2>3. Acyclic => Bindable[Len(run.offered)] \subseteq ToSet(run.added)
      BY <2>1, BindableIsAdded
    <2> QED
      BY <2>2, <2>3
  <1>7. SelfAppliedIsDeclared
    <2>1. \A i \in DOMAIN run.drafts : Declared(run.drafts[i])
      BY <1>1 DEF DraftOK
    <2> QED
      BY <2>1 DEF SelfAppliedIsDeclared, Declared
  <1> QED
    BY <1>2, <1>3, <1>4, <1>5, <1>6, <1>7 DEF DraftsAreGrounded

\* A draft says what the evidence says, for every number of connections,
\* relations, definitions, guesses and retries: the run of ContextBuilder,
\* DefinitionIndex and CandidateResolver drops nothing silently and binds nothing
\* without its references.
THEOREM DraftsStayGrounded == DraftingSpec => []DraftsAreGrounded
  <1>1. DraftingInv => DraftsAreGrounded
    BY DraftingInvImplies
  <1> QED
    BY <1>1, DraftingInitially, DraftingStep, PTL DEF DraftingSpec

\* What a first bootstrap would write on its own has no guessed grain, no guessed
\* join, no disputed measure or dimension and no flagged measure or join in it
\* (pipeline.py, first_run_auto_acceptable); aliases the model drafted may be.
THEOREM SelfAppliedStaysDeclared == DraftingSpec => []SelfAppliedIsDeclared
  <1>1. DraftingInv => SelfAppliedIsDeclared
    BY DraftingInvImplies
  <1> QED
    BY <1>1, DraftingInitially, DraftingStep, PTL DEF DraftingSpec

=============================================================================
