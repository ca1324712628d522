------------------------------ MODULE EventLog ------------------------------
(***************************************************************************)
(* The local event log .canonic/events.jsonl: appends and rotations that   *)
(* are serialized by an advisory lock, retention, and readers and          *)
(* `canonic gc`, which take no lock.  Each writer is a process with its    *)
(* own policy: the daemon passes the configured one, most commands use the *)
(* defaults.  A line of the log is one unit of size.                       *)
(***************************************************************************)
EXTENDS Naturals, Sequences, FiniteSets, SequencesExt

CONSTANTS
    Writers,      \* processes that append
    MaxBytes,     \* per writer: the size that triggers a rotation, 0 for never
    Compress,     \* per writer: whether it writes gzipped segments
    MaxSegments,  \* the segments the configured policy keeps, 0 for all
    RetentionDays, \* whether the configured policy also has an age limit
    Daemons,      \* the writers that use the configured policy
    Nobody,       \* the lock is free
    Settings      \* what a history may be made of:
                  \*   contents: what an event may say
                  \*   mayCrash: whether writers are killed
                  \*   maxEvents: bound on the events that are ever created

EventKinds == {"served_answer", "answer_outcome", "funnel_milestone"}

ASSUME EventLogAssumption ==
    /\ \A s \in Settings : /\ \A c \in s.contents : c.kind \in EventKinds
                           /\ s.mayCrash \in BOOLEAN /\ s.maxEvents \in Nat
    /\ MaxBytes \in [Writers -> Nat]
    /\ Daemons \subseteq Writers
    /\ Compress \in [Writers -> BOOLEAN]
    /\ MaxSegments \in Nat
    /\ RetentionDays \in BOOLEAN
    /\ Nobody \notin Writers

VARIABLES
    setting,   \* the setting of this history
    active,    \* the lines of events.jsonl
    segments,  \* the rotated files, an unfinished one too; a later one has a greater stamp
    lock,      \* the holder of events.lock
    writer,    \* per writer: program counter, its event, the new active file
    reader,    \* a process that reads the log: what it has listed and read, and as
               \* history the answers it should find, those a rotation moved since
               \* it listed, and the length of the history when it read the last one
    doomed,    \* the segments gc found expired and has not removed yet
    created,   \* the number of events created, which stamps them
    rotations, \* the number of rotations begun, which names the segments
    recorded,  \* history: the events whose append finished, in order
    dropped    \* history: the events of removed segments

vars == <<setting, active, segments, lock, writer, reader, doomed, created, rotations,
          recorded, dropped>>

\* The lines of some kinds, in their order.
OfKinds(log, kinds) ==
    LET upTo[n \in 0..Len(log)] ==
          IF n = 0 THEN <<>>
          ELSE IF log[n].what.kind \in kinds THEN Append(upTo[n - 1], log[n])
                                             ELSE upTo[n - 1]
    IN  upTo[Len(log)]

\* Only served answers leave the active file.
IsRotatedKind(e) == e.what.kind = "served_answer"
RotatedLines(log) == OfKinds(log, {"served_answer"})
OtherLines(log) == OfKinds(log, EventKinds \ {"served_answer"})

IdleWriter == [pc |-> "idle", event |-> <<>>, rest |-> <<>>]
IdleReader ==
    [pc |-> "idle", todo |-> {}, answers |-> <<>>, outcomes |-> <<>>,
     due |-> {}, moved |-> {}, seen |-> 0]

Init ==
    /\ setting \in Settings
    /\ active = <<>>
    /\ segments = {}
    /\ lock = Nobody
    /\ writer = [w \in Writers |-> IdleWriter]
    /\ reader = IdleReader
    /\ doomed = {}
    /\ created = 0
    /\ rotations = 0
    /\ recorded = <<>>
    /\ dropped = {}

-----------------------------------------------------------------------------
(* DiskAnswerEventLog.append                                                *)

\* The event is built before the lock is taken.  A milestone is only built if
\* the log has none (emit_milestone_once).
Create(w) ==
    /\ writer[w].pc = "idle"
    /\ created < setting.maxEvents
    /\ \E c \in setting.contents :
         /\ c.kind = "funnel_milestone" => \A i \in DOMAIN active : active[i].what # c
         /\ writer' = [writer EXCEPT ![w] =
              [IdleWriter EXCEPT !.pc = "waiting", !.event = [ts |-> created + 1, what |-> c]]]
    /\ created' = created + 1
    /\ UNCHANGED <<setting, active, segments, lock, reader, doomed, rotations, recorded, dropped>>

NeedsRotation(w) == MaxBytes[w] > 0 /\ Len(active) >= MaxBytes[w]

Lock(w) ==
    /\ writer[w].pc = "waiting"
    /\ lock = Nobody
    /\ lock' = w
    /\ writer' = [writer EXCEPT ![w].pc = IF NeedsRotation(w) THEN "rotate" ELSE "append"]
    /\ UNCHANGED <<setting, active, segments, reader, doomed, created, rotations, recorded, dropped>>

\* Mutant: the early return leaves the empty temporary file.
CopyOutLeavesTmp(w) ==
    /\ writer[w].pc = "rotate"
    /\ writer' = [writer EXCEPT
         ![w].pc = IF RotatedLines(active) = <<>> THEN "append" ELSE "copied",
         ![w].rest = OtherLines(active)]
    /\ segments' = segments \cup
         {[stamp |-> rotations + 1, body |-> RotatedLines(active),
           gz |-> Compress[w], tmp |-> TRUE]}
    /\ rotations' = rotations + 1
    /\ UNCHANGED <<setting, active, lock, reader, doomed, created, recorded, dropped>>

\* _rotate writes the two halves of the active file to temporary files; the
\* one for the segment already has a name that the readers' pattern matches.
CopyOut(w) ==
    /\ writer[w].pc = "rotate"
    /\ \/ /\ RotatedLines(active) = <<>>
          /\ writer' = [writer EXCEPT ![w].pc = "append"]
          /\ UNCHANGED <<setting, segments, rotations>>
       \/ /\ RotatedLines(active) # <<>>
          /\ writer' = [writer EXCEPT ![w].pc = "copied",
                                      ![w].rest = OtherLines(active)]
          /\ segments' = segments \cup
               {[stamp |-> rotations + 1, body |-> RotatedLines(active),
                 gz |-> Compress[w], tmp |-> TRUE]}
          /\ rotations' = rotations + 1
    /\ UNCHANGED <<setting, active, lock, reader, doomed, created, recorded, dropped>>

\* Mutant: the active file is replaced first.
ReplaceActiveFirst(w) ==
    /\ writer[w].pc = "copied"
    /\ active' = writer[w].rest
    /\ writer' = [writer EXCEPT ![w].pc = "moved"]
    /\ UNCHANGED <<setting, segments, lock, reader, doomed, created, rotations, recorded, dropped>>

\* The first os.replace: the segment gets its final name.
ReplaceSegment(w) ==
    /\ writer[w].pc = "copied"
    /\ segments' = {IF f.stamp = rotations THEN [f EXCEPT !.tmp = FALSE] ELSE f :
                       f \in segments}
    /\ writer' = [writer EXCEPT ![w].pc = "moved"]
    /\ UNCHANGED <<setting, active, lock, reader, doomed, created, rotations, recorded, dropped>>

\* The second os.replace: the active file keeps the other kinds.
ReplaceActive(w) ==
    /\ writer[w].pc = "moved"
    /\ active' = writer[w].rest
    /\ writer' = [writer EXCEPT ![w].pc = "retain"]
    /\ reader' = [reader EXCEPT !.moved =
         IF reader.pc = "segments" THEN @ \cup Range(RotatedLines(active)) ELSE @]
    /\ UNCHANGED <<setting, segments, lock, doomed, created, rotations, recorded, dropped>>

\* expired_event_segments with the configured policy: how many of the oldest
\* files, finished or not, exceed max_segments or are older than retention_days.
\* The age limit may cut anywhere; a file that is being written is younger.
ExpiredCounts ==
    LET all == Cardinality(segments)
        excess == IF MaxSegments \in 1..all THEN all - MaxSegments ELSE 0
        aged == IF lock = Nobody THEN all ELSE all - 1
    IN  excess..(IF RetentionDays THEN aged ELSE excess)

Expired ==
    {old \in SUBSET segments :
       /\ \A f \in old, g \in segments \ old : f.stamp < g.stamp
       /\ Cardinality(old) \in ExpiredCounts}

Stamps(fs) == {f.stamp : f \in fs}
Lines(fs) == UNION {Range(f.body) : f \in fs}

\* unlink(missing_ok=True).  Dropped are the events that no file has any more.
Unlink(stamps) ==
    LET keep == {f \in segments : f.stamp \notin stamps}
    IN  /\ segments' = keep
        /\ dropped' = dropped \cup (Lines(segments \ keep) \ (Range(active) \cup Lines(keep)))

\* _apply_retention with the writer's own policy; the default one has no limits.
Retain(w) ==
    /\ writer[w].pc = "retain"
    /\ \E old \in IF w \in Daemons THEN Expired ELSE {{}} : Unlink(Stamps(old))
    /\ writer' = [writer EXCEPT ![w].pc = "append"]
    /\ UNCHANGED <<setting, active, lock, reader, doomed, created, rotations, recorded>>

\* The line is written and the lock released.
WriteLine(w) ==
    /\ writer[w].pc = "append"
    /\ active' = Append(active, writer[w].event)
    /\ recorded' = Append(recorded, writer[w].event)
    /\ lock' = Nobody
    /\ writer' = [writer EXCEPT ![w] = IdleWriter]
    /\ UNCHANGED <<setting, segments, reader, doomed, created, rotations, dropped>>

\* A killed process loses its event; the kernel releases its lock.
Crash(w) ==
    /\ setting.mayCrash
    /\ writer[w].pc # "idle"
    /\ writer' = [writer EXCEPT ![w] = IdleWriter]
    /\ lock' = IF lock = w THEN Nobody ELSE lock
    /\ UNCHANGED <<setting, active, segments, reader, doomed, created, rotations, recorded, dropped>>

-----------------------------------------------------------------------------
(* canonic gc --apply                                                       *)

GcScan ==
    /\ doomed = {}
    /\ \E old \in Expired \ {{}} : doomed' = Stamps(old)
    /\ UNCHANGED <<setting, active, segments, lock, writer, reader, created, rotations, recorded,
                   dropped>>

\* One file at a time, oldest first.
GcUnlink ==
    /\ \E stamp \in doomed :
         /\ \A other \in doomed : stamp <= other
         /\ Unlink({stamp})
         /\ doomed' = doomed \ {stamp}
    /\ UNCHANGED <<setting, active, lock, writer, reader, created, rotations, recorded>>

-----------------------------------------------------------------------------
(* BindingOutcomeHistory.from_project: the served answers of all files, then *)
(* the outcomes of the active file                                          *)

\* Mutant: include_segments is false for served answers too.
ListActiveOnly ==
    /\ reader.pc = "idle"
    /\ reader' = [IdleReader EXCEPT !.pc = "segments", !.todo = {},
                    !.due = Range(RotatedLines(recorded)) \ dropped]
    /\ UNCHANGED <<setting, active, segments, lock, writer, doomed, created, rotations, recorded,
                   dropped>>

\* event_log_paths lists the segments before anything is opened.
ListPaths ==
    /\ reader.pc = "idle"
    /\ reader' = [IdleReader EXCEPT !.pc = "segments",
                    !.todo = {[stamp |-> f.stamp, tmp |-> f.tmp] : f \in segments},
                    !.due = Range(RotatedLines(recorded)) \ dropped]
    /\ UNCHANGED <<setting, active, segments, lock, writer, doomed, created, rotations, recorded,
                   dropped>>

Named(name) == {f \in segments : f.stamp = name.stamp /\ f.tmp = name.tmp}

\* The listed files are read oldest first.
IsNext(name) == name \in reader.todo /\ \A other \in reader.todo : name.stamp <= other.stamp

\* Of an unfinished file a reader sees any part; one that is gzipped it opens as
\* text, which works only if no byte of it was flushed.
ReadSegment ==
    /\ reader.pc = "segments"
    /\ \E name \in reader.todo : \E f \in Named(name) : \E n \in 0..Len(f.body) :
         /\ IsNext(name)
         /\ ~f.tmp => n = Len(f.body)
         /\ f.tmp /\ f.gz => n = 0
         /\ reader' = [reader EXCEPT !.todo = @ \ {name},
                         !.answers = @ \o SubSeq(f.body, 1, n)]
    /\ UNCHANGED <<setting, active, segments, lock, writer, doomed, created, rotations, recorded,
                   dropped>>

\* The file was renamed or removed since it was listed, or is a gzipped
\* temporary file, which is opened as text: the error reaches the caller.
FailRead ==
    /\ reader.pc = "segments"
    /\ \E name \in reader.todo : IsNext(name) /\ \A f \in Named(name) : f.tmp /\ f.gz
    /\ reader' = [IdleReader EXCEPT !.pc = "failed"]
    /\ UNCHANGED <<setting, active, segments, lock, writer, doomed, created, rotations, recorded,
                   dropped>>

ReadActive ==
    /\ reader.pc = "segments"
    /\ reader.todo = {}
    /\ reader' = [reader EXCEPT !.pc = "answers",
                    !.answers = @ \o RotatedLines(active),
                    !.seen = Len(recorded)]
    /\ UNCHANGED <<setting, active, segments, lock, writer, doomed, created, rotations, recorded,
                   dropped>>

ReadOutcomes ==
    /\ reader.pc = "answers"
    /\ reader' = [reader EXCEPT !.pc = "done",
                    !.outcomes = OfKinds(active, {"answer_outcome"})]
    /\ UNCHANGED <<setting, active, segments, lock, writer, doomed, created, rotations, recorded,
                   dropped>>

\* The command is over.
EndRead ==
    /\ reader.pc \in {"done", "failed"}
    /\ reader' = IdleReader
    /\ UNCHANGED <<setting, active, segments, lock, writer, doomed, created, rotations, recorded,
                   dropped>>

-----------------------------------------------------------------------------
FinishAppend(w) ==
    \/ CopyOut(w) \/ ReplaceSegment(w) \/ ReplaceActive(w) \/ Retain(w) \/ WriteLine(w)

Write(w) == Create(w) \/ Lock(w) \/ FinishAppend(w) \/ Crash(w)

Gc == GcScan \/ GcUnlink

Read == ListPaths \/ ReadSegment \/ FailRead \/ ReadActive \/ ReadOutcomes \/ EndRead

Next == (\E w \in Writers : Write(w)) \/ Gc \/ Read

\* The holder of the lock and a command that reads run on; nobody has to append,
\* and nothing is assumed of who gets the lock.
Fairness ==
    /\ \A w \in Writers : WF_vars(FinishAppend(w))
    /\ WF_vars(Read)

Spec == Init /\ [][Next]_vars /\ Fairness

-----------------------------------------------------------------------------
Events == [ts : 1..setting.maxEvents, what : setting.contents]
Files ==
    [stamp : Nat \ {0}, body : Seq(Events), gz : BOOLEAN, tmp : BOOLEAN]

TypeOK ==
    /\ active \in Seq(Events)
    /\ segments \subseteq Files
    /\ lock \in Writers \cup {Nobody}
    /\ writer \in [Writers -> [pc : {"idle", "waiting", "rotate", "copied", "moved",
                                     "retain", "append"},
                               event : Events \cup {<<>>}, rest : Seq(Events)]]
    /\ reader.pc \in {"idle", "segments", "answers", "done", "failed"}
    /\ reader.answers \in Seq(Events)
    /\ reader.outcomes \in Seq(Events)
    /\ reader.due \subseteq Events
    /\ reader.moved \subseteq Events
    /\ reader.todo \subseteq [stamp : Nat \ {0}, tmp : BOOLEAN]
    /\ reader.seen \in 0..Len(recorded)
    /\ doomed \subseteq Nat \ {0}
    /\ created \in 0..setting.maxEvents
    /\ rotations \in Nat
    /\ recorded \in Seq(Events)
    /\ dropped \subseteq Events

\* The comment in _rotate, "a crash in between leaves duplicates, never lost
\* events", for every interleaving of writers, kills and gc: an event whose append
\* returned is in the active file or in a finished segment until retention or gc
\* removes the last file that has it.
NoEventLost ==
    Range(recorded) \subseteq
      Range(active) \cup dropped
        \cup Lines({f \in segments : ~f.tmp})

\* Outcomes and milestones are never rotated away, duplicated or reordered:
\* emit_milestone_once and latest_outcome_by_ref read the active file only and
\* rely on its order.
OthersInOrder == OtherLines(active) = OtherLines(recorded)

\* read_events takes no lock, so a rotation between the listing and the reading of
\* the active file may hide what it moved; it may hide nothing else.
ReaderMissesOnlyMoved ==
    reader.pc \in {"answers", "done"} =>
      reader.due \subseteq Range(reader.answers) \cup reader.moved

\* An append that got the lock gives it back, also when the log is over its limit
\* with nothing to rotate.
LockReleased == \A w \in Writers : lock = w ~> lock # w

\* docs/concepts/instrumentation-and-eval.mdx:65, "`canonic status` and `canonic
\* audit` read segments and the active file transparently": a command that fails
\* because files moved under it succeeds when it is run again.  A writer that is killed may leave a segment
\* that no command can read, so this is about logs without kills.
ReadsRecover == (reader.pc = "failed" /\ ~setting.mayCrash) ~> reader.pc = "done"

\* The log keeps what was recorded: nothing is lost, and durable events keep
\* their order (events.py: append, _rotate, _apply_retention).
LogKeepsEvents ==
    /\ TypeOK
    /\ NoEventLost
    /\ OthersInOrder

\* Nobody is stuck: an append gives the lock back, and a failed read can be
\* repeated (events.py: append, read_events).
LogMovesOn ==
    /\ LockReleased
    /\ ReadsRecover
=============================================================================
