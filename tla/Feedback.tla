------------------------------ MODULE Feedback ------------------------------
(***************************************************************************)
(* BindingOutcomeHistory and the cap it puts on the trust of a binding,    *)
(* computed from what a reader found in the event log.  A served answer    *)
(* has the hash of its query and the binding of each metric (none if it    *)
(* failed to compile); a mark has the hash it is about, a verdict and the  *)
(* role that made it.                                                      *)
(***************************************************************************)
EXTENDS EventLog

CONSTANT
    Bindings  \* the source.measure bindings

\* latest_outcome_by_ref: the last mark in file order wins.
LatestOutcomeByRef(outcomes) ==
    {outcomes[i] : i \in {j \in DOMAIN outcomes :
        \A k \in DOMAIN outcomes : k > j => outcomes[k].what.ref # outcomes[j].what.ref}}

\* Mutant: the first answer to a query is kept.
FirstByHash(answers, ref) ==
    {answers[i] : i \in {j \in DOMAIN answers :
        /\ answers[j].what.ref = ref
        /\ \A k \in DOMAIN answers : k < j => answers[k].what.ref # ref}}

\* by_hash: the last answer to a query wins.  Empty if there is none.
ByHash(answers, ref) ==
    {answers[i] : i \in {j \in DOMAIN answers :
        /\ answers[j].what.ref = ref
        /\ \A k \in DOMAIN answers : k > j => answers[k].what.ref # ref}}

\* What a mark o says of the binding that answer a gave metric m.
RecordOf(o, a, m) ==
    [ts |-> o.ts, ref |-> o.what.ref, metric |-> m, verdict |-> o.what.verdict,
     by |-> o.what.by, binding |-> a.what.resolved[m]]

\* BindingOutcomeHistory.from_events: one record per mark and metric.
Records(answers, outcomes) ==
    UNION {UNION {{RecordOf(o, a, m) : m \in DOMAIN a.what.resolved} :
                    a \in ByHash(answers, o.what.ref)} :
             o \in LatestOutcomeByRef(outcomes)}

\* _wrong_definition_records of a window that began at since.
WrongDefinition(records, b, since) ==
    {r \in records : r.binding = b /\ r.verdict = "wrong_definition" /\ r.ts >= since}

\* is_capped: the latest complaint is in the window and nothing later says correct.
IsCapped(records, b, since) ==
    \E r \in WrongDefinition(records, b, since) :
      /\ \A s \in WrongDefinition(records, b, 0) : s.ts <= r.ts
      /\ ~\E s \in records : s.binding = b /\ s.verdict = "correct" /\ s.ts > r.ts

-----------------------------------------------------------------------------
\* What a reader computes, and what the whole history would have given it.
Found == Records(reader.answers, reader.outcomes)
Served == RotatedLines(SubSeq(recorded, 1, reader.seen))
Known == Records(Served, reader.outcomes)

\* BindingOutcomeHistory.from_project on a log that was rotated, duplicated by a
\* kill and pruned joins a mark to the binding the whole history gives it, or to
\* none if the last answer to its query is gone; never to an older answer.  A
\* rotation during the read is the exception (ReaderMissesOnlyMoved).
MarksKeepTheirBinding ==
    reader.pc = "done" /\ reader.moved = {} =>
      /\ Found \subseteq Known
      /\ \A r \in Known : ByHash(Served, r.ref) \cap dropped = {} => r \in Found

\* A binding is capped only for a query whose last mark is a complaint and whose
\* last answer it served; while a rotation moves answers under the reader, for a
\* query it served at all.  This is weaker than "Only `wrong_definition` ever
\* implicates the canonical binding that served the answer"
\* (docs/concepts/ingestion-and-reconciliation.mdx:72): a mark is joined by the
\* hash of its query (history.py, from_events), so when the query was answered
\* again the last answer counts, and it may be one that was served after the mark
\* and by another binding than the one the mark was about.
CapIsEarned ==
    reader.pc = "done" =>
      \A b \in Bindings : IsCapped(Found, b, 1) =>
        \E k \in DOMAIN reader.outcomes :
          LET mark == reader.outcomes[k].what
          IN  /\ mark.verdict = "wrong_definition"
              /\ \A l \in k + 1 .. Len(reader.outcomes) : reader.outcomes[l].what.ref # mark.ref
              /\ \E e \in Range(recorded) : /\ IsRotatedKind(e) /\ e.what.ref = mark.ref
                                            /\ b \in Range(e.what.resolved)
                                            /\ reader.moved = {} => e \in ByHash(Served, mark.ref)

\* Rotation, kills and pruning never turn a mark against a binding that the whole
\* history would not have given it: it counts for the last answer to its query or
\* not at all, and a cap rests on a complaint that stands (history.py,
\* from_project; signals.py, is_capped).
MarksFollowLastAnswer ==
    /\ MarksKeepTheirBinding
    /\ CapIsEarned
=============================================================================
