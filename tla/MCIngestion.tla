----------------------------- MODULE MCIngestion -----------------------------
(* Instances of Ingestion for TLC.                                          *)
EXTENDS Ingestion, TLC

CONSTANTS src1, bnd, asr

MCBoundTo == bnd :> src1
MCNeeds == bnd :> {1}

Blank ==
    [target |-> src1, kind |-> "draft", fp |-> 1, def |-> 0, struct |-> 1,
     types |-> 1, conf |-> 10, modeling |-> FALSE, llm |-> FALSE, ref |-> 0, scope |-> 1]

\* Two versions of a table, one that loses the measure of the binding and one
\* that only changes a description.
Live1 == Blank
Live2 == [Blank EXCEPT !.fp = 2, !.struct = 2, !.types = 2]
Live3 == [Blank EXCEPT !.fp = 3]
\* Drafted with a guessed grain.
Guessed == [Blank EXCEPT !.fp = 4, !.conf = 5, !.llm = TRUE]
\* The same table as a definition connector models it.
Model1 == [Blank EXCEPT !.def = 1, !.modeling = TRUE, !.scope = 2]
\* A second definition connector, in disagreement with the first.
Rival == [Model1 EXCEPT !.def = 2, !.scope = 3]
\* A second live connector that states the same relation.
Other == [Blank EXCEPT !.fp = 5, !.types = 2, !.scope = 2]
Candidate == [Blank EXCEPT !.target = bnd, !.kind = "candidate", !.fp = 7, !.def = 0,
                           !.struct = 0, !.types = 0, !.conf = 5, !.modeling = TRUE]
Alternative == [Blank EXCEPT !.target = bnd, !.kind = "deprecated", !.fp = 8,
                             !.struct = 0, !.types = 0, !.ref = 1]
Outcome == [Blank EXCEPT !.target = bnd, !.kind = "outcome", !.fp = 9,
                         !.struct = 0, !.types = 0]
Example == [Blank EXCEPT !.target = asr, !.kind = "example", !.fp = 10,
                         !.struct = 0, !.types = 0]

NoFiles == [t \in Targets |-> Absent]
\* The first version of the table and a binding somebody wrote for it.
Bound ==
    [NoFiles EXCEPT ![src1] = Rendered(Live1),
                    ![bnd] = [Absent EXCEPT !.on = TRUE, !.prov = "human_curated",
                                            !.human = TRUE]]

About(tree, items, autoApply, bootstrap, maxRuns) ==
    [tree |-> tree, items |-> items, autoApply |-> autoApply, bootstrap |-> bootstrap,
     maxRuns |-> maxRuns]
\* A table that drifts, reviewed over two runs, and next to a worked example.
Drift == {About(NoFiles, {Live1, Live2}, FALSE, FALSE, 2),
          About(NoFiles, {Live1, Live2, Example}, FALSE, FALSE, 1)}
\* Evidence about one binding, with auto-apply, with and without an accepted one.
OfBinding == {Live1, Candidate, Alternative, Outcome}
Merge == {About(NoFiles, OfBinding, TRUE, FALSE, 1),
          About(Bound, OfBinding \cup {Live3}, TRUE, FALSE, 1)}
\* Sources that disagree about one table, with a first bootstrap.
Disagree == About(NoFiles, {Live1, Guessed, Other, Model1, Rival}, TRUE, TRUE, 1)
Three == {Disagree} \cup Drift \cup Merge
=============================================================================
