----------------------------- MODULE MCEventLog -----------------------------
(* Instances of EventLog and Feedback for TLC.                              *)
EXTENDS Feedback, TLC

CONSTANTS w1, w2, b1, b2

Answer(q, bindings) == [kind |-> "served_answer", ref |-> q, resolved |-> bindings]
Mark(q, verdict, by) ==
    [kind |-> "answer_outcome", ref |-> q, verdict |-> verdict, by |-> by]
Milestone == [kind |-> "funnel_milestone"]

Says(contents, mayCrash, maxEvents) ==
    [contents |-> contents, mayCrash |-> mayCrash, maxEvents |-> maxEvents]
Complaint == Mark("q1", "wrong_definition", "analyst")
From(b) == Answer("q1", [m \in {"m"} |-> b])
\* One query is answered from two bindings and marked wrong, the log also has a
\* milestone, and writers are killed; a longer history of answers and marks; and
\* one in which a mark is taken back.
MCSettings ==
    {Says({From(b1), From(b2), Complaint, Milestone}, TRUE, 3),
     Says({From(b1), Complaint}, FALSE, 4),
     Says({From(b1), Complaint, Mark("q1", "correct", "analyst")}, FALSE, 3)}

\* The daemon rotates at one line, uncompressed; a command at two, gzipped.
MCMaxBytes == [w \in Writers |-> IF w = w1 THEN 1 ELSE 2]
MCCompress == [w \in Writers |-> w # w1]
=============================================================================
