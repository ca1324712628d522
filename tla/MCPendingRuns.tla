---------------------------- MODULE MCPendingRuns ----------------------------
(* Instances of PendingRuns for TLC.                                        *)
EXTENDS PendingRuns, TLC

CONSTANTS i1, i2, s1, t1, t2

MCTarget == [p \in Props |-> IF p = 1 THEN t1 ELSE t2]
MCSurface == (t1 :> "source") @@ (t2 :> "metric")
\* The source is written, the metric binding removed.
MCOp == [p \in Props |-> IF p = 1 THEN "write" ELSE "prune"]
\* Two ingests are of one second, and once both have started their runs are
\* applied as a whole: reviews are explored on the run of one ingest.
Overlap ==
    (\A i \in Ingests : ingest[i].pc # "idle") =>
        /\ \A i, j \in Ingests : ingest[i].run[1] = ingest[j].run[1]
        /\ \A s \in Sessions : session[s].pc # "idle" => session[s].kind = "apply"
        /\ \A r \in Runs : diff[r] \in {{}, Props}
                          /\ \A p \in Props : status[r].list[p] \in {"pending", "accepted"}
Sym == Permutations(Ingests)
=============================================================================
