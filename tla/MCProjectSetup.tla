--------------------------- MODULE MCProjectSetup ----------------------------
(***************************************************************************)
(* Two connections, one of which is evidence for the other; two versions   *)
(* of a pack, one that reuses a name, and one that is too new; two sources *)
(* that share a measure name.                                              *)
(***************************************************************************)
EXTENDS ProjectSetup

TwoConnections == {[id |-> "w", type |-> "postgres", target |-> Null], [id |-> "e", type |-> "dbt", target |-> "w"]}
Metric(name) == [dir |-> "metrics", name |-> name]
Pack(id, version, connector, compatible, contents) ==
    [id |-> id, version |-> version, connector |-> connector, compatible |-> compatible, files |-> contents]
PackRepo == {Pack("p", 1, "postgres", TRUE, <<[dir |-> "semantics", name |-> <<"orders">>], Metric(<<"total">>)>>),
             Pack("p", 2, "postgres", TRUE, <<Metric(<<"total">>)>>),
             Pack("q", 1, "dbt", TRUE, <<Metric(<<"total">>), Metric(<<"total">>)>>),
             Pack("r", 1, "dbt", TRUE, <<Metric(Null)>>),
             Pack("s", 1, "dbt", FALSE, <<>>)}
TwoSources == <<[name |-> <<"orders">>, measures |-> <<<<"total">>>>], [name |-> <<"shop">>, measures |-> <<<<"total">>>>]>>
==============================================================================
