------------------------------ MODULE MCDrafting ------------------------------
(***************************************************************************)
(* A warehouse w with orders and customers, and a modelling source d that  *)
(* states definitions about them, in several selections and orders.        *)
(***************************************************************************)
EXTENDS Drafting

Type == [c \in Columns |-> CASE c = "day" -> "date" [] c = "name" -> "string" [] OTHER -> "int"]
Stems == [c \in Columns |-> CASE c = "cust_id" -> "cust" [] c = "buyer_id" -> "buyer" [] OTHER -> c]
Totals == [c \in Columns |-> CASE c = "amt" -> "total_amt" [] OTHER -> "total"]

Item(k) == [k |-> k, invalid |-> FALSE]
Table(rel, conn, cols, pk, fks) ==
    [k |-> "schema", invalid |-> FALSE, rel |-> rel, conn |-> conn, cols |-> cols, pk |-> pk,
     fks |-> fks]
FK(col, to, ref) == [to |-> to, col |-> col, ref |-> ref]
Orders(pk, fks) == Table("orders", "w", {"id", "cust_id", "buyer_id", "amt", "day"}, pk, fks)
Customers == Table("customers", "w", {"id", "name"}, {"id"}, <<>>)
\* The modelling source documents some of a relation's columns.
Documented == Table("orders", "w", {"amt", "day"}, {}, <<>>)
Stores == Table("stores", "d", {"id", "name"}, {"id"}, <<>>)

Measure(name, cols, additive, distinct, flagged) ==
    [k |-> "measure", invalid |-> FALSE, refs |-> <<"orders">>,
     additivity |-> IF additive THEN "additive" ELSE "non_additive", flagged |-> flagged,
     entry |-> [name |-> name, cols |-> cols, additive |-> additive, distinct |-> distinct]]
Unclear == [Measure("margin", {"amt"}, TRUE, None, FALSE) EXCEPT !.additivity = None]
Dim(name, cols, bare, alias) ==
    [k |-> "dimension", invalid |-> FALSE, refs |-> <<"orders">>, typed |-> TRUE, flagged |-> FALSE,
     entry |-> [name |-> name, cols |-> cols, bare |-> bare, alias |-> alias]]
Spec1(to, ref) ==
    [left |-> "orders", to |-> to, col |-> "cust_id", ref |-> ref, kind |-> "many_to_one", on |-> TRUE]
Customer == Spec1("customers", "id")
JoinDef(specs, flagged) == [k |-> "join", invalid |-> FALSE, specs |-> specs, flagged |-> flagged]
Entity(grain) == [k |-> "entity", invalid |-> FALSE, refs |-> <<"orders", "returns">>, grain |-> grain]
Candidate(entity, kind, measures, metrics, wants) ==
    [k |-> "candidate", invalid |-> FALSE, entity |-> entity, kind |-> kind,
     measures |-> measures, metrics |-> metrics, wants |-> wants]

Revenue == Measure("revenue", {"amt"}, TRUE, None, FALSE)
Revenue2 == Measure("revenue", {"amt", "id"}, TRUE, None, FALSE)
Buyers == Measure("buyers", {"cust_id"}, FALSE, "cust_id", TRUE)
Median == Measure("median", {"amt"}, FALSE, None, FALSE)

Definitions ==
    {<<Revenue, Revenue, Revenue2, Dim("day", {"amt"}, TRUE, "given")>>,
     <<Buyers, Unclear, Dim("label", {"day", "amt"}, FALSE, None), Dim("all", {}, FALSE, None),
       JoinDef(<<[Customer EXCEPT !.on = FALSE], Customer>>, FALSE), Entity({"id"})>>,
     <<JoinDef(<<Customer, [Customer EXCEPT !.kind = "one_to_one"], Spec1("returns", "id")>>, FALSE),
       Dim("spent", {"amt"}, TRUE, None), Dim("spent", {"day"}, TRUE, None)>>,
     <<Stores, JoinDef(<<Spec1("stores", "id")>>, TRUE), Dim("absent", {"name"}, TRUE, None)>>,
     <<Documented, JoinDef(<<[Customer EXCEPT !.on = FALSE]>>, TRUE), Entity({}),
       Dim("day", {"day"}, TRUE, None)>>,
     <<JoinDef(<<Customer, Spec1("returns", "id")>>, TRUE)>>}
Derived(entity, inputs) == Candidate(entity, "derived", <<>>, inputs, {})
Candidates ==
    {<<Derived("net", <<"revenue", "share">>), Candidate("share", "ratio", <<"revenue", "buyers">>, <<>>, {}),
       Candidate("uniques", "distinct_count", <<"buyers">>, <<>>, {}), Revenue, Buyers>>,
     <<Derived("a", <<"b">>), Derived("b", <<"a", "gross">>), Derived("c", <<"a">>),
       Candidate("last", "offset", <<>>, <<"gross">>, {"day"}), Candidate("m", "single", <<"median">>, <<>>, {}),
       Median>>,
     <<Candidate("won", "conversion", <<"revenue", "buyers">>, <<>>, {"day", "name"}),
       Candidate("ytd", "cumulative", <<"revenue">>, <<>>, {"day"}),
       Candidate("gap", "ratio", <<>>, <<"ytd", "lost">>, {}), Derived("lost", <<"gross", "won">>),
       Candidate("bad", "cumulative", <<"buyers">>, <<>>, {}), Revenue, Buyers>>}
Prose == <<[k |-> "usage", invalid |-> FALSE, role |-> "alternative"],
           [k |-> "usage", invalid |-> FALSE, role |-> "trusted_example"],
           [k |-> "usage", invalid |-> FALSE, role |-> "mention"],
           [k |-> "doc", invalid |-> FALSE, usable |-> TRUE],
           [k |-> "doc", invalid |-> FALSE, usable |-> FALSE], Item("unknown"),
           [k |-> "doc", invalid |-> TRUE, usable |-> TRUE]>>

Project(conns, w, d, docs, filter, sources, metrics) ==
    [conns |-> conns, default |-> "w",
     has |-> ("w" :> <<[cap |-> "introspect_schema", items |-> w]>>)
               @@ ("d" :> <<[cap |-> "extract_definitions", items |-> d],
                            [cap |-> "test_connection", items |-> <<>>],
                            [cap |-> "extract_evidence", items |-> docs]>>),
     filter |-> ("w" :> filter) @@ ("d" :> None),
     outcomes |-> <<Item("outcome")>>, sources |-> sources, metrics |-> metrics]
Known1 == [name |-> "orders", cols |-> {"id", "amt"}, dims |-> {}, measures |-> {"row_count"}]

Small ==
    {Project(conns, <<Orders({}, <<>>), Customers>>, d, <<>>, None, {}, {}) :
       conns \in {<<"w", "d">>, <<"d", "w">>}, d \in Definitions}
    \cup {Project(<<"w", "d">>, <<Orders({"id"}, fks), Customers>>, d, <<>>, None, {}, {}) :
            d \in Definitions, fks \in {<<FK("cust_id", "customers", "id")>>,
                     <<FK("cust_id", "customers", "id"), FK("buyer_id", "customers", "id")>>}}
    \cup {Project(<<"w", "d">>, <<Orders({"id"}, <<FK("cust_id", "customers", "id")>>)>>, d, <<>>,
                  None, s, m) : d \in Candidates, s \in {{}, {Known1}}, m \in {{"gross"}, {"gross", "a"}}}
    \cup {Project(<<"w", "d">>, <<Customers>>, <<>>, Prose, {}, {Known1}, {}),
          Project(<<>>, <<>>, <<>>, <<>>, None, {}, {})}

Guess(col, to, ref, conf) == [col |-> col, to |-> to, ref |-> ref, conf |-> conf]
Guesses == {Guess("cust_id", "customers", "id", 90), Guess("buyer_id", "customers", "id", 60),
            Guess("amt", "customers", "id", 90), Guess("cust_id", "customers", "day", 90)}
==============================================================================
