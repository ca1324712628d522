----------------------------- MODULE MCDecompose -----------------------------
(***************************************************************************)
(* Any subset of six facts around a month end: members of either dimension *)
(* that appear, vanish, are NULL, or have a numerator and no denominator.  *)
(***************************************************************************)
EXTENDS Decompose

\* January to March of a common year that starts on a Sunday.
Quarter == <<31, 28, 31>>
Sunday == 6

Fact(id, day, region, product, n, d, p) ==
    [id |-> id, day |-> day, region |-> region, product |-> product, channel |-> 1,
     n |-> n, d |-> d, p |-> p, final |-> id \notin {3, 4}]
Rows == {Fact(1, 30, 1, 1, 3, 2, 1), Fact(2, 31, 2, 1, 5, 1, 4), Fact(3, 24, Null, 2, 2, 2, 0),
         Fact(4, 32, 1, 1, 4, 1, 3), Fact(5, 59, 3, 2, 6, 3, 3), Fact(6, 36, 2, 2, 1, 0, 1)}
AnyRows == SUBSET Rows
Later == {Rows, {f \in Rows : f.id # 4}}

Whole == [enabled |-> TRUE, kind |-> "ratio", distinct |-> FALSE, by |-> <<>>, top |-> 3, grain |-> "month",
          base |-> 10, compare |-> 40, now |-> 70, filtersPeriod |-> FALSE, allowOpen |-> FALSE,
          resolves |-> TRUE, compiles |-> TRUE, agg |-> "sum", finality |-> FALSE, flagOpen |-> TRUE]
Ask(changes) == changes @@ Whole
Served ==
    {Ask([kind |-> k, by |-> <<"region", "product">>, top |-> n]) : k \in Decomposable, n \in {1, 3}}
      \cup {Ask([kind |-> k, now |-> t, allowOpen |-> TRUE, by |-> by]) :
                k \in {"single", "ratio"}, t \in {20, 50}, by \in {<<>>, <<"product">>}}
      \cup {Ask([kind |-> k, base |-> 40, compare |-> 10, allowOpen |-> TRUE, now |-> 50]) : k \in {"single", "ratio"}}
      \cup {Ask([kind |-> k, grain |-> g, base |-> 31, compare |-> 36, by |-> <<"region">>]) :
                k \in {"single", "ratio"}, g \in {"day", "week"}}
      \cup {Ask([kind |-> k, now |-> 50, by |-> <<"product">>, finality |-> f, flagOpen |-> f]) :
                k \in {"single", "ratio"}, f \in BOOLEAN}
      \cup {Ask([kind |-> "single", agg |-> a, by |-> <<"region">>, finality |-> f]) : a \in {"min", "max"}, f \in BOOLEAN}
      \cup {Ask([distinct |-> TRUE])}
Refused ==
    {Ask([enabled |-> FALSE]), Ask([by |-> <<"region", "region">>]), Ask([by |-> <<"period">>]),
     Ask([by |-> <<"region", "product", "channel">>]), Ask([kind |-> "percentile"]),
     Ask([distinct |-> TRUE, by |-> <<"region">>]), Ask([compare |-> 31]), Ask([by |-> <<"elsewhere">>]),
     Ask([filtersPeriod |-> TRUE]), Ask([now |-> 59]), Ask([resolves |-> FALSE]), Ask([compiles |-> FALSE])}
Asked == Served \cup Refused

Input(binding, inferred, asserted) == [binding |-> binding, inferred |-> inferred, asserted |-> asserted]
LeafInputs == [n |-> Input("bn", FALSE, TRUE), d |-> Input("bd", FALSE, TRUE), p |-> Input("bp", TRUE, FALSE)]
On(bindings) == [bindings |-> bindings, executable |-> TRUE]
Authored == <<On({"bn"}), On({"bn", "bd"}), [bindings |-> {"bn"}, executable |-> FALSE]>>

\* One request is followed to its answer; what comes after it changes nothing of it.
Unanswered == stage # "done"
==============================================================================
