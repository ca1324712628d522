----------------------------- MODULE MCCompiler ------------------------------
(***************************************************************************)
(* An order system.  orders has two joins, customers under the role buyer  *)
(* and the fanning items; "cust" is a column of orders and a dimension of  *)
(* customers; ledger realizes revenue a second time.  Half of the requests *)
(* ask every pair of candidate bindings for a bare answer, the other half  *)
(* ask one rich project many queries under several policies.               *)
(***************************************************************************)
EXTENDS Compiler

OrderList == <<"buyer", "customers", "items", "ledger", "orders", "stock">>

D(n, c, grain) == [name |-> n, aliases |-> {}, col |-> c, grain |-> grain]
J(as, to, fan) == [as |-> as, to |-> to, fan |-> fan]

Graph ==
    [orders |-> [dims |-> {D("date", "d", "day"), D("status", "status", "none")},
                 cols |-> [d |-> "date", status |-> "text", cust |-> "text", region |-> "text",
                           tenant |-> "text"],
                 measures |-> [revenue |-> "sum", peak |-> "max", aov |-> "nonadditive",
                               level |-> "semi", spread |-> "other"],
                 over |-> [level |-> {"date"}], grain |-> {"date", "status"},
                 joins |-> <<J("buyer", "customers", FALSE), J("items", "items", TRUE)>>],
     customers |-> [dims |-> {D("region", "region", "none"), D("cust", "cust", "none")},
                    cols |-> [region |-> "text", cust |-> "text", tenant |-> "text"],
                    measures |-> [heads |-> "sum"], grain |-> {"cust"}, joins |-> <<>>],
     items |-> [dims |-> {D("sku", "sku", "none"), D("date", "d", "day")},
                cols |-> [sku |-> "text", d |-> "date"],
                measures |-> [units |-> "sum"], grain |-> {"sku"},
                joins |-> <<J("stock", "stock", FALSE)>>],
     stock |-> [dims |-> {D("bin", "bin", "none"), D("cust", "cust", "none")},
                cols |-> [bin |-> "text", cust |-> "text", tenant |-> "int"],
                measures |-> [heads |-> "sum"], grain |-> {"bin"}, joins |-> <<>>],
     ledger |-> [dims |-> {D("date", "d", "day"), D("status", "status", "none")},
                 cols |-> [d |-> "date", status |-> "text", tenant |-> "text"],
                 measures |-> [revenue |-> "sum"], grain |-> {"date"},
                 joins |-> <<J("items", "items", TRUE)>>]]

B(n, aliases, ref) == [metric |-> n, aliases |-> aliases, active |-> TRUE, ref |-> ref]
Bare(n) == <<NoRole, n>>
Measure(s, m) == [kind |-> "single", source |-> s, measure |-> m]
Narrow(id, n) == [id |-> id, names |-> {n}]

\* What m and n may be bound to; other is the second of the two.
Candidates(other) ==
    {Measure("orders", "aov"), Measure("orders", "revenue") @@ [pop |-> Narrow("p0", "status")],
     Measure("orders", "units"), Measure("orders", "level"), Measure("orders", "spread"),
     Measure("orders", "revenue") @@ [pop |-> Narrow("p4", "cust")],
     Measure("orders", "revenue") @@ [pop |-> Narrow("p5", "region")],
     [kind |-> "ratio", deps |-> <<"rev", "units">>],
     [kind |-> "ratio", deps |-> <<"rev", other>>, pop |-> Narrow("p1", "status")],
     [kind |-> "weighted_avg", deps |-> <<"rev", "units">>, parts |-> <<"rev", "units">>],
     [kind |-> "offset", deps |-> <<other>>, time |-> Bare("date"), delta |-> "-1y", pop |-> Narrow("p2", "date")],
     [kind |-> "offset", deps |-> <<"rev">>, time |-> Bare("date"), delta |-> "-1m"],
     [kind |-> "offset", deps |-> <<"rev">>, time |-> Bare("sku"), delta |-> "-1m"],
     [kind |-> "derived", deps |-> <<"rev", other>>, pop |-> Narrow("p3", "status")],
     [kind |-> "derived", deps |-> <<other, other>>],
     [kind |-> "distinct_count", source |-> "orders", column |-> "status"],
     [kind |-> "distinct_count", source |-> "orders", column |-> "nowhere"],
     [kind |-> "percentile", source |-> "orders", column |-> "status", quantile |-> 50],
     [kind |-> "semi_additive", source |-> "orders", measure |-> "revenue", column |-> "date"],
     [kind |-> "opaque", source |-> "orders", measure |-> "aov", grain |-> {"status"}],
     [kind |-> "cumulative", source |-> "orders", measure |-> "revenue", order |-> <<Bare("date")>>,
      history |-> "include"],
     [kind |-> "cumulative", source |-> "orders", measure |-> "revenue", order |-> <<Bare("date")>>,
      window |-> 7],
     [kind |-> "conversion", deps |-> <<"rev", "units">>, entity |-> <<"status", "sku">>,
      times |-> <<"date", "date">>]}

Base == <<B("rev", {"sales"}, Measure("orders", "revenue")), B("units", {}, Measure("items", "units"))>>

Plain == [g |-> Graph, rules |-> {}, finality |-> {}, assertions |-> {}, tier |-> 2,
          tenancy |-> NoPolicy, roles |-> NoPolicy, bindings |-> <<>>]

Ask1(metrics) == [metrics |-> metrics, dims |-> <<>>, filters |-> {}, range |-> NoRange,
                  context |-> NoContext, via |-> <<>>, late |-> FALSE]
Anyone == [roles |-> {}, tenants |-> {}, numbers |-> {}, exempt |-> FALSE]

PairRequests ==
    {<<[Plain EXCEPT !.bindings = Base \o <<B("m", {}, a), B("n", {"nn"}, b)>>],
       {Ask1(<<"m">>), Ask1(<<"nn", "m">>)}, {Anyone}>> :
       a \in Candidates("n"), b \in Candidates("m")}

-----------------------------------------------------------------------------
Rich ==
    Base \o
    <<B("aov", {}, Measure("orders", "aov")),
      B("gross", {}, Measure("orders", "revenue")),
      B("paid", {}, Measure("orders", "revenue") @@ [pop |-> Narrow("p0", "status")]),
      B("mix", {}, [kind |-> "ratio", deps |-> <<"rev", "units">>, pop |-> Narrow("p1", "date")]),
      B("past", {}, [kind |-> "offset", deps |-> <<"mix">>, time |-> Bare("date"), delta |-> "-1y",
                     pop |-> Narrow("p2", "date")]),
      B("growth", {}, [kind |-> "derived", deps |-> <<"rev", "past">>]),
      B("buyers", {}, [kind |-> "distinct_count", source |-> "orders", column |-> "status"]),
      B("payers", {}, [kind |-> "ratio", deps |-> <<"buyers", "rev">>]),
      B("run", {}, [kind |-> "cumulative", source |-> "orders", measure |-> "revenue",
                    order |-> <<Bare("date")>>, history |-> "include"]),
      B("roll", {}, [kind |-> "cumulative", source |-> "orders", measure |-> "revenue",
                     order |-> <<Bare("date")>>, window |-> 7]),
      B("stockpile", {}, [kind |-> "semi_additive", source |-> "orders", measure |-> "revenue", column |-> "date"]),
      B("frozen", {}, [kind |-> "opaque", source |-> "orders", measure |-> "aov", grain |-> {"status"}]),
      B("conv", {}, [kind |-> "conversion", deps |-> <<"paid", "units">>, entity |-> <<"status", "sku">>,
                     times |-> <<"date", "date">>])>>

RichTenancy == [scoped |-> [orders |-> "tenant", customers |-> "tenant", ledger |-> "tenant",
                            stock |-> "tenant"],
                shared |-> {"items"}, undeclared |-> "deny", missing |-> "deny"]
LaxTenancy == [RichTenancy EXCEPT !.shared = {}, !.undeclared = "warn", !.missing = "allow_unscoped"]
RichRoles == [roles |-> [analyst |-> [dims |-> [allow |-> {Star}, deny |-> {"region"}]],
                         senior |-> [inherits |-> "analyst", metrics |-> [allow |-> {Star}, deny |-> {"aov"}]]],
              default |-> "analyst"]
RichRules ==
    {[id |-> "g1", kind |-> "mandatory_filter", at |-> [source |-> "orders"], refs |-> {Bare("status")}],
     [id |-> "g2", kind |-> "required_dimension", at |-> [metric |-> "units"], dim |-> Bare("sku"),
      context |-> "board", severity |-> "error"],
     [id |-> "g3", kind |-> "min_trust", at |-> [source |-> "items", measure |-> "units"], level |-> 3,
      context |-> "audit", severity |-> "error"],
     [id |-> "g4", kind |-> "restrict_source", at |-> [metric |-> "rev"], role |-> "final",
      context |-> "board", severity |-> "error"]}
Realization(s, role) == [source |-> s, role |-> role]
FinalAt(m, w) == [metric |-> m, watermark |-> w, flag |-> "per_row",
                  realizations |-> <<Realization("orders", "provisional"), Realization("ledger", "final")>>]
\* The second rule has another watermark, the same one, or the same one with the roles swapped.
RichFinality(second) ==
    {FinalAt("rev", 1),
     CASE second = "later" -> FinalAt("gross", 2)
       [] second = "same" -> FinalAt("gross", 1)
       [] second = "swapped" -> [FinalAt("gross", 1) EXCEPT !.realizations =
                                   <<Realization("orders", "final"), Realization("ledger", "provisional")>>]}

RichProjects ==
    {[Plain EXCEPT !.bindings = Rich, !.tenancy = t[1], !.roles = t[2], !.rules = rules, !.finality = f] :
       t \in {<<NoPolicy, RichRoles>>, <<RichTenancy, RichRoles>>, <<LaxTenancy, NoPolicy>>}, rules \in {{}, RichRules},
       f \in {{}} \cup {RichFinality(second) : second \in {"later", "same", "swapped"}}}

RichQueries ==
    {[Ask1(ms) EXCEPT !.dims = dims, !.filters = f[1], !.range = f[2], !.context = f[3], !.late = f[4]] :
       ms \in {<<"rev", "units">>, <<"rev", "gross">>, <<"sales", "paid">>, <<"mix", "rev">>, <<"past">>, <<"growth", "past">>,
               <<"buyers", "payers">>, <<"run">>, <<"roll">>, <<"stockpile">>, <<"frozen">>,
               <<"conv">>, <<"aov">>},
       dims \in {<<>>, <<Bare("date")>>, <<Bare("status")>>, <<<<"buyer", "region">>, Bare("date")>>, <<Bare("bin")>>,
               <<Bare("date"), Bare("bin")>>},
       f \in {<<{}, NoRange, NoContext, FALSE>>, <<{<<"buyer", "region">>}, NoRange, NoContext, FALSE>>,
              <<{}, Bare("date"), NoContext, FALSE>>, <<{}, Bare("date"), "board", TRUE>>}}
    \cup {[Ask1(<<"units">>) EXCEPT !.context = "audit"], Ask1(<<"gone">>), Ask1(<<>>)}

RichCallers ==
    {Anyone, [Anyone EXCEPT !.exempt = TRUE],
     [Anyone EXCEPT !.tenants = {"1"}, !.numbers = {"1"}, !.roles = {"senior"}],
     [Anyone EXCEPT !.tenants = {"t1"}]}

RichRequests == RichProjects \X {RichQueries} \X {RichCallers}

AllRequests == PairRequests \cup RichRequests
=============================================================================
