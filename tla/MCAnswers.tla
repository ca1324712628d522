------------------------------ MODULE MCAnswers ------------------------------
(***************************************************************************)
(* December 2022 to April 2023: day 1 is a Thursday, day 90 February 28.   *)
(* The values of a table are distinct powers of two, so a sum tells which  *)
(* rows it counts; every table is any subset of the candidate rows.        *)
(***************************************************************************)
EXTENDS Answers, TLC

Winter == <<31, 31, 28, 31, 30>>
Thursday == 3

Between(a, b) == [start |-> a, end |-> b]
For(n, u) == [count |-> n, unit |-> u]
Row(id, day, grp, v) == [id |-> id, day |-> day, hour |-> 0, grp |-> grp, ent |-> grp, v |-> v]
Stamped(id, day, hour, grp, v) == [id |-> id, day |-> day, hour |-> hour, grp |-> grp, v |-> v]
Event(id, ent, day, grp, v) == [id |-> id, ent |-> ent, day |-> day, grp |-> grp, v |-> v]

Plain == [dims |-> {"day", "grp"}, items |-> {}, second |-> {}, bucket |-> "day", range |-> Null,
          keep |-> Null, window |-> Null, shifts |-> <<>>, toDate |-> Null, collapse |-> "last", history |-> "include",
          fill |-> FALSE, period |-> "last", anchor |-> 140, quantile |-> 50, offset |-> 0,
          asOf |-> 10, hour |-> 0, zone |-> 0, wallClock |-> FALSE, last |-> Null, current |-> FALSE,
          combine |-> "direct", filters |-> {}, restricted |-> FALSE]
Ask(changes) == changes @@ Plain

Sales == {Row(1, 2, "x", 1), Row(2, 2, Null, 2), Row(3, 4, "x", 4), Row(4, 4, "y", 8), Row(5, Null, "y", 16),
          Row(6, 35, "x", Null)}
Visits == {Row(1, 2, "x", 0), Row(2, 4, Null, 32), Row(3, 3, "y", 64)}

SimpleOnes ==
    {Ask([kind |-> "simple", dims |-> d, rows |-> r, second |-> s, combine |-> c, range |-> w]) :
        d \in {{}, {"grp"}, {"day", "grp"}}, r \in SUBSET Sales, s \in {{}, {Row(1, 2, "x", 0)}, Visits},
        c \in {"direct", "ratio_null", "ratio_zero"}, w \in {Null, Between(3, 36)}}

MonthEnd == {Row(1, 59, "x", 1), Row(2, 61, "x", 2), Row(3, 62, "y", 4), Row(4, 64, "x", 8), Row(5, 89, "y", 16),
             Row(6, 90, "x", 32), Row(7, Null, "x", 64)}
RelativeOnes ==
    {Ask([kind |-> "simple", rows |-> r, last |-> l, current |-> c, asOf |-> t, bucket |-> l.unit]) :
        r \in SUBSET MonthEnd, l \in {For(1, "month"), For(2, "month"), For(2, "week")},
        c \in BOOLEAN, t \in {90, 91, 99, 121}}

Lines == {[id |-> 1, owner |-> 1, grp |-> "p"], [id |-> 2, owner |-> 1, grp |-> "q"],
          [id |-> 3, owner |-> 3, grp |-> "p"], [id |-> 4, owner |-> 3, grp |-> Null],
          [id |-> 5, owner |-> 4, grp |-> "q"]}
DedupedOnes ==
    {Ask([kind |-> "deduped", dims |-> d, rows |-> r, items |-> i, keep |-> k]) :
        d \in {{}, {"grp"}, {"day"}}, r \in SUBSET {s \in Sales : s.id \in {1, 2, 3, 4}},
        i \in {Lines, {l \in Lines : l.id \in {1, 2, 5}}}, k \in {Null, {"p"}}}

Balances == {Event(1, "e", 2, "x", 1), Event(2, "e", 5, "y", 2), Event(3, "e", 35, "x", 4),
             Event(4, "f", 2, "x", 8), Event(5, "f", 35, "y", 16)}
SemiOnes ==
    {Ask([kind |-> "semi_additive", dims |-> d, rows |-> r, collapse |-> c, range |-> w, bucket |-> b]) :
        d \in {{}, {"grp"}, {"day"}, {"day", "grp"}}, r \in SUBSET Balances,
        c \in {"last", "first", "max", "min"}, w \in {Null, Between(1, 6)}, b \in {"day", "month"}}

PercentileOnes ==
    {Ask([kind |-> "percentile", dims |-> d, rows |-> r, quantile |-> q]) :
        d \in {{}, {"grp"}}, r \in SUBSET Sales, q \in {25, 50, 90}}

RunningOnes ==
    {Ask([kind |-> "running", dims |-> d, rows |-> r, second |-> s, history |-> h, fill |-> f, range |-> w, bucket |-> b]) :
        d \in {{"day"}, {"day", "grp"}}, r \in SUBSET Sales, s \in {{}, Visits}, h \in {"include", "exclude"},
        f \in BOOLEAN, w \in {Null, Between(3, 36)}, b \in {"day", "month"}}

RollingOnes ==
    {Ask([kind |-> "rolling", dims |-> d, rows |-> r, window |-> w.window, toDate |-> w.toDate, range |-> g,
          bucket |-> b, period |-> p, anchor |-> a]) :
        d \in {{"day"}, {"day", "grp"}}, r \in SUBSET MonthEnd,
        w \in {[window |-> For(3, "day"), toDate |-> Null], [window |-> For(1, "month"), toDate |-> Null],
               [window |-> Null, toDate |-> "month"]},
        g \in {Null, Between(63, 91)}, b \in {"day", "month"}, p \in {"last", "first"}, a \in {90, 121}}

OffsetOnes ==
    {Ask([kind |-> "offset", dims |-> d, rows |-> r, shifts |-> w, range |-> g, second |-> r]) :
        d \in {{}, {"day"}}, r \in SUBSET MonthEnd,
        w \in {<<For(1, "month")>>, <<For(7, "day")>>, <<For(1, "month"), For(7, "day")>>},
        g \in {Null, Between(91, 119), Between(90, 121), Between(88, 91), Between(93, 118)}}

Signups == {Event(1, "e", 2, 1, 1), Event(2, "e", 2, Null, 1), Event(3, "e", 4, 2, 1), Event(4, "f", 4, 1, 1),
            Event(5, "e", Null, 1, 1)}
Orders == {Event(1, "e", 3, 1, 1), Event(2, "e", 5, 1, 2), Event(3, "f", 4, 1, 4), Event(4, "f", 2, 1, 8),
           Event(5, "e", 40, 1, 16)}
ConversionOnes ==
    {Ask([kind |-> "conversion", dims |-> d, rows |-> r, second |-> s, window |-> w, combine |-> c]) :
        d \in {{}, {"grp"}, {"day", "grp"}}, r \in SUBSET Signups, s \in SUBSET Orders,
        w \in {Null, For(2, "day")}, c \in {"rate", "count"}}

Actual == {Stamped(1, 8, 22, "x", 1), Stamped(2, 9, 0, "x", 2), Stamped(3, 9, 20, "x", 4), Stamped(4, 12, 3, "x", 8),
           Stamped(5, Null, 0, "y", 16)}
Estimate == {Stamped(1, 9, 20, "x", 32), Stamped(2, 10, 0, "x", 64), Stamped(3, 12, 0, "y", 128),
             Stamped(4, Null, 0, "y", 256)}
Tables(rows) == {rows} \cup {rows \ {r} : r \in rows} \cup {{r} : r \in rows}
\* UTC, a zone behind it in its evening and one ahead of it in its morning.
Clocks == {[zone |-> 0, hour |-> 2, wallClock |-> FALSE]}
            \cup {[zone |-> z.zone, hour |-> z.hour, wallClock |-> q] :
                    z \in {[zone |-> -5, hour |-> 2], [zone |-> 9, hour |-> 20]}, q \in BOOLEAN}
Groupings == {[dims |-> {"day"}, bucket |-> "day"], [dims |-> {"day", "grp"}, bucket |-> "day"],
              [dims |-> {"day"}, bucket |-> "month"]}
FinalityOnes ==
    {Ask(c @@ g @@ [kind |-> "finality", rows |-> r, items |-> e, second |-> Visits, offset |-> o, asOf |-> t]) :
        g \in Groupings, r \in Tables(Actual), e \in Tables(Estimate), o \in {-1, 0, 1}, t \in 9..12, c \in Clocks}

Term(op, day) == [op |-> op, day |-> day, literalFirst |-> FALSE, readable |-> TRUE]
All(terms) == [join |-> "and", terms |-> terms]
RestrictedOnes ==
    {Ask(c @@ [kind |-> "finality", dims |-> {"day"}, rows |-> r, items |-> e, offset |-> o, asOf |-> t, filters |-> w,
               restricted |-> g]) :
        r \in {Actual, {s \in Actual : s.day = 9}}, e \in Tables(Estimate), o \in {-1, 0}, t \in 9..11, g \in BOOLEAN,
        c \in Clocks,
        w \in {{All({Term("<=", 9)})}, {All({Term("<", 10)})}, {All({Term(">=", 8), Term("<=", 10)})},
               {All({Term(">=", 9)})}, {All({Term(">", 10)})}, {All({Term("=", 10)})},
               {All({Term("<=", 12)}), All({[Term("<=", 9) EXCEPT !.readable = FALSE]})},
               {All({[Term("<=", 8) EXCEPT !.literalFirst = TRUE], Term("<=", 12)})},
               {[join |-> "or", terms |-> {Term("<=", 8), Term(">=", 10)}]},
               {[join |-> "not", terms |-> {Term("<=", 9)}]}}}

Every == {SimpleOnes, RelativeOnes, DedupedOnes, SemiOnes, PercentileOnes, RunningOnes, RollingOnes, OffsetOnes,
          ConversionOnes, FinalityOnes, RestrictedOnes}
==============================================================================
