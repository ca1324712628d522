----------------------------- MODULE MCKnowledge -----------------------------
(***************************************************************************)
(* Two shared pages, and a page of each of two users that has the name of  *)
(* a shared one; one entity; one document; two serving processes.          *)
(***************************************************************************)
EXTENDS Knowledge

CONSTANT Amount

\* The second text links to the shared pages.
Links == <<{}, {1, 2}>>

FourPaths == {<<0, 1>>, <<0, 2>>, <<1, 1>>, <<2, 1>>}
Written(text, tags, sl, refs, frozen) ==
    [text |-> text, tags |-> tags, sl |-> sl, refs |-> refs, frozen |-> frozen]
WrittenPages == {Written(1, {"t"}, {Amount}, {2}, FALSE), Written(2, {}, {}, {1}, FALSE)}
OneDoc == {[slug |-> 1, text |-> 1, topics |-> {Amount}]}
Roles == {Everything, {"t"}}
Starts == {(<<0, 1>> :> Page(Written(1, {"t"}, {Amount}, {2}, FALSE), NoMeta))
             @@ (<<0, 2>> :> Page(Written(2, {}, {}, {1}, FALSE), NoMeta))
             @@ (<<1, 1>> :> Page(Written(1, {}, {}, {2}, TRUE), NoMeta)),
           (<<1, 1>> :> Page(Written(2, {"t"}, {Amount}, {1}, FALSE), NoMeta))
             @@ (<<2, 1>> :> Page(Written(1, {}, {}, {}, FALSE), NoMeta))}
\* People and ingest runs, ingest runs over time, and people and readers.
Bounds == {[writes |-> 1, runs |-> 2, reads |-> 0, ticks |-> 1], [writes |-> 0, runs |-> 2, reads |-> 0, ticks |-> 5],
           [writes |-> 1, runs |-> 0, reads |-> 3, ticks |-> 0]}
Processes == Permutations(Procs)
==============================================================================
