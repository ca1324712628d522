-------------------------------- MODULE Trust --------------------------------
(***************************************************************************)
(* The trust tier of an answer (trust/scorer.py, trust/signals.py): every  *)
(* signal may cap it, the lowest cap wins.  The verdicts of the assertion  *)
(* harness are read back from .canonic/assertions.json                     *)
(* (feedback/assertion_history.py).                                        *)
(***************************************************************************)
EXTENDS Integers, Sequences, FiniteSets

\* TrustTier, from the lowest to the highest.
Caution == 1
Provisional == 2
Trusted == 3
Tiers == {Caution, Provisional, Trusted}

\* A verdict of a signal is the tier it caps at; Trusted caps nothing.
\* TrustScorer.score.
Score(caps) == CHOOSE t \in caps \cup {Trusted} : \A u \in caps \cup {Trusted} : t <= u

\* provenance_signal.
ProvenanceCap(input) == IF input.inferred THEN Provisional ELSE Trusted

\* assertion_signal: an authored assertion counts once the harness has
\* recorded that it passed.
AssertionCap(input, history) ==
    CASE ~ input.asserted \/ history[input.binding] = "none" -> Provisional
      [] input.asserted /\ history[input.binding] = "fail" -> Caution
      [] OTHER -> Trusted

\* outcome_signal; capped is the set of bindings marked wrong in the window.
OutcomeCap(input, capped) == IF input.binding \in capped THEN Caution ELSE Trusted
\* freshness_signal, finality_signal and open_period_signal.
AnswerCap(doubtful) == IF doubtful THEN Provisional ELSE Trusted

\* trust_for_compiled, of an answer over these trust inputs.
TrustFor(inputs, history, capped, doubtful) ==
    Score((UNION {{ProvenanceCap(i), AssertionCap(i, history), OutcomeCap(i, capped)} : i \in inputs})
            \cup {AnswerCap(d) : d \in doubtful})

\* The record of a binding after one more outcome that covers it.
Merged(record, verdict) ==
    CASE record = "none" -> verdict
      [] record = "pass" /\ verdict = "fail" -> "fail"
      [] OTHER -> record

\* write_assertion_results: the outcomes are merged in their order into one verdict
\* per binding; the file holds the bindings of this run only.
Recorded(outcomes, bindings) ==
    LET per[n \in 0..Len(outcomes)] ==
            [b \in bindings |->
                IF n = 0 THEN "none"
                ELSE IF b \in outcomes[n].bindings THEN Merged(per[n - 1][b], outcomes[n].verdict)
                ELSE per[n - 1][b]]
    IN  per[Len(outcomes)]
==============================================================================
