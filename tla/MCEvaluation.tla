---------------------------- MODULE MCEvaluation ----------------------------
(* Evaluation and Retrieval on a small instance for TLC. *)
EXTENDS Evaluation

CONSTANTS d1, d2, tA, tB, tC, q1

TwoDocs == d1 :> <<tA, tB>> @@ d2 :> <<tC>>
\* tC alone exceeds the budget of 3.
Lengths == tA :> 2 @@ tB :> 1 @@ tC :> 4

\* tB repeats parts of tA and of tC, which do not repeat each other.
Overlapping == {<<t, t>> : t \in Texts}
               \cup {<<tA, tB>>, <<tB, tA>>, <<tB, tC>>, <<tC, tB>>}

\* A multiple of 61, 62 and 63, which makes weights exact.
Exact == 61 * 62 * 63

TwoQuestions == <<[q |-> q1, relevant |-> {1}], [q |-> q1, relevant |-> {}]>>
AllFaults == FaultKinds
=============================================================================
