----------------------------- MODULE MCAnalysis -----------------------------
(***************************************************************************)
(* Model values for Analysis, and what its comments promise.               *)
(***************************************************************************)
EXTENDS Analysis

MCSheets == {<<a, b, 0, Side>> : a \in {0, 1}, b \in {3, 4, Side}}

MCColumns == {Line \ {2}, {0, 1}}

\* A region that is wider than high.
MCEvent == [x |-> 2, y |-> 1]

D(a, b) == [x |-> a, y |-> b]

MCVectors == {D(0, 0), D(0, 2), D(2, 0), D(0, 3), D(0, -5), D(3, 0), D(-3, 0), D(3, -3)}

MCWild == MCVectors \cup {D(20, 0)}

\* A scroll by steps stays a scroll with one misread pair, whose size should not
\* give it "the weight of several real events" (advance.py:25-28).  It does not
\* hold: the axis is chosen by the sizes (advance.py:80).
Misreading(k) == /\ 2 * Pairs(Still) > N2
                 /\ Pairs(LAMBDA d : d[k] > Event[k] /\ d[Other(k)] = 0) >= MinEvents
                 /\ Pairs(LAMBDA d : d[k] = 0 /\ d[Other(k)] # 0) = 1
                 /\ Pairs(LAMBDA d : d[k] < 0) = 0

OneMisreading == pc = "mode" /\ shifts # EmptyBag =>
  \A k \in {"x", "y"} : Misreading(k) => mode = ModeAlong(k)

=============================================================================
