---------------------------- MODULE MCEdgeGenerator ----------------------------
(***************************************************************************)
(* Small vertices of antecedents and phrases whose states agree in their   *)
(* first words, differ only in full, are equal, or are empty.              *)
(***************************************************************************)
EXTENDS EdgeGenerator

State(left, full, right) == [left |-> left, full |-> full, right |-> right]

\* Antecedents are full on the left (AddHypothesisToVertex).
AntecedentStates == {State(<< >>, TRUE, <<1>>), State(<< >>, TRUE, <<1, 2>>)}

\* A phrase that is not full has as many words left as right.
PhraseStates == {
  State(<<1>>, FALSE, <<1>>), State(<<1>>, TRUE, <<2>>), State(<<1, 3>>, TRUE, <<2>>),
  State(<< >>, TRUE, <<1>>)}

Scores == <<0, -1, -3>>
Vertices(states, most) ==
  UNION {{[i \in 1 .. n |-> [state |-> f[i], score |-> Scores[i]]] :
            f \in [1 .. n -> states]} : n \in 1 .. most}

Edge(a, p, adjustments) == [antecedents |-> a, phrases |-> p, adjustments |-> adjustments]

\* One edge, whose score the language model raises or lowers.
OneEdge ==
  {<<Edge(a, p, {-1, 1})>> : a \in Vertices(AntecedentStates, 2), p \in Vertices(PhraseStates, 3)}

\* Two spans compete for the pops of one search; the language model adds nothing.
TwoEdges ==
  {<<Edge(a, p, {0}), Edge(a, q, {0})>> :
     a \in Vertices({State(<< >>, TRUE, <<1>>), State(<< >>, TRUE, <<2>>)}, 2),
     p \in Vertices({State(<<1>>, FALSE, <<1>>), State(<<1>>, TRUE, <<2>>)}, 2),
     q \in Vertices({State(<<1, 3>>, TRUE, <<2>>)}, 1)}

MCInputs == OneEdge \cup TwoEdges

MCPairScore(a, p) == IF a.state.right = p.state.right THEN -1 ELSE 0
==============================================================================
