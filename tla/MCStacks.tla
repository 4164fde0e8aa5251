------------------------------- MODULE MCStacks -------------------------------
(***************************************************************************)
(* A sentence of four words in which one may have two translations and two *)
(* may have a phrase; the objective is that of Features with all the       *)
(* features of the decoder.  The memory of the root holds the end of a     *)
(* phrase, when reading it matters, or something else.                     *)
(***************************************************************************)
EXTENDS Stacks, TLC

\* As decode_main.cc adds them.
FeatureOrder == <<"distortion", "passthrough", "target_word_insertion", "phrase_insertion",
                  "phrase_table", "lm", "lexical_reordering">>
GivenWeights ==
  [distortion |-> <<-2>>, passthrough |-> <<-3>>, target_word_insertion |-> <<1>>,
   phrase_insertion |-> <<-1>>, phrase_table |-> <<1, 2>>, lm |-> <<2>>,
   lexical_reordering |-> <<1, 3, 1, 2, 1, 1>>]

\* "w" stands for a word the phrase table does not know.  "x", "y" and "z" leave the
\* language model in the same state; "y" and "z" say the same of what follows them.
Type(t) ==
  CASE t = "</s>" -> "EOS" [] t = "<s>" -> "Begin" [] t = "w" -> "Passthrough" [] OTHER -> "Table"
DenseFeatures == 2
Dense(t) == <<-1, IF t = "z" THEN -1 ELSE 0>>
TargetLength(t) == IF t = "z" THEN 2 ELSE 1
Reordering(t) ==
  CASE t = "x" -> [i \in 0 .. 5 |-> IF i \in {1, 3} THEN -1 ELSE 0]
    [] t = "y" -> [i \in 0 .. 5 |-> IF i \in {0, 4, 5} THEN -1 ELSE 0]
    [] t = "z" -> [i \in 0 .. 5 |-> IF i \in {2, 4, 5} THEN -1 ELSE 0]
Internal(t) == IF t = "z" THEN -1 ELSE 0
Appended(state, t) == IF state = "after_w" /\ t \in {"x", "</s>"} THEN 0 ELSE -1

Objective == INSTANCE Features

\* LoadWeights asserts it.
ASSUME WeightsAssumption == Objective!WeightsFit

MCStateAfter(t) == IF t = "w" THEN "after_w" ELSE "after_xyz"

\* The methods of the objective as tables; @@ makes TLC compute them at once.
Lasts == Spans \cup (Unwritten \X {0})
Nexts == Spans \cup {<<Length, Length>>}
Phrases == Targets \cup {BeginPhrase, "</s>"}
Hypo(last, state, t) ==
  [start |-> last[1], end |-> last[2], state |-> state, target |-> t,
   history |-> IF t = BeginPhrase THEN << >> ELSE <<t>>]
PhraseScores == [t \in Targets \cup {"</s>"} |-> Objective!ScoreTargetPhrase(t)] @@ << >>
SourceScores ==
  [last \in Lasts, t \in Phrases, span \in Nexts |->
     Objective!ScoreHypothesisWithSourcePhrase(Hypo(last, BeginState, t), span[1], span[2])] @@ << >>
PairScores ==
  [last \in Lasts, state \in States, span \in Nexts, t \in Targets \cup {"</s>"} |->
     Objective!ScoreHypothesisWithPhrasePair(Hypo(last, state, BeginPhrase), span[1], span[2], t)] @@ << >>

MCPhraseScore(t) == PhraseScores[t]
MCSourceScore(h, begin, stop) == SourceScores[<<h.start, h.end>>, h.target, <<begin, stop>>]
MCPairScore(h, begin, stop, t) == PairScores[<<h.start, h.end>>, h.state, <<begin, stop>>, t]
MCFinalScore(h) ==
  MCPhraseScore("</s>") + MCPairScore(h, Length, Length, "</s>") + Objective!ScoreFinalHypothesis(h)
MCFeaturesEqual(first, second) == Objective!HypothesisEqual(first, second)

\* What the theorem about scores asks of the objective; the tables read no history.
ASSUME ScoresAssumption == ScoresAreNumbers({<< >>, <<Step(0, 1, "x")>>})

\* One or two translations of the first word, a passthrough for the third, and a
\* phrase for the second and third or none.
MCCharts ==
  {[s \in Spans |-> CASE s = <<0, 1>> -> first
                      [] s = <<1, 2>> -> {"y"}
                      [] s = <<2, 3>> -> {"w"}
                      [] s = <<3, 4>> -> {"x"}
                      [] s = <<1, 3>> -> second
                      [] OTHER -> {}] : first \in {{"x"}, {"x", "y"}}, second \in {{}, {"z"}}}

------------------------------------------------------------------------------
\* What a translation is worth, said phrase by phrase without the objective: last
\* is the span of the phrase before, with the root's as the decoder finds it.
Relation(last, next) ==
  IF last[2] = next[1] THEN "follows" ELSE IF last[1] = next[2] THEN "precedes" ELSE "apart"
Orders == [follows |-> 0, precedes |-> 1, apart |-> 2]

Worth(last, before, state, span, t) ==
  LET weight == GivenWeights["lexical_reordering"]
      index == Orders[Relation(last, span)]
      alone == IF t = "w" THEN -3 ELSE TargetLength(t) - 1 + Dense(t)[1] + 2 * Dense(t)[2] + 2 * Internal(t)
      ahead == IF before \in {"<s>", "w"} THEN 0 ELSE weight[4 + index] * Reordering(before)[3 + index]
      behind == IF t = "w" THEN 0 ELSE weight[1 + index] * Reordering(t)[index]
  IN  alone + 2 * Appended(state, t) - 2 * Max({last[2] - span[1], span[1] - last[2]})
        + ahead + behind

RECURSIVE BestFrom(_, _, _, _)
BestFrom(cov, last, before, state) ==
  IF cov = 0 .. Length - 1
  THEN 2 * Appended(state, "</s>")
  ELSE LET first == Min((0 .. Length - 1) \ cov)
           next == {s \in Spans :
                      /\ chart[s] # {} /\ s[1] .. s[2] - 1 \cap cov = {}
                      /\ s[1] = first \/ s[2] <= first + ReorderingLimit}
           worth(s, t) == Worth(last, before, state, s, t)
                            + BestFrom(cov \cup s[1] .. s[2] - 1, s, t, StateAfter(t))
       IN  Max(UNION {{worth(s, t) : t \in chart[s]} : s \in next})

\* The edges that lead into stack w.
EdgesInto(w) ==
  UNION {UNION {UNION {{<<h, b, t>> : t \in ChartRange(b, b + (w - from))} :
                         b \in Fits(h, w - from)} : h \in stacks[from]} :
         from \in {v \in 0 .. w - 1 : w - v <= MaxPhrase}}
NothingCutOff ==
  /\ \A w \in 1 .. Length : Cardinality(EdgesInto(w)) <= PopLimit
  /\ Cardinality(stacks[Length]) <= PopLimit

\* When the pop limit cuts nothing off, the score of the result is the best one:
\* recombination compares everything a later score depends on.
ExhaustiveIsOptimal ==
  phase = "done" /\ NothingCutOff =>
    LET root == CHOOSE r \in stacks[0] : TRUE
    IN  \A e \in end : e.score = BestFrom({}, <<root.start, 0>>, "<s>", BeginState)
==============================================================================
