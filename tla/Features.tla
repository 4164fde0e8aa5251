------------------------------- MODULE Features -------------------------------
(***************************************************************************)
(* decode/objective.cc with the features decode_main.cc adds to it: what a *)
(* feature hands to the ScoreCollector is a function from its dense        *)
(* indices to values; the objective weights them at the feature's offset   *)
(* in the vector of all.  A hypothesis has the fields of Stacks: the start *)
(* and end of the phrase it ends in, that phrase, the state of the         *)
(* language model and the history of its steps.                            *)
(***************************************************************************)
EXTENDS Integers, Sequences, SequencesExt

CONSTANTS
  FeatureOrder,     \* features_, in the order of AddFeature
  GivenWeights,     \* weights_map_: the weights in the file, by name of the feature
  DenseFeatures,    \* phrase_access.dense_features.size()
  Type(_),          \* TargetPhraseInfo::type of a target phrase
  Dense(_),         \* the row of a target phrase: its scores,
  TargetLength(_),  \* the number of its words
  Reordering(_),    \* and its lexical reordering, by index
  Internal(_),      \* what the language model says of a phrase by itself
  Appended(_, _)    \* and what appending it to a state adds

------------------------------------------------------------------------------
\* Objective

DenseFeatureCount(f) ==
  CASE f = "phrase_table" -> DenseFeatures
    [] f = "lexical_reordering" -> 6
    [] OTHER -> 1

\* Mutant: every feature is taken to have one weight.
OffsetOfPosition(f) == CHOOSE k \in DOMAIN FeatureOrder : FeatureOrder[k] = f

\* FeatureInfo::offset, counted from 1: what AddFeature had counted before f.
Offset(f) ==
  LET before == SelectInSeq(FeatureOrder, LAMBDA g : g = f) - 1
  IN  1 + FoldLeft(LAMBDA n, g : n + DenseFeatureCount(g), 0, SubSeq(FeatureOrder, 1, before))

\* LoadWeights, where each feature must have as many as it counts.
weights == FoldLeft(LAMBDA all, f : all \o GivenWeights[f], << >>, FeatureOrder)
WeightsFit == \A f \in ToSet(FeatureOrder) : Len(GivenWeights[f]) = DenseFeatureCount(f)

LMWeight == GivenWeights["lm"][1]

\* ScoreCollector::AddDense for all a feature adds.
Weighted(f, values) ==
  FoldSet(LAMBDA i, sum : sum + weights[Offset(f) + i] * values[i], 0, DOMAIN values)

\* The score of a collector that has been through the features.
Score(valuesOf) ==
  FoldSet(LAMBDA f, sum : sum + Weighted(f, valuesOf[f]), 0, ToSet(FeatureOrder))

Nothing == << >>    \* the function with no index: AddDense is not called

------------------------------------------------------------------------------
\* ScoreTargetPhrase

\* Rows that are not in the phrase table get DEFAULT_VALUE by InitPassthroughPhrase.
Scores(t) == IF Type(t) = "Table" THEN Dense(t) ELSE [i \in 1 .. DenseFeatures |-> 0]

OfTarget(f, t) ==
  CASE f = "phrase_table" -> [i \in 0 .. DenseFeatures - 1 |-> Scores(t)[i + 1]]
    [] f = "target_word_insertion" -> IF Type(t) # "EOS" THEN 0 :> TargetLength(t) ELSE Nothing
    [] f = "phrase_insertion" -> IF Type(t) # "EOS" THEN 0 :> 1 ELSE Nothing
    [] f = "passthrough" -> 0 :> (IF Type(t) = "Passthrough" THEN 1 ELSE 0)
    [] f = "lm" -> 0 :> Internal(t)
    [] OTHER -> Nothing

ScoreTargetPhrase(t) == Score([f \in ToSet(FeatureOrder) |-> OfTarget(f, t)])

------------------------------------------------------------------------------
\* LexicalizedReordering

FORWARD == 0
BACKWARD == 3
MONOTONE == 0
SWAP == 1
DISCONTINUOUS == 2

PhraseRelation(first, second) ==
  IF first[2] = second[1] THEN MONOTONE
  ELSE IF first[1] = second[2] THEN SWAP
  ELSE DISCONTINUOUS

\* The row of a passthrough, of <s> and of </s> has DEFAULT_VALUE for every index.
Row(t) == IF Type(t) = "Table" THEN Reordering(t) ELSE [i \in 0 .. 5 |-> 0]

At(index, t) == index :> Row(t)[index]

\* The root has no phrase; backward scoring has a case for it,
Backward(h, span) ==
  LET last == IF h.history # << >> THEN <<h.start, h.end>> ELSE <<0, 0>>
  IN  At(BACKWARD + PhraseRelation(last, span), h.target)

\* forward scoring reads the root's phrase_start_, which nobody has written.
Forward(h, span, t) == At(FORWARD + PhraseRelation(<<h.start, h.end>>, span), t)

\* Mutant: the scores the next phrase will read are not compared.
HypothesisEqualByStart(first, second) == first.start = second.start

\* Objective::HypothesisEqual: the other features say true.
HypothesisEqual(first, second) ==
  "lexical_reordering" \in ToSet(FeatureOrder) =>
    /\ first.start = second.start
    /\ first.target # second.target =>
         \A i \in BACKWARD .. 5 : Row(first.target)[i] = Row(second.target)[i]

------------------------------------------------------------------------------
\* ScoreHypothesisWithSourcePhrase: nothing for the empty phrase at the end.

Jump(h, begin) == IF h.end < begin THEN begin - h.end ELSE h.end - begin

OfSource(f, h, begin, stop) ==
  IF begin = stop THEN Nothing
  ELSE CASE f = "distortion" -> 0 :> Jump(h, begin)
         [] f = "lexical_reordering" -> Backward(h, <<begin, stop>>)
         [] OTHER -> Nothing

ScoreHypothesisWithSourcePhrase(h, begin, stop) ==
  Score([f \in ToSet(FeatureOrder) |-> OfSource(f, h, begin, stop)])

\* ScoreHypothesisWithPhrasePair.  The search has added the language model's part
\* with its weight; UpdateHypothesisInEdge takes the weight off and the language
\* model hands the rest in as its value.
SearchScore(h, t) == (LMWeight * Appended(h.state, t)) \div LMWeight

OfPair(f, h, begin, stop, t) ==
  CASE f = "lm" -> 0 :> SearchScore(h, t)
    [] f = "lexical_reordering" -> Forward(h, <<begin, stop>>, t)
    [] OTHER -> Nothing

ScoreHypothesisWithPhrasePair(h, begin, stop, t) ==
  Score([f \in ToSet(FeatureOrder) |-> OfPair(f, h, begin, stop, t)])

\* No feature has anything to say of a final hypothesis by itself.
ScoreFinalHypothesis(h) == Score([f \in ToSet(FeatureOrder) |-> Nothing])
==============================================================================
