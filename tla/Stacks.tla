-------------------------------- MODULE Stacks --------------------------------
(***************************************************************************)
(* The stack decoder of decode/stacks.cc with decode/coverage.hh and       *)
(* decode/future.cc: for one sentence, hypotheses are grouped by the       *)
(* number of source words they cover; stack w is filled by extending the   *)
(* hypotheses of the stacks before it with phrases, within the reordering  *)
(* limit.  The order in which the search pops complete edges is left open  *)
(* (EdgeGenerator models it), so is what the objective says: its methods   *)
(* are constants, for which Features has those of the decoder's features.  *)
(***************************************************************************)
EXTENDS Integers, FiniteSets, FiniteSetsExt, Sequences

CONSTANTS
  Window,                  \* the width of Coverage::bits_, 64 in the code
  Length,                  \* SentenceLength()
  MaxPhrase,               \* MaxSourcePhraseLength()
  ReorderingLimit,         \* GetConfig().reordering_limit
  PopLimit,                \* SearchContext().PopLimit()
  Targets,                 \* target phrases
  States,                  \* language model states
  BeginState,              \* the state of <s>
  BeginPhrase,             \* the phrase of the root, its row by InitPassthroughPhrase
  Unwritten,               \* what phrase_start_ of the root may hold
  Charts,                  \* the charts LoadPhrases may have built
  StateAfter(_),           \* the language model state a target phrase leads to
  PhraseScore(_),          \* phrase_score_field of a target phrase
  SourceScore(_, _, _),    \* ScoreHypothesisWithSourcePhrase: hypothesis, begin, end
  PairScore(_, _, _, _),   \* ScoreHypothesisWithPhrasePair: and a target phrase
  FinalScore(_),           \* of a full hypothesis: </s> after it, ScoreFinalHypothesis
  FeaturesEqual(_, _)      \* Objective::HypothesisEqual

Spans == {s \in (0 .. Length) \X (0 .. Length) : s[1] < s[2] /\ s[2] - s[1] <= MaxPhrase}

ASSUME WindowAssumption == Window \in Nat \ {0}

ASSUME SentenceAssumption ==
  /\ Length \in Nat \ {0} /\ MaxPhrase \in Nat \ {0}
  /\ ReorderingLimit \in Nat /\ PopLimit \in Nat \ {0}
  /\ BeginState \in States
  /\ \A t \in Targets : StateAfter(t) \in States

\* coverage.hh: "needed if max_phrase + distortion > 64" is more than the code needs.
ASSUME WindowSuffices == MaxPhrase < Window /\ ReorderingLimit < Window

\* Every word has a phrase: LoadPhrases adds a passthrough for one that has none.
ASSUME ChartsAssumption ==
  \A chart \in Charts :
    /\ chart \in [Spans -> SUBSET Targets]
    /\ \A begin \in 0 .. Length - 1 : chart[<<begin, begin + 1>>] # {}

VARIABLES
  chart,      \* the target phrases of each span
  future,     \* Future::entries_
  stacks,     \* stacks_, by number of source words
  words,      \* source_words
  vertices,   \* the antecedents with a span, grouped in the code by span
  popped,     \* the pairs of antecedent and target the search has completed
  phase,      \* the place in Stacks::Stacks
  end         \* the hypothesis end_ points to, none while it is NULL

vars == <<chart, future, stacks, words, vertices, popped, phase, end>>

------------------------------------------------------------------------------
\* Coverage: which source words a hypothesis has translated, as the position of
\* the first untranslated word and a window of bits behind it.  A set of bits is
\* the set of the offsets at which it has a one.

NothingCovered == [firstZero |-> 0, bits |-> {}]

\* What the assertions of Pattern demand: both shifts are shorter than the word.
InWindow(c, begin, stop) ==
  /\ begin >= c.firstZero
  /\ stop - c.firstZero < Window

Pattern(c, begin, stop) == (begin - c.firstZero) .. (stop - c.firstZero - 1)

Compatible(c, begin, stop) ==
  /\ begin >= c.firstZero
  /\ Pattern(c, begin, stop) \cap c.bits = {}

ShiftRight(bits, k) == {i - k : i \in {j \in bits : j >= k}}

\* The number of ones at the low end, which the loop of Set shifts out.
LowOnes(bits) == CHOOSE k \in 0 .. Window : k \notin bits /\ 0 .. k - 1 \subseteq bits

\* Mutant: the window is not moved with the first zero.
SetNoShift(c, begin, stop) ==
  IF begin = c.firstZero
  THEN LET ones == LowOnes(c.bits)
       IN  [firstZero |-> stop + ones, bits |-> ShiftRight(c.bits, ones)]
  ELSE [c EXCEPT !.bits = @ \cup Pattern(c, begin, stop)]

Set(c, begin, stop) ==
  IF begin = c.firstZero
  THEN LET rest == ShiftRight(c.bits, stop - begin)
           ones == LowOnes(rest)
       IN  [firstZero |-> stop + ones, bits |-> ShiftRight(rest, ones)]
  ELSE [c EXCEPT !.bits = @ \cup Pattern(c, begin, stop)]

\* The bounds of the gap in which a phrase [begin, stop) lies.
LeftOpen(c, begin) ==
  LET ones == (1 .. begin - c.firstZero) \cap c.bits
  IN  IF ones = {} THEN c.firstZero ELSE c.firstZero + Max(ones) + 1

RightOpen(c, stop, length) ==
  LET limit == IF Window < length - c.firstZero THEN Window ELSE length - c.firstZero
      ones == (stop - c.firstZero .. limit - 1) \cap c.bits
  IN  IF ones = {} THEN length ELSE c.firstZero + Min(ones)

\* What a coverage stands for, and the representation's invariant: the bit of
\* the first zero is not a one.
Covered(c) == (0 .. c.firstZero - 1) \cup {c.firstZero + i : i \in c.bits}

WellFormed(c) ==
  /\ c \in [firstZero : Nat, bits : SUBSET (0 .. Window - 1)]
  /\ 0 \notin c.bits

------------------------------------------------------------------------------
\* Future

ChartRange(begin, stop) == chart[<<begin, stop>>]
Bound(c, s) == Max({PhraseScore(t) : t \in c[s]})

\* Every span [begin, stop] has the best of its phrases' bound and of its divisions.
FutureOf(c) ==
  LET entry[s \in {p \in (0 .. Length) \X (0 .. Length) : p[1] <= p[2]}] ==
        IF s[1] = s[2] THEN 0
        ELSE Max({Bound(c, p) : p \in {q \in {s} \cap Spans : c[q] # {}}}
                 \cup {entry[<<s[1], d>>] + entry[<<d, s[2]>>] : d \in s[1] + 1 .. s[2] - 1})
  IN  entry

Entry(begin, stop) == future[<<begin, stop>>]

\* Mutant: the estimate of the gap is not taken back.
ChangeKeepsGap(cov, begin, stop) ==
  Entry(LeftOpen(cov, begin), begin) + Entry(stop, RightOpen(cov, stop, Length))

Change(cov, begin, stop) ==
  LET left == LeftOpen(cov, begin)
      right == RightOpen(cov, stop, Length)
  IN  Entry(left, begin) + Entry(stop, right) - Entry(left, right)

------------------------------------------------------------------------------
\* Hypotheses.  "history" stands for the chain of previous hypotheses.

Step(begin, stop, target) == [begin |-> begin, end |-> stop, target |-> target]

Root(start) ==
  [coverage |-> NothingCovered, score |-> future[<<0, Length>>], start |-> start, end |-> 0,
   state |-> BeginState, target |-> BeginPhrase, history |-> << >>]

\* Mutant: the position is left out of the comparison.
KeyWithoutEnd(h) == <<h.state, h.coverage>>

\* What Recombinator compares by itself, and asks the features to compare.
Key(h) == <<h.state, h.coverage, h.end>>
Same(a, h) == Key(a) = Key(h) /\ FeaturesEqual(a, h)

\* Mutant: the limit bounds where a phrase begins, not where it ends.
BeginsByBegin(cov, len) ==
  LET reach == cov.firstZero + ReorderingLimit
      lastBegin == IF reach < Length - len THEN reach ELSE Length - len
  IN  {cov.firstZero} \cup (cov.firstZero + 1 .. lastBegin)

\* Where a phrase of len words may begin: always at the first zero, later only
\* within the reordering limit.
Begins(cov, len) ==
  LET reach == cov.firstZero + ReorderingLimit
      lastEnd == IF reach < Length THEN reach ELSE Length
      lastBegin == IF lastEnd > len THEN lastEnd - len ELSE 0
  IN  {cov.firstZero} \cup (cov.firstZero + 1 .. lastBegin)

Extend(v, t) ==
  [coverage |-> Set(v.previous.coverage, v.begin, v.end),
   score |-> v.score + PhraseScore(t) + PairScore(v.previous, v.begin, v.end, t),
   start |-> v.begin, end |-> v.end,
   state |-> StateAfter(t), target |-> t,
   history |-> Append(v.previous.history, Step(v.begin, v.end, t))]

------------------------------------------------------------------------------
Init ==
  /\ chart \in Charts
  /\ future = FutureOf(chart)
  /\ \E start \in Unwritten :
       stacks = [w \in 0 .. Length |-> IF w = 0 THEN {Root(start)} ELSE {}]
  /\ words = 1
  /\ vertices = {}
  /\ popped = {}
  /\ phase = "extend"
  /\ end = {}

\* A hypothesis with the span its next phrase is to translate.
Antecedent(h, begin, stop) ==
  [previous |-> h, begin |-> begin, end |-> stop,
   score |-> h.score + SourceScore(h, begin, stop) + Change(h.coverage, begin, stop)]

\* Where a phrase of len words can continue h.
Fits(h, len) ==
  {b \in Begins(h.coverage, len) :
     ChartRange(b, b + len) # {} /\ Compatible(h.coverage, b, b + len)}

\* Mutant: the loop over stacks leaves out the one of the root.
FromsWithoutRoot == {from \in 1 .. words - 1 : words - from <= MaxPhrase}

Froms == {from \in 0 .. words - 1 : words - from <= MaxPhrase}

\* The antecedents of stack words: the three nested loops of the constructor.
Extensions ==
  UNION {UNION {{Antecedent(h, b, b + (words - from)) : b \in Fits(h, words - from)} :
                  h \in stacks[from]} : from \in Froms}

FillVertices ==
  /\ phase = "extend" /\ words <= Length
  /\ vertices' = Extensions
  /\ popped' = {}
  /\ phase' = "search"
  /\ UNCHANGED <<chart, future, stacks, words, end>>

Edges == {e \in vertices \X Targets : e[2] \in ChartRange(e[1].begin, e[1].end)}
MorePops == popped # Edges /\ Cardinality(popped) < PopLimit

\* EdgeOutput::NewHypothesis for a complete hypothesis.  A better duplicate only
\* lends its score: the loop that should replace the pointer assigns a copy.
Raise(a, score) == [a EXCEPT !.score = IF @ < score THEN score ELSE @]
Output(stack, h) ==
  LET same == {a \in stack : Same(a, h)}
  IN  IF same = {} THEN stack \cup {h}
      ELSE (stack \ same) \cup {Raise(a, h.score) : a \in same}

PopEdge ==
  /\ phase = "search" /\ MorePops
  /\ \E e \in Edges \ popped :
       /\ popped' = popped \cup {e}
       /\ stacks' = [stacks EXCEPT ![words] = Output(@, Extend(e[1], e[2]))]
  /\ UNCHANGED <<chart, future, words, vertices, phase, end>>

FinishStack ==
  /\ phase = "search" /\ ~MorePops
  /\ words' = words + 1
  /\ vertices' = {} /\ popped' = {}
  /\ phase' = IF words = Length THEN "final" ELSE "extend"
  /\ UNCHANGED <<chart, future, stacks, end>>

\* PopulateLastStack: one edge appends </s> to every full hypothesis; PickBest
\* keeps the first of the best among those popped.
Finished(h) ==
  [h EXCEPT !.coverage = Set(@, Length, Length), !.end = Length,
            !.score = @ + SourceScore(h, Length, Length) + FinalScore(h)]

PopFinal ==
  /\ phase = "final"
  /\ popped # stacks[Length] /\ Cardinality(popped) < PopLimit
  /\ \E h \in stacks[Length] \ popped :
       /\ popped' = popped \cup {h}
       /\ end' = IF \A e \in end : Finished(h).score > e.score THEN {Finished(h)} ELSE end
  /\ UNCHANGED <<chart, future, stacks, words, vertices, phase>>

Finish ==
  /\ phase = "final"
  /\ popped = stacks[Length] \/ Cardinality(popped) = PopLimit
  /\ phase' = "done"
  /\ UNCHANGED <<chart, future, stacks, words, vertices, popped, end>>

Next == FillVertices \/ PopEdge \/ FinishStack \/ PopFinal \/ Finish

Spec == Init /\ [][Next]_vars

------------------------------------------------------------------------------
\* Properties

Steps == [begin : 0 .. Length, end : 0 .. Length, target : Targets]

SpanOf(step) == step.begin .. step.end - 1
Translated(history) == UNION {SpanOf(history[i]) : i \in DOMAIN history}
EachOnce(history) ==
  \A i, j \in DOMAIN history : SpanOf(history[i]) \cap SpanOf(history[j]) # {} => i = j

\* The hypotheses of stack w cover exactly the w words their phrases translate,
\* each once: bits, first zero, stack index and history agree.
CoverageExact ==
  \A w \in 0 .. Length : \A h \in stacks[w] :
    /\ WellFormed(h.coverage)
    /\ Covered(h.coverage) = Translated(h.history)
    /\ Cardinality(Covered(h.coverage)) = w
    /\ EachOnce(h.history)

\* No word is translated further from the first untranslated one than the
\* limit allows.
ReorderingBounded ==
  \A w \in 0 .. Length : \A h \in stacks[w] :
    Covered(h.coverage) \subseteq 0 .. h.coverage.firstZero + ReorderingLimit - 1

\* Every coverage test and every Set of the constructor stays in the 64 bits and
\* asks the chart only for spans of the sentence: the asserts hold.
CallsInBounds ==
  words <= Length =>
    \A from \in Froms : \A h \in stacks[from] : \A b \in Begins(h.coverage, words - from) :
      /\ InWindow(h.coverage, b, b + (words - from))
      /\ <<b, b + (words - from)>> \in Spans

\* There is always a hypothesis to extend and a translation in the end.
NoDeadEnd ==
  /\ \A w \in 0 .. words - 1 : stacks[w] # {}
  /\ phase = "done" => end # {}

\* The gaps of a coverage, and what the future cost still counts for them.
Gaps(c) ==
  LET open == (0 .. Length - 1) \ Covered(c)
  IN  {s \in (0 .. Length) \X (0 .. Length) :
         /\ s[1] < s[2] /\ s[1] .. s[2] - 1 \subseteq open
         /\ s[1] - 1 \notin open /\ s[2] \notin open}
Outstanding(c) == SumFunctionOnSet(future, Gaps(c))

\* A hypothesis but for its coverage and its score, which no feature reads.
Seen(h) ==
  [start |-> h.start, end |-> h.end, state |-> h.state, target |-> h.target, history |-> h.history]

\* The hypothesis the first n steps of a history made.
TheRoot == CHOOSE root \in stacks[0] : TRUE
After(history, n) ==
  IF n = 0 THEN Seen(TheRoot)
  ELSE [start |-> history[n].begin, end |-> history[n].end, state |-> StateAfter(history[n].target),
        target |-> history[n].target, history |-> SubSeq(history, 1, n)]

\* What the steps of a history are worth by themselves.
Gain(history, i) ==
  LET step == history[i]
      previous == After(history, i - 1)
  IN  SourceScore(previous, step.begin, step.end) + PhraseScore(step.target)
        + PairScore(previous, step.begin, step.end, step.target)
Earned(history) == SumFunction([i \in DOMAIN history |-> Gain(history, i)])

\* The hypotheses with one of the histories, and what it takes to add up their scores.
SeenWith(histories) ==
  {h \in [start : Unwritten \cup 0 .. Length, end : 0 .. Length, state : States,
          target : Targets \cup {BeginPhrase}, history : histories] :
     <<h.start, h.end>> \in Spans \cup (Unwritten \X {0})}
ScoresAreNumbers(histories) ==
  /\ \A t \in Targets : PhraseScore(t) \in Int
  /\ \A h \in SeenWith(histories) : \A s \in Spans :
       /\ SourceScore(h, s[1], s[2]) \in Int
       /\ \A t \in Targets : PairScore(h, s[1], s[2], t) \in Int

\* A hypothesis is never valued below what its history earned and its gaps are
\* estimated at: adding Change over any order of phrases telescopes.
ScoreCoversHistory ==
  \A w \in 0 .. Length : \A h \in stacks[w] :
    h.score >= Earned(h.history) + Outstanding(h.coverage)

\* stacks.cc: "Already present.  Keep the top-scoring one."  What is kept has the
\* score of its own history.
KeptHasItsScore ==
  \A w \in 0 .. Length : \A h \in stacks[w] :
    h.score = Earned(h.history) + Outstanding(h.coverage)
==============================================================================
