---------------------------- MODULE Probabilities --------------------------
(***************************************************************************)
(* lm::builder::InitialProbabilities: for every order two workers read the *)
(* counts in context order.  AddRight sums the counts of each context and  *)
(* what the discounts take away, gamma; MergeRight divides, and deletes    *)
(* the n-grams that are marked.                                            *)
(*                                                                         *)
(* lm::builder::Interpolate: JointOrder walks the files of all orders,     *)
(* each in suffix order, so that an n-gram is met after the shorter ones   *)
(* it ends with; Callback adds what the shorter one gives it and takes its *)
(* backoff from the stream of gammas, which has one for every context.     *)
(***************************************************************************)
EXTENDS Counts

VARIABLES discounts,   \* discounts[k]: what is taken from the counts of order k
          sorted,      \* sorted[k]: the counts of order k, in context order
          added,       \* added[k]: how many of them AddRight has read
          sums,        \* sums[k]: what AddRight has written
          summed,      \* summed[k]: how many of these MergeRight has read
          merged       \* merged[k]: the n-grams MergeRight has written

initialVars == <<discounts, sorted, added, sums, summed, merged>>

\* The records from i on that have the context of the i-th.
OfContext(records, i) ==
  SelectSeq(SubSeq(records, i, Len(records)), LAMBDA g : Context(g.words) = Context(records[i].words))

Total(f(_), group) == FoldLeft(LAMBDA t, g : t + f(g), 0, group)

\* Mutant: the mass of the pruned n-grams is lost.
GammaWithoutPruned(group, discount) ==
  LET having(j) == Len(SelectSeq(group, LAMBDA g : CutoffCount(g) > 0 /\ Min({CutoffCount(g), 3}) = j))
  IN  Divide(Plus(Times(Whole(having(1)), Get(discount, 1)),
             Plus(Times(Whole(having(2)), Get(discount, 2)),
                  Times(Whole(having(3)), Get(discount, 3)))),
             Total(LAMBDA g : g.count, group))

\* What the context gives to lower orders: the discounts of the n-grams it
\* keeps and all of those it does not.
Gamma(group, discount) ==
  LET having(j) == Len(SelectSeq(group, LAMBDA g : CutoffCount(g) > 0 /\ Min({CutoffCount(g), 3}) = j))
      pruned == Total(LAMBDA g : g.count - CutoffCount(g), group)
  IN  Divide(Plus(Whole(pruned),
             Plus(Times(Whole(having(1)), Get(discount, 1)),
             Plus(Times(Whole(having(2)), Get(discount, 2)),
                  Times(Whole(having(3)), Get(discount, 3))))),
             Total(LAMBDA g : g.count, group))

InitialStart(files) ==
  /\ discounts' = [k \in 1..Order |-> Discount(stats[k])]
  /\ sorted' = files
  /\ added' = [k \in 1..Order |-> 0]
  /\ sums' = [k \in 1..Order |-> << >>]
  /\ summed' = [k \in 1..Order |-> 0]
  /\ merged' = [k \in 1..Order |-> << >>]

\* AddRight: the sums of one context.
AddRight(k) ==
  /\ added[k] < Len(sorted[k])
  /\ LET group == OfContext(sorted[k], added[k] + 1)
     IN  /\ sums' = [sums EXCEPT ![k] = Append(@,
                       [gamma |-> Gamma(group, discounts[k]),
                        denominator |-> Total(LAMBDA g : g.count, group),
                        hash |-> Context(group[1].words)])]
         /\ added' = [added EXCEPT ![k] = @ + Len(group)]
  /\ UNCHANGED <<discounts, sorted, summed, merged>>

\* PruneNGramStream lets through what is not marked, and special unigrams.
Kept(gram) == CutoffCount(gram) > 0 \/ (Len(gram.words) = 1 /\ IsSpecial(gram.words[1]))

\* The unigrams: all share the empty context.  <unk> has what smoothing
\* leaves, the probability of <s> is 1.
Unigram(gram, sum) ==
  LET lost == IF config.interpolate THEN sum.gamma ELSE Whole(0)
  IN  [words |-> gram.words, kept |-> Kept(gram),
       prob |-> CASE gram.words[1] = UNK -> IF config.interpolate THEN Whole(0) ELSE sum.gamma
                  [] gram.words[1] = BOS -> Whole(1)
                  [] OTHER -> Divide(Apply(discounts[1], RawCount(gram)), sum.denominator),
       gamma |-> IF gram.words[1] = BOS THEN Whole(0) ELSE lost]

LongerGram(gram, sum, k) ==
  [words |-> gram.words, kept |-> Kept(gram),
   prob |-> Divide(Apply(discounts[k], gram.count), sum.denominator), gamma |-> sum.gamma]

\* MergeRight: the n-grams of one context.
MergeRight(k) ==
  /\ Len(merged[k]) < Len(sorted[k])
  /\ summed[k] < Len(sums[k])
  /\ LET group == OfContext(sorted[k], Len(merged[k]) + 1)
         sum == sums[k][summed[k] + 1]
     IN  merged' = [merged EXCEPT ![k] = @ \o
                      [i \in DOMAIN group |-> IF k = 1 THEN Unigram(group[i], sum)
                                              ELSE LongerGram(group[i], sum, k)]]
  /\ summed' = [summed EXCEPT ![k] = @ + 1]
  /\ UNCHANGED <<discounts, sorted, added, sums>>

\* The blocks MergeRight leaves of those it read.
PrunedBlocks(k) ==
  LET blocks == Blocks(merged[k], config.block)
  IN  [b \in DOMAIN blocks |-> SelectSeq(blocks[b], LAMBDA g : g.kept)]

---------------------------------------------------------------------------
\* Interpolate.

VARIABLES streams,     \* streams[k]: the n-grams of order k that are left
          backoffs,    \* backoffs[k]: the gammas left for contexts of k words
          active,      \* the longest order that has n-grams left
          current,     \* the order that is looked at
          entering,    \* whether it is matched, or left
          probs,       \* probs[k + 1]: the probability of the k-gram entered last
          model        \* the n-grams that are done: [words, prob, backoff]

interpolateVars == <<streams, backoffs, active, current, entering, probs, model>>

\* Gammas have a hash of their context where n-grams may have been pruned.
Hashed(k) == config.only # {} \/ config.prune[k] > 0

\* The first order without n-grams is the end of the active ones.
InterpolateStart(files) ==
  /\ streams' = files
  /\ backoffs' = [k \in 1..(Order - 1) |-> sums[k + 1]]
  /\ active' = Max({k \in 1..Order : \A j \in 1..k : files[j] # << >>})
  /\ current' = 1 /\ entering' = TRUE
  \* The share of <unk> is one of all words but <s>: nothing has been asked for with
  \* --vocab_pad that is more.
  /\ probs' = [k \in 1..(Order + 1) |-> IF k = 1 THEN Over(1, Len(files[1]) - 1) ELSE Whole(0)]
  /\ model' = {}

Head1(k) == streams[k][1]

\* The backoff of an n-gram, and the gammas that are left.
Backoff(k, words) ==
  IF ~(k < Order /\ Last(words) \notin {UNK, EOS} /\ backoffs[k] # << >>)
    THEN [out |-> Whole(1), left |-> IF k < Order THEN backoffs[k] ELSE << >>]
  ELSE IF ~Hashed(k + 1)
    THEN [out |-> backoffs[k][1].gamma, left |-> Tail(backoffs[k])]
  ELSE LET found == {i \in DOMAIN backoffs[k] : backoffs[k][i].hash = words}
       IN  IF found = {} THEN [out |-> Whole(1), left |-> << >>]
           ELSE [out |-> backoffs[k][Min(found)].gamma,
                 left |-> SubSeq(backoffs[k], Min(found) + 1, Len(backoffs[k]))]

Matches(k) == Lower(Head1(k).words) = IF k = 1 THEN << >> ELSE Head1(k - 1).words

\* Callback::Enter.
Enter ==
  /\ active > 0 /\ entering /\ Matches(current)
  /\ LET gram == Head1(current)
         prob == Plus(gram.prob, Times(gram.gamma, probs[current]))
         backoff == Backoff(current, gram.words)
     IN  /\ probs' = [probs EXCEPT ![current + 1] = prob]
         /\ backoffs' = [k \in DOMAIN backoffs |-> IF k = current THEN backoff.left ELSE backoffs[k]]
         /\ model' = model \cup {[words |-> gram.words, prob |-> prob, backoff |-> backoff.out]}
  /\ entering' = (current < active)
  /\ current' = IF current < active THEN current + 1 ELSE current
  /\ UNCHANGED <<streams, active>>

\* The head of the next order extends another n-gram: leave this one.
NoMatch ==
  /\ active > 0 /\ entering /\ ~Matches(current)
  /\ entering' = FALSE
  /\ current' = current - 1
  /\ UNCHANGED <<streams, backoffs, active, probs, model>>

\* A stream ends only after those of the orders above it.
WithoutSuffix == ~entering /\ Len(streams[current]) = 1 /\ active # current

Exit ==
  /\ active > 0 /\ ~entering /\ ~WithoutSuffix
  /\ streams' = [streams EXCEPT ![current] = Tail(@)]
  /\ IF Len(streams[current]) > 1
       THEN entering' = TRUE /\ UNCHANGED <<active, current>>
       ELSE active' = current - 1 /\ current' = current - 1 /\ UNCHANGED entering
  /\ UNCHANGED <<backoffs, probs, model>>

\* ~Callback aborts when gammas are left that nothing drains.
BackoffsDoNotMatch == \E k \in DOMAIN backoffs : ~Hashed(k + 1) /\ backoffs[k] # << >>
=============================================================================
