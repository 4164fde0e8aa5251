----------------------------- MODULE Interpolate -----------------------------
(***************************************************************************)
(* lm::interpolate, in three passes.                                       *)
(*                                                                         *)
(* The first (lm/interpolate/merge_vocab.cc and merge_probabilities.cc)    *)
(* merges the vocabularies of the models into one numbering, renumbers the *)
(* n-grams while they are read, and in a recursion over suffixes           *)
(* multiplies what the models say of each n-gram that one of them has,     *)
(* with the order each model had to back off to.                           *)
(*                                                                         *)
(* In the second and third (normalize.cc, backoff_reunification.cc and     *)
(* pipeline.cc) the merged n-grams, sorted by context, are charged the     *)
(* backoffs of the models that backed off, summed over each context and    *)
(* divided by the sum; the backoff of the context is what keeps lower      *)
(* orders consistent.  The backoffs of the models come from their streams  *)
(* through a queue in suffix order that skips n-grams which are no         *)
(* context, and the new backoffs go out without their n-grams: the last    *)
(* pass joins them by position with the probabilities, sorted again.       *)
(*                                                                         *)
(* A model is [order, words, grams]: its words are a set of hashes, so a   *)
(* word is the number its vocabulary is sorted by, and grams is a function *)
(* from n-grams of these words to [prob, backoff].  The code keeps         *)
(* logarithms; here they are the probabilities themselves, sums of         *)
(* logarithms are products and a weight is an exponent.                    *)
(***************************************************************************)
EXTENDS NGram

CONSTANTS Inputs,      \* the choices of models to interpolate, each a sequence
          Lambdas,     \* info.lambdas: the weight of each model, a natural number
          Bos          \* <s>, which no model predicts

VARIABLES models,      \* the models that are interpolated
          stage,       \* the pass that runs, "done" or "thrown"
          at,          \* at[m]: the current_index_ of the reader of vocabulary m
          heap,        \* the readers that are in the heap
          previous,    \* prev_hash_value
          written,     \* the words that have been enumerated, <unk> aside
          mapping,     \* mapping[m][i + 1]: the universal index of word i of model m
          streams,     \* streams[m][k]: what is left of the k-grams of model m
          stack,       \* the calls of HandleSuffix
          merged,      \* merged[k]: the records written for order k
          queue,       \* queue_: the streams <<m, k>> in the priority queue
          entered,     \* entered_[k]: the streams whose k-gram is the context
          matrix,      \* matrix_[m][k]: the backoff of model m for it
          entering,    \* the context Enter was called with, << >> outside of it
          calls,       \* the calls of ExtendContext: [middle, z]
          probs,       \* probs[k]: the records of prob_out_ of order k
          backoffs,    \* backoffs[k]: the backoffs written for k-grams
          combined     \* the n-grams of the interpolated model

mergeVars == <<models, at, heap, previous, written, mapping, stack, merged>>
normalizeVars == <<queue, entered, matrix, entering, calls, probs, backoffs, combined>>
vars == <<mergeVars, stage, streams, normalizeVars>>

---------------------------------------------------------------------------
Which == DOMAIN models
MaxOrder == Max({models[m].order : m \in Which})
ProductOver(f(_), S) == MapThenFoldSet(Times, Whole(1), f, LAMBDA T : CHOOSE x \in T : TRUE, S)
Power(p, n) == ProductOver(LAMBDA i : p, 1..n)

---------------------------------------------------------------------------
\* The vocabulary file of a model, without the <unk> it begins with.
VocabFile(model) == SetToSortSeq(model.words, <)

MergeInit ==
  /\ models \in Inputs
  /\ stage = "vocab"
  /\ at = [m \in Which |-> 1]
  /\ heap = Which
  /\ previous = 0
  /\ written = << >>
  /\ mapping = [m \in Which |-> [i \in 1..(Cardinality(models[m].words) + 1) |-> 0]]
  /\ streams = [m \in Which |-> << >>]
  /\ stack = << >> /\ merged = << >>

ReaderValue(m) == VocabFile(models[m])[at[m]]
HeapTops == {m \in heap : \A other \in heap : ReaderValue(m) <= ReaderValue(other)}

\* Mutant: every word of every vocabulary gets an index of its own.
EnumerateAll(words, hash) == Append(words, hash)

\* A word gets the next index unless it is the one before it again.
Enumerate(words, hash) == IF hash # previous THEN Append(words, hash) ELSE words

\* One round of MergeVocab's loop, with any reader the heap may have on top.
MergeWord ==
  /\ stage = "vocab"
  /\ \E m \in HeapTops :
       LET hash == ReaderValue(m) IN
         /\ written' = Enumerate(written, hash)
         /\ mapping' = [mapping EXCEPT ![m][at[m] + 1] = Len(written')]
         /\ previous' = hash
         /\ at' = [at EXCEPT ![m] = @ + 1]
         /\ heap' = IF at[m] < Len(VocabFile(models[m])) THEN heap ELSE heap \ {m}
  /\ UNCHANGED <<models, stage, streams, stack, merged>>

---------------------------------------------------------------------------
\* The k-grams of a model as they come from its file and out of Renumber.
LocalId(model, word) == Cardinality({w \in model.words : w <= word})
Renumber(m, gram) == [i \in DOMAIN gram |-> mapping[m][LocalId(models[m], gram[i]) + 1]]
FileOrder(m, k) == SetToSortSeq({g \in DOMAIN models[m].grams : Len(g) = k}, SuffixLess)
Source(m, k) ==
  LET file == FileOrder(m, k)
  IN  [i \in DOMAIN file |-> [words |-> Renumber(m, file[i]), prob |-> models[m].grams[file[i]].prob,
                              backoff |-> models[m].grams[file[i]].backoff]]

\* SetupInputs puts the models on chains, the second time without the n-grams
\* of the highest order of each.
SetupInputs(excludeHighest) ==
  streams' = [m \in Which |->
                [k \in 1..(models[m].order - (IF excludeHighest THEN 1 ELSE 0)) |-> Source(m, k)]]

Present(m, k) == k <= models[m].order /\ streams[m][k] # << >>
HeadOf(m, k) == streams[m][k][1]
Skip(m, k) == [streams[m] EXCEPT ![k] = Tail(@)]

\* The record of an n-gram: what the models that have it say, for the others
\* what they said of its suffix.
Scored(m, head) == Power(head.prob, Lambdas[m])
Record(words, has, k, frame) ==
  LET said == [m \in Which |-> IF m \in has THEN Scored(m, HeadOf(m, k)) ELSE frame.probs[m]]
  IN  [suffix |-> words, probs |-> said, combined |-> ProductOver(LAMBDA m : said[m], Which),
       from |-> [m \in Which |-> IF m \in has THEN k - 1 ELSE frame.from[m]]]

---------------------------------------------------------------------------
\* BoundedSequenceEncoding packs the orders into the bits their bounds need.
\* All fit into its first word here.
BitsFor(bound) == IF bound <= 1 THEN 0 ELSE Max({i \in 1..8 : bound >= 2^(i - 1)})
Bound(m, k) == Min({k, models[m].order})
Shift(m, k) == MapThenSumSet(LAMBDA other : BitsFor(Bound(other, k)), {other \in Which : other < m})
Encode(k, from) == MapThenSumSet(LAMBDA m : from[m] * 2^Shift(m, k), Which)
Decode(k, code, m) == (code \div 2^Shift(m, k)) % 2^BitsFor(Bound(m, k))

Output(k, record, lower) ==
  [words |-> record.suffix, prob |-> record.combined, lower |-> lower,
   from |-> Encode(k, record.from)]

\* The vocabularies are merged.  HandleNGrams begins with <unk>, which every model
\* has first: it is what unknown words fall back to.
StartMerge ==
  /\ stage = "vocab" /\ heap = {}
  /\ SetupInputs(FALSE)
  /\ stage' = "unk"
  /\ UNCHANGED mergeVars
HandleUnk ==
  /\ stage = "unk"
  /\ LET unk == Record(<<UNK>>, Which, 1, << >>) IN
       /\ merged' = [k \in 1..MaxOrder |->
                       IF k = 1 THEN <<Output(1, unk, unk.combined)>> ELSE << >>]
       /\ stack' = <<[unk EXCEPT !.suffix = << >>]>>
  /\ streams' = [m \in Which |-> Skip(m, 1)]
  /\ stage' = "merge"
  /\ UNCHANGED <<models, at, heap, previous, written, mapping>>

\* The models whose next n-gram of the order extends the suffix, and which of
\* them have the smallest.
Extending(k, suffix) == {m \in Which : Present(m, k) /\ Tail(HeadOf(m, k).words) = suffix}
Smallest(k, candidates) ==
  HeadOf(CHOOSE m \in candidates : \A other \in candidates :
           HeadOf(m, k).words[1] <= HeadOf(other, k).words[1], k).words

\* One round of HandleSuffix, which calls itself for the n-gram it wrote.
HandleNGram ==
  /\ stage = "merge" /\ stack # << >>
  /\ LET k == Len(stack)
         frame == Last(stack)
         candidates == Extending(k, frame.suffix)
     IN  /\ candidates # {}
         /\ LET words == Smallest(k, candidates)
                has == {m \in Which : Present(m, k) /\ HeadOf(m, k).words = words}
                record == Record(words, has, k, frame)
            IN  /\ merged' = [merged EXCEPT ![k] = Append(@, Output(k, record, frame.combined))]
                /\ streams' = [m \in Which |-> IF m \in has THEN Skip(m, k) ELSE streams[m]]
                /\ stack' = IF k < MaxOrder THEN Append(stack, record) ELSE stack
  /\ UNCHANGED <<models, stage, at, heap, previous, written, mapping>>

\* "no more ngrams of this order match our suffix, so we're done"
SuffixDone ==
  /\ stage = "merge" /\ stack # << >>
  /\ Extending(Len(stack), Last(stack).suffix) = {}
  /\ stack' = Front(stack)
  /\ UNCHANGED <<models, stage, at, heap, previous, written, mapping, streams, merged>>

MergeNext == MergeWord \/ StartMerge \/ HandleUnk \/ HandleNGram \/ SuffixDone

\* "MergeProbabilities did not exhaust all ngram streams"
Exhausted == \A m \in Which : \A k \in 1..models[m].order : streams[m][k] = << >>

---------------------------------------------------------------------------
Init ==
  /\ MergeInit
  /\ queue = {} /\ entered = << >> /\ matrix = << >>
  /\ entering = << >> /\ calls = << >>
  /\ probs = << >> /\ backoffs = << >> /\ combined = << >>

Throw == stage' = "thrown" /\ UNCHANGED <<mergeVars, streams, normalizeVars>>

\* HandleNGrams ends well or throws; the sort by context follows.
FinishMerge ==
  /\ stage = "merge" /\ stack = << >>
  /\ IF Exhausted
       THEN /\ merged' = [k \in 1..MaxOrder |->
                            SortSeq(merged[k], LAMBDA a, b : ContextLess(a.words, b.words))]
            /\ SetupInputs(TRUE)
            /\ stage' = "unigrams"
            /\ UNCHANGED <<models, at, heap, previous, written, mapping, stack, normalizeVars>>
       ELSE Throw

---------------------------------------------------------------------------
\* The BackoffManager.  SuffixLexicographicLess puts an n-gram behind the
\* shorter ones it ends with.
SuffixLexicographicLess(a, b) ==
  LET common == Min({Len(a), Len(b)})
      last(s) == SubSeq(s, Len(s) - common + 1, Len(s))
  IN  SuffixLess(last(a), last(b)) \/ (last(a) = last(b) /\ Len(a) < Len(b))

Front1(entry) == HeadOf(entry[1], entry[2])
QueueTops(q) ==
  {e \in q : \A other \in q : ~SuffixLexicographicLess(Front1(other).words, Front1(e).words)}
TopMatches(q, words) == \E e \in QueueTops(q) : Front1(e).words = words

ManagerInit ==
  LET positions == {<<m, k>> \in Which \X (1..MaxOrder) : k < models[m].order}
  IN  /\ queue' = {e \in positions : streams[e[1]][e[2]] # << >>}
      /\ entered' = [k \in 1..MaxOrder |-> {}]
      /\ matrix' = [m \in Which |-> [k \in 1..MaxOrder |-> Whole(1)]]

\* Next of an entry, for all entries of a set: the backoff is reset, and the
\* entry goes back into the queue unless its stream has ended.
NextOf(entries, q) ==
  /\ streams' = [m \in Which |-> [k \in DOMAIN streams[m] |->
                   IF <<m, k>> \in entries THEN Tail(streams[m][k]) ELSE streams[m][k]]]
  /\ matrix' = [m \in Which |-> [k \in 1..MaxOrder |->
                  IF <<m, k>> \in entries THEN Whole(1) ELSE matrix[m][k]]]
  /\ queue' = q \cup {e \in entries : Len(streams[e[1]][e[2]]) > 1}

\* Mutant: a backoff of one for every model that has the n-gram.
SkippedEach(q, words) == Append(backoffs[Len(words)], Whole(1))

\* A backoff of one, for the last stream that has the n-gram.
Skipped(q, words) ==
  IF TopMatches(q, words) THEN backoffs[Len(words)]
  ELSE Append(backoffs[Len(words)], Whole(1))

SkipRecord ==
  \E e \in QueueTops(queue) :
    /\ backoffs' = [backoffs EXCEPT ![Len(Front1(e).words)] = Skipped(queue \ {e}, Front1(e).words)]
    /\ NextOf({e}, queue \ {e})
    /\ UNCHANGED <<mergeVars, stage, entered, entering, calls, probs, combined>>

Before(words) == \E e \in QueueTops(queue) : SuffixLexicographicLess(Front1(e).words, words)

\* The loops of Enter, one round each.
EnterSkip ==
  /\ stage = "normalize" /\ entering # << >> /\ Before(entering)
  /\ SkipRecord
EnterMatch ==
  /\ stage = "normalize" /\ entering # << >> /\ ~Before(entering)
  /\ \E e \in QueueTops(queue) :
       /\ Front1(e).words = entering
       /\ queue' = queue \ {e}
       /\ entered' = [entered EXCEPT ![Len(entering)] = @ \cup {e}]
       /\ matrix' = [matrix EXCEPT ![e[1]][e[2]] = Front1(e).backoff]
  /\ UNCHANGED <<mergeVars, stage, streams, entering, calls, probs, backoffs, combined>>
Entered == entering # << >> /\ ~Before(entering) /\ ~TopMatches(queue, entering)

---------------------------------------------------------------------------
\* Thread::Run sums the unigrams.  "lmplz outputs p(<s>) = 1 to get q to compute
\* nicely.  That will always result in 1.0 more than it should be."
Unigrams ==
  /\ stage = "unigrams"
  /\ LET z == Minus(SumOver(LAMBDA i : merged[1][i].prob, DOMAIN merged[1]), Whole(1))
     IN  /\ probs' = [k \in 1..MaxOrder |->
                        IF k > 1 THEN << >>
                        ELSE [i \in DOMAIN merged[1] |->
                                [words |-> merged[1][i].words, prob |-> Quotient(merged[1][i].prob, z)]]]
         /\ calls' = IF MaxOrder > 1 THEN <<[middle |-> << >>, z |-> z]>> ELSE << >>
  /\ backoffs' = [k \in 1..(MaxOrder - 1) |-> << >>]
  /\ ManagerInit
  /\ merged' = [merged EXCEPT ![1] = << >>]
  /\ stage' = "normalize"
  /\ UNCHANGED <<models, at, heap, previous, written, mapping, stack, streams, entering, combined>>

\* The loop of ExtendContext: the order is that of the call, and the next
\* context is that of the next n-gram if it has the middle.
CallOrder == Len(calls) + 1
Extends(k, middle) == merged[k] # << >> /\ SubSeq(merged[k][1].words, 2, k - 1) = middle

StartContext ==
  /\ stage = "normalize" /\ entering = << >> /\ calls # << >>
  /\ Extends(CallOrder, Last(calls).middle)
  /\ entering' = Context(merged[CallOrder][1].words)
  /\ UNCHANGED <<mergeVars, stage, streams, queue, entered, matrix, calls, probs, backoffs, combined>>

\* The n-grams of the context that has been entered.
Group(k) == {i \in DOMAIN merged[k] : Context(merged[k][i].words) = entering}

\* Mutant: the backoff of the order a model backed off to is not charged.
ChargedBehind(k, record, length) ==
  ProductOver(LAMBDA m : Power(ProductOver(LAMBDA j : matrix[m][j],
                                           (Decode(k, record.from, m) + 2)..length), Lambdas[m]), Which)

\* What the models that backed off are charged: the backoffs of the contexts
\* from the one they backed off to up to a length.
Charged(k, record, length) ==
  ProductOver(LAMBDA m : Power(ProductOver(LAMBDA j : matrix[m][j],
                                           (Decode(k, record.from, m) + 1)..length), Lambdas[m]), Which)
FullProb(k, record) == Times(record.prob, Charged(k, record, k - 1))
LowerProb(k, record) == Times(record.lower, Charged(k, record, k - 2))

\* SameContext, from the call of Enter to that of ExtendContext.
SameContext ==
  /\ stage = "normalize" /\ Entered
  /\ LET k == CallOrder
         zLower == Last(calls).z
         backoffOnce == ProductOver(LAMBDA m : Power(matrix[m][k - 1], Lambdas[m]), Which)
         backedOff == Times(zLower, backoffOnce)
         delta == SumOver(LAMBDA i : Minus(FullProb(k, merged[k][i]),
                                           Times(LowerProb(k, merged[k][i]), backoffOnce)), Group(k))
         z == Plus(backedOff, delta)
     IN  /\ probs' = [probs EXCEPT ![k] = @ \o
                        [i \in 1..Cardinality(Group(k)) |->
                           [words |-> merged[k][i].words, prob |-> Quotient(FullProb(k, merged[k][i]), z)]]]
         /\ backoffs' = [backoffs EXCEPT ![k - 1] = Append(@, Quotient(backedOff, z))]
         /\ merged' = [merged EXCEPT ![k] = SubSeq(@, Cardinality(Group(k)) + 1, Len(@))]
         \* ExtendContext of the highest order there is not: Exit follows at once.
         /\ IF k < MaxOrder
              THEN /\ calls' = Append(calls, [middle |-> entering, z |-> z])
                   /\ UNCHANGED <<streams, matrix, queue, entered>>
              ELSE /\ NextOf(entered[k - 1], queue)
                   /\ entered' = [entered EXCEPT ![k - 1] = {}]
                   /\ UNCHANGED calls
  /\ entering' = << >>
  /\ UNCHANGED <<models, stage, at, heap, previous, written, mapping, stack, combined>>

\* ExtendContext returns, and SameContext calls Exit for its context.
ContextDone ==
  /\ stage = "normalize" /\ entering = << >> /\ calls # << >>
  /\ ~Extends(CallOrder, Last(calls).middle)
  /\ calls' = Front(calls)
  /\ IF Len(calls) > 1
       THEN /\ NextOf(entered[Len(calls) - 1], queue)
            /\ entered' = [entered EXCEPT ![Len(calls) - 1] = {}]
       ELSE UNCHANGED <<streams, matrix, queue, entered>>
  /\ UNCHANGED <<mergeVars, stage, entering, probs, backoffs, combined>>

\* Finish skips what is left.
FinishSkip ==
  /\ stage = "normalize" /\ calls = << >> /\ queue # {} /\ MaxOrder > 1
  /\ SkipRecord

---------------------------------------------------------------------------
\* The third pass: the probabilities are sorted by suffix and joined.
SortProbs ==
  /\ stage = "normalize" /\ calls = << >> /\ (queue = {} \/ MaxOrder = 1)
  /\ probs' = [k \in 1..MaxOrder |-> SortSeq(probs[k], LAMBDA a, b : SuffixLess(a.words, b.words))]
  /\ combined' = [k \in 1..MaxOrder |-> << >>]
  /\ stage' = "reunify"
  /\ UNCHANGED <<mergeVars, streams, queue, entered, matrix, entering, calls, backoffs>>

AtMostOne(p) == IF AtMost(p, Whole(1)) THEN p ELSE Whole(1)

\* MergeWorker::Run, the threads of the orders one after the other.
Reunify ==
  /\ stage = "reunify"
  /\ IF \A k \in 1..(MaxOrder - 1) : Len(probs[k]) = Len(backoffs[k])
       THEN /\ combined' = [k \in 1..MaxOrder |-> [i \in DOMAIN probs[k] |->
                 IF k = MaxOrder
                   THEN [words |-> probs[k][i].words, prob |-> probs[k][i].prob, backoff |-> Whole(1)]
                   ELSE [words |-> probs[k][i].words, prob |-> AtMostOne(probs[k][i].prob),
                         backoff |-> backoffs[k][i]]]]
            /\ stage' = "done"
            /\ UNCHANGED <<mergeVars, streams, queue, entered, matrix, entering, calls, probs, backoffs>>
       ELSE \* "Streams were not the same size during merging"
            Throw

Ended == stage \in {"done", "thrown"} /\ UNCHANGED vars

Next ==
  \/ MergeNext /\ UNCHANGED normalizeVars
  \/ FinishMerge \/ Unigrams \/ StartContext \/ EnterSkip \/ EnterMatch \/ SameContext
  \/ ContextDone \/ FinishSkip \/ SortProbs \/ Reunify \/ Ended

Spec == Init /\ [][Next]_vars

---------------------------------------------------------------------------
\* What a backoff model says of a word after some others; an unknown word is <unk>.
RECURSIVE Probability(_, _, _)
Probability(grams, history, word) ==
  IF Append(history, word) \in DOMAIN grams THEN grams[Append(history, word)].prob
  ELSE Times(IF history \in DOMAIN grams THEN grams[history].backoff ELSE Whole(1),
             Probability(grams, Tail(history), word))

Known(model, history) == [i \in DOMAIN history |-> IF history[i] \in model.words THEN history[i] ELSE UNK]
OfModel(m, history, word) ==
  LET known == Known(models[m], Append(history, word))
  IN  Probability(models[m].grams, Front(known), Last(known))

\* The interpolated model as it is printed: its words by their place in the
\* merged vocabulary.
WordOf(id) == IF id = UNK THEN UNK ELSE written[id]
Printed ==
  LET records == UNION {Range(combined[k]) : k \in DOMAIN combined}
      name(r) == [i \in DOMAIN r.words |-> WordOf(r.words[i])]
  IN  [g \in {name(r) : r \in records} |-> CHOOSE r \in records : name(r) = g]

Words == {UNK} \cup UNION {models[m].words : m \in Which}
Product(history, word) == ProductOver(LAMBDA m : Power(OfModel(m, history, word), Lambdas[m]), Which)

\* The pipeline ends without an exception, and after any words the model it
\* writes gives each word the product of what the models give it, to the power
\* of their weights, over the sum of these products: the n-grams and backoffs
\* that travel apart through sorts and skips meet again.
InterpolatesTheModels ==
  /\ stage # "thrown"
  /\ stage = "done" =>
       \A length \in 0..(MaxOrder - 1) : \A history \in [1..length -> Words] :
         LET z == SumOver(LAMBDA word : Product(history, word), Words \ {Bos})
         IN  \A word \in Words \ {Bos} :
               Probability(Printed, history, word) = Quotient(Product(history, word), z)
==============================================================================
