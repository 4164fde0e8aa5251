------------------------------ MODULE Estimate -----------------------------
(***************************************************************************)
(* lm::builder::Pipeline: count the corpus, sort the counts, adjust them,  *)
(* sort by context, turn counts into probabilities, sort by suffix again,  *)
(* interpolate.  The workers of a stage run at once, joined by chains      *)
(* (module Chain); what they compute does not depend on how they are       *)
(* scheduled, and here one runs after the other.                           *)
(***************************************************************************)
EXTENDS Probabilities, ExternalSort

VARIABLES stage,       \* what the pipeline does
          sorts,       \* sorts[k]: the sort of the n-grams of order k
          job,         \* the order whose sort is being merged
          lazy,        \* the memory it may leave for a lazy merge
          forMerge,    \* what is left of this memory for the other orders
          need         \* need[k]: what Merge said a lazy merge will take

sortVars == <<sorts, job, lazy, forMerge, need>>
vars == <<countVars, adjustVars, initialVars, interpolateVars, stage, sortVars>>

Nothing == << >>
Init ==
  /\ CountInit
  /\ stage = "count"
  /\ grams = Nothing /\ here = Nothing /\ copyFrom = 0 /\ lower = Nothing
  /\ actual = Nothing /\ valid = 0 /\ written = Nothing /\ stats = Nothing
  /\ discounts = Nothing /\ sorted = Nothing /\ added = Nothing
  /\ sums = Nothing /\ summed = Nothing /\ merged = Nothing
  /\ streams = Nothing /\ backoffs = Nothing /\ active = 0 /\ current = 0
  /\ entering = TRUE /\ probs = Nothing /\ model = {}
  /\ sorts = Nothing /\ job = 0 /\ lazy = 0 /\ forMerge = 0 /\ need = Nothing

(* Sorting.                                                                *)
Compare == IF stage = "context" THEN "context" ELSE "suffix"
Entry(k) == TotalSize(k)
Sort == sorts[job]
\* The constructor rounds the buffer to whole records.
Buffer == config.buffer - (config.buffer % Entry(job))
Merging == stage \in {"merge", "lazy merge", "context", "suffix", "output"} /\ job \in DOMAIN sorts
MergeOver == Sort.reading = 0 /\ ~MustMerge(Sort, Buffer, lazy)

\* CountText ends with the sort's blocks on disk; InitForAdjust merges them.
SpillCounts ==
  /\ stage = "count" /\ ~counting
  /\ stage' = "merge"
  /\ sorts' = [k \in {Order} |-> Spill("suffix", TRUE, counted, Entry(Order))]
  /\ job' = Order /\ lazy' = config.lazy
  /\ UNCHANGED <<countVars, adjustVars, initialVars, interpolateVars, forMerge, need>>

MergePass ==
  /\ Merging /\ Sort.reading = 0 /\ MustMerge(Sort, Buffer, lazy)
  /\ sorts' = [sorts EXCEPT ![job] = BeginPass(@, Buffer, config.memory)]
  /\ UNCHANGED <<countVars, adjustVars, initialVars, interpolateVars, stage, job, lazy, forMerge, need>>

\* "It's probably better to die than loop indefinitely."
MergeBlocks ==
  /\ Merging /\ Sort.reading > 0 /\ Sort.off.blocks > 0
  /\ LET group == Group(Sort, Buffer, Sort.reading)
     IN  IF Len(group.queue) < 2 /\ group.off.blocks > 0
           THEN stage' = "aborted" /\ UNCHANGED sorts
           ELSE sorts' = [sorts EXCEPT ![job] = PassGroup(Compare, @, group)] /\ UNCHANGED stage
  /\ UNCHANGED <<countVars, adjustVars, initialVars, interpolateVars, job, lazy, forMerge, need>>

MergePassEnd ==
  /\ Merging /\ Sort.reading > 0 /\ Sort.off.blocks = 0
  /\ sorts' = [sorts EXCEPT ![job] = EndPass(@)]
  /\ UNCHANGED <<countVars, adjustVars, initialVars, interpolateVars, stage, job, lazy, forMerge, need>>

\* The lazy merge reads at most one block as it is, or all in one group.
LazyGroup(k, memory) ==
  IF sorts[k].off.blocks <= 1 THEN [off |-> NoOffsets, queue |-> << >>]
  ELSE Group(sorts[k], Buffer, memory)
LazyFails(k, memory) == LazyGroup(k, memory).off.blocks > 0
LazyRead(k, memory) ==
  IF sorts[k].off.blocks <= 1 THEN sorts[k].data
  ELSE MergeGroup(Compare, sorts[k], LazyGroup(k, memory).queue)

\* InitForAdjust asks what a lazy merge needs and gives Output just that.
MergeCounts ==
  /\ stage = "merge" /\ MergeOver
  /\ lazy' = LazyNeed(Sort, Buffer)
  /\ stage' = "lazy merge"
  /\ UNCHANGED <<countVars, adjustVars, initialVars, interpolateVars, sorts, job, forMerge, need>>

(* Adjusting counts.                                                       *)
StartAdjust ==
  /\ stage = "lazy merge" /\ MergeOver
  /\ LET blocks == Blocks(LazyRead(job, lazy), config.block)
     IN  IF LazyFails(job, lazy)
           THEN stage' = "aborted" /\ UNCHANGED adjustVars
           ELSE IF Order = 1
             THEN /\ stage' = "adjusted" /\ AdjustUnigrams(Flat(blocks))
                  /\ UNCHANGED <<here, copyFrom, lower, actual, valid, written>>
             ELSE /\ stage' = "adjust" /\ AdjustStart(blocks)
  /\ UNCHANGED <<countVars, initialVars, interpolateVars, sortVars>>

Adjust ==
  /\ stage = "adjust"
  /\ AdjustGram
  /\ UNCHANGED <<countVars, initialVars, interpolateVars, stage, sortVars>>

LastAdjust ==
  /\ stage = "adjust"
  /\ AdjustEnd
  /\ stage' = "adjusted"
  /\ UNCHANGED <<countVars, initialVars, interpolateVars, sortVars>>

\* What AdjustCounts has put out, order by order.
Adjusted(k) == IF k < Order THEN written[k] ELSE Flat(grams)

\* All orders but the first, which is in order, are sorted by context.
SpillAdjusted ==
  /\ stage = "adjusted"
  /\ sorts' = [k \in 2..Order |->
                 Spill("context", FALSE,
                       IF k < Order THEN Blocks(written[k], config.block) ELSE grams, Entry(k))]
  /\ stage' = "context" /\ job' = 2 /\ lazy' = 0
  /\ UNCHANGED <<countVars, adjustVars, initialVars, interpolateVars, forMerge, need>>

\* SortAndReadTwice merges them one after the other, to the end.
NextContextSort ==
  /\ stage = "context" /\ job <= Order /\ MergeOver
  /\ job' = job + 1
  /\ UNCHANGED <<countVars, adjustVars, initialVars, interpolateVars, stage, sorts, lazy, forMerge, need>>

(* Probabilities.                                                          *)
StartInitial ==
  /\ stage = "context" /\ job > Order
  /\ InitialStart([k \in 1..Order |-> IF k = 1 THEN Adjusted(1) ELSE sorts[k].data])
  /\ stage' = "initial"
  /\ UNCHANGED <<countVars, adjustVars, interpolateVars, sortVars>>

Unread == {k \in 1..Order : added[k] < Len(sorted[k])}
Unmerged == {k \in 1..Order : Len(merged[k]) < Len(sorted[k])}

AddContext ==
  /\ stage = "initial" /\ Unread # {}
  /\ AddRight(Min(Unread))
  /\ UNCHANGED <<countVars, adjustVars, interpolateVars, stage, sortVars>>

MergeContext ==
  /\ stage = "initial" /\ Unread = {} /\ Unmerged # {}
  /\ MergeRight(Min(Unmerged))
  /\ UNCHANGED <<countVars, adjustVars, interpolateVars, stage, sortVars>>

SpillInitial ==
  /\ stage = "initial" /\ Unread = {} /\ Unmerged = {}
  /\ sorts' = [k \in 2..Order |-> Spill("suffix", FALSE, PrunedBlocks(k), Entry(k))]
  /\ stage' = "suffix" /\ job' = Order /\ lazy' = config.lazy /\ forMerge' = config.lazy
  /\ need' = [k \in 2..Order |-> 0]
  /\ UNCHANGED <<countVars, adjustVars, initialVars, interpolateVars>>

\* MaximumLazyInput gives the longest n-grams what they need of the memory,
\* then the next, as far as it goes.
NextSuffixSort ==
  /\ stage = "suffix" /\ job >= 2 /\ MergeOver
  /\ need' = [need EXCEPT ![job] = LazyNeed(Sort, Buffer)]
  /\ forMerge' = forMerge - need'[job]
  /\ lazy' = forMerge'
  /\ job' = job - 1
  /\ UNCHANGED <<countVars, adjustVars, initialVars, interpolateVars, stage, sorts>>

StartOutput ==
  /\ stage = "suffix" /\ job < 2
  /\ stage' = IF Order = 1 THEN "read" ELSE "output"
  /\ job' = 2 /\ lazy' = IF Order = 1 THEN 0 ELSE need[2]
  /\ UNCHANGED <<countVars, adjustVars, initialVars, interpolateVars, sorts, forMerge, need>>

\* Output merges again with the memory Merge said it needs.
NextOutput ==
  /\ stage = "output" /\ MergeOver
  /\ stage' = IF LazyFails(job, lazy) THEN "aborted" ELSE IF job = Order THEN "read" ELSE stage
  /\ sorts' = [sorts EXCEPT ![job] = [@ EXCEPT !.data = LazyRead(job, lazy), !.off = NoOffsets]]
  /\ job' = IF job = Order THEN job ELSE job + 1
  /\ lazy' = IF job = Order THEN 0 ELSE need[job + 1]
  /\ UNCHANGED <<countVars, adjustVars, initialVars, interpolateVars, forMerge, need>>

(* Interpolation.                                                          *)
StartInterpolate ==
  /\ stage = "read"
  /\ InterpolateStart([k \in 1..Order |-> IF k = 1 THEN Flat(PrunedBlocks(1)) ELSE sorts[k].data])
  /\ stage' = "interpolate"
  /\ UNCHANGED <<countVars, adjustVars, initialVars, sortVars>>

Interpolating ==
  /\ stage = "interpolate" /\ active > 0
  /\ IF WithoutSuffix THEN stage' = "aborted" /\ UNCHANGED interpolateVars
     ELSE UNCHANGED stage /\ (Enter \/ NoMatch \/ Exit)
  /\ UNCHANGED <<countVars, adjustVars, initialVars, sortVars>>

Finish ==
  /\ stage = "interpolate" /\ active = 0
  /\ stage' = IF BackoffsDoNotMatch THEN "aborted" ELSE "done"
  /\ UNCHANGED <<countVars, adjustVars, initialVars, interpolateVars, sortVars>>

Stop == stage \in {"done", "aborted"} /\ UNCHANGED vars

CountText ==
  /\ stage = "count"
  /\ CountNext
  /\ UNCHANGED <<adjustVars, initialVars, interpolateVars, stage, sortVars>>

Next ==
  \/ CountText \/ SpillCounts
  \/ MergePass \/ MergeBlocks \/ MergePassEnd
  \/ MergeCounts \/ StartAdjust \/ Adjust \/ LastAdjust
  \/ SpillAdjusted \/ NextContextSort
  \/ StartInitial \/ AddContext \/ MergeContext
  \/ SpillInitial \/ NextSuffixSort \/ StartOutput \/ NextOutput
  \/ StartInterpolate \/ Interpolating \/ Finish
  \/ Stop

Spec == Init /\ [][Next]_vars

(***************************************************************************)
(* What the text says, without blocks, sorts or files.                     *)
(***************************************************************************)
Padded(line) ==
  LET words == SelectSeq(line, LAMBDA w : w \notin {"<unk>", "<s>", "</s>"})
  IN  StartSentence \o [i \in DOMAIN words |-> Index(vocab, words[i]) - 1] \o <<EOS>>
Places == UNION {{<<l, e>> : e \in Order..Len(Padded(config.text[l]))} : l \in DOMAIN config.text}
GramAt(k, place) == SubSeq(Padded(config.text[place[1]]), place[2] - k + 1, place[2])
CountOf(words) == Cardinality({p \in Places : GramAt(Len(words), p) = words})
Seen(k) == {GramAt(k, p) : p \in Places}

\* Kneser-Ney: how many words the n-gram follows, not how often it occurs.
KneserNey(words) ==
  IF Len(words) = Order \/ words[1] = BOS THEN CountOf(words)
  ELSE Cardinality({longer \in Seen(Len(words) + 1) : Lower(longer) = words})

GramsOf(k) == IF k = 1 THEN {<<UNK>>, <<BOS>>} \cup Seen(1) ELSE {g \in Seen(k) : g[2] # BOS}
Pruned(words) ==
  /\ ~(Len(words) = 1 /\ IsSpecial(words[1]))
  /\ CountOf(words) <= config.prune[Len(words)] \/ HasPrunedWord(words)

InOrder(compare, records) ==
  \A i \in 1..(Len(records) - 1) : Less(compare, records[i].words, records[i + 1].words)

\* Whatever the blocks, the log and the passes of the sort: AdjustCounts
\* reads every n-gram of the text once, in suffix order, with its count
\* (corpus_count.cc, sort.hh, combine_counts.hh).
CountsAreExact ==
  (stage = "lazy merge" /\ MergeOver) =>
    LET file == LazyRead(job, lazy)
    IN  /\ InOrder("suffix", file)
        /\ Range(file) = {Counted(g, CountOf(g)) :
                            g \in Seen(Order) \cup (IF Order = 1 THEN {<<UNK>>, <<BOS>>} ELSE {})}

\* None of the aborts is reached: a merge has room for two blocks at least
\* and a lazy one for all (sort.hh:282, 286), every n-gram has its suffix
\* (joint_order.hh) and every gamma its context (interpolate.cc:89).
NeverAborts == stage # "aborted" /\ forMerge >= 0

\* What AdjustCounts puts out is what Kneser and Ney define: each n-gram
\* once, marked by how often it occurs (adjust_counts.cc, payload.hh).
AdjustedIsKneserNey ==
  stage = "adjusted" =>
    \A k \in 1..Order :
      /\ Len(Adjusted(k)) = Cardinality(GramsOf(k))
      /\ Range(Adjusted(k)) = {[words |-> g, count |-> KneserNey(g), marked |-> Pruned(g)] : g \in GramsOf(k)}
      /\ k < Order => InOrder("suffix", Adjusted(k))

Entries(words) == {m \in model : m.words = words}
InModel(words) == Entries(words) # {}
ProbOf(words) == (CHOOSE m \in Entries(words) : TRUE).prob
BackoffOf(words) == IF InModel(words) THEN (CHOOSE m \in Entries(words) : TRUE).backoff ELSE Whole(1)

\* The probability of a word after a history, as a reader of the model has it.
RECURSIVE Probability(_, _)
Probability(history, word) ==
  IF InModel(Append(history, word)) THEN ProbOf(Append(history, word))
  ELSE Times(BackoffOf(history), Probability(Tail(history), word))

Words == {m.words[1] : m \in {n \in model : Len(n.words) = 1}}
Histories == {<< >>} \cup {m.words : m \in {n \in model : Len(n.words) < Order /\ Last(n.words) # EOS}}

\* "Makes model sum to 1 with pruning (I hope)" (initial_probabilities.cc:186):
\* after any history the probabilities of all words but <s> add up to one.
SumsToOne ==
  stage = "done" =>
    \A h \in Histories :
      SumOver(LAMBDA w : Probability(h, w), Words \ {BOS}) = Whole(1)

\* An n-gram stays in the model only with its context and its suffix, as
\* the data structures for queries need it (lmplz_main.cc:45).
KeptIsClosed ==
  stage = "done" =>
    \A m \in model : Len(m.words) > 1 => InModel(Context(m.words)) /\ InModel(Lower(m.words))

\* The statistics the discounts come from are those of the adjusted counts
\* (adjust_counts.cc:49).  The code adds actual counts when it marks what is
\* left at the end of the stream, so no run asks for this (README, section 5).
StatsAreOfAdjusted ==
  stage = "adjusted" =>
    \A k \in 1..Order : \A c \in 1..4 :
      stats[k].n[c + 1] = Cardinality({g \in GramsOf(k) : KneserNey(g) = c})
=============================================================================
