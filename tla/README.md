# Specifications of mtplz

mtplz is a phrase-based machine translation decoder with the language model
toolkit (KenLM) it is built on.  This directory holds TLA+ modules that model
the parts of it where order, sharing and termination matter, TLC configurations
that check them on small instances, and TLAPS proofs of the most important
facts for every instance.  `PROJECT.json` says for every definition that models
code which lines it stands for.

1. [The system](#1-the-system) - components, state, operations, what is hard
2. [Modules](#2-modules) - how each corresponds to the code
3. [Runs](#3-runs) - what is checked, with which bounds and which fairness
4. [Proofs](#4-proofs)
5. [Disagreements with the code](#5-disagreements-with-the-code)
6. [What is not modelled](#6-what-is-not-modelled)
7. [Plan](#7-plan)

## 1. The system

Two groups of programs share `util/`.

    decoder      decode_main -> System -> Chart -> Stacks -> search::EdgeGenerator
                                            ^         |
                                       pt (mmap)   Coverage, Future, features, lm

    lm tools     lm/builder (lmplz), lm/interpolate:   threads joined by
                 util::stream::Chain, Sort and RewindableStream
                 lm/filter:   reader -> ThreadPool -> ThreadPool -> output
    lm queries   an ARPA file -> hash tables or a trie -> scores of words,
                 of rules, of fragments in the search

Everything that crosses a thread goes through `util::PCQueue`: the queues of a
`Chain`, the requests of a `ThreadPool`, and the way batches go home in the
filter.  The decoder translates a sentence in one thread.

| Component | State | Operations | What is hard | What makes it correct |
|---|---|---|---|---|
| `util/pcqueue.hh` PCQueue | two semaphores, two mutexes, a ring with two indices | Produce, Consume | both ends run at once under different mutexes; an assignment that throws must undo half a call | slots are neither lost nor raced on; a bounded FIFO; a waiting consumer is served |
| `util/thread_pool.hh` ThreadPool | a PCQueue, workers | Produce, the destructor | poison for every worker, behind the requests | drains and joins |
| `util/stream/chain` Chain, Link | queues, blocks in one allocation, each position's thread | Add, Start, Wait, `++`, Poison | blocks are shared memory passed without locks; a poison goes round with them; start and end overlap | no block in two places; the file in order; ends |
| `util/stream/io.cc` Read, Write, Recycler, WriteAndRecycle | an offset | Run | partial blocks, recycled sizes | nothing stale is written |
| `util/stream/rewindable_stream` | the held blocks, a cursor, a mark, two poison flags | `++`, Mark, Rewind, Poison | look-ahead over blocks that must not leave yet, with a fixed number of them | reads in order, sends once, does not run out of blocks |
| `util/stream/sort.hh` Sort | runs in a file, `Offsets` | spill, merge, lazy merge | memory split among passes; a run-length log of runs that are written while it is read | the output is the sorted, combined input, in whatever memory |
| `lm/filter/thread.hh` Controller | batches, two pools, `ordering_`, sequence numbers | AddNGram, Flush, the destructor | batches finish in any order; the reader and the output thread write one file | the output of a single thread |
| `lm/filter/phrase`, `vocab` filters | postings of sentences per word or piece of a phrase; a graph per n-gram | ReadMultiple, AddNGram | vertices and arcs move on lazily, several arcs share a vertex that has moved | an n-gram reaches the sentences it can occur in |
| `lm/filter/format.hh` buffers | lines and annotations that point into them | AddNGram, SingleAddNGram, Flush | buffers are used again, pointers compare equal | an annotation belongs to its line |
| `lm/interpolate/normalize.cc` | sums per context | SameContext, Finish | writes first, normalises later, over a RewindableStream | every record is normalised once before it leaves |
| `lm/interpolate` vocabularies, MergeProbabilities, Normalize, reunification | a heap of vocabulary files; one frame per order; the backoffs of the current contexts | MergeVocab, HandleSuffix, SameContext, SkipRecord | three recursions over the same n-grams in two orders, joined by position | the product of the models, summing to one |
| `lm/builder` counting: CorpusCount, AdjustCounts | a hash table per block; one record per order, the place to fill gaps from | count, adjust, prune | one pass over one order writes all lower ones, marks what is pruned and deletes from the block it reads | Kneser-Ney's counts, whatever the blocks |
| `lm/builder` probabilities: InitialProbabilities, Interpolate | sums per context, one file of n-grams and one of backoffs per order | AddRight, MergeRight, Callback | files joined by position or by hash, some of whose records were pruned | probabilities that add up to one |
| `decode/coverage.hh` Coverage | first zero, 64 bits | Set, Compatible, LeftOpen, RightOpen | shifts relative to a moving origin | bits name the same words |
| `decode/future` Future | estimates per span | constructor, Change | estimates of gaps are exchanged for those of what is left | a telescoping sum |
| `decode/stacks.cc` Stacks | hypotheses by number of words | constructor, NewHypothesis | jumps, limits, recombination | exact coverage, bounded reordering, a result, the best one when nothing is cut off |
| `decode/chart` Chart, VocabMap | target phrases per span, a cache over sentences | ReadSentence, LoadPhrases | the cache outlives the chart | a phrase for every word |
| `decode/objective`, features | offsets, weights; fields of a hypothesis | AddFeature, Score..., HypothesisEqual | scores read fields other steps wrote, or not; what later scores read must be compared | the score a derivation has, phrase by phrase |
| `search/vertex`, `search/edge_generator` | a tree of hypotheses by language model state, a queue of edges | Split, Pop | lazy splits that share what they show | every pair once; what is shown is true; best first |
| `search/nbest` | lists shared by derivations | Visit, MoveTop | laziness over shared lists | the n best derivations |
| `util/file_piece`, `util/read_compressed` | a window of a file, mapped or read; what a decompressor holds back | Shift, ReadLine, Read | the window moves, doubles and changes its kind while a line is being looked for | the lines of the file |
| `pt/format` | a memory-mapped file | Create, Write | a writer that dies | a reader can tell an unfinished file |
| `lm/search_hashed`, `lm/search_trie` loading | tables; for the trie sorted files and messages | ReadNGrams, FixSRI, BackoffMessages | n-grams an ARPA file lacks are filled in with blanks; marks in the sign of a zero | every query finds what the file says |
| `lm/binary_format`, `lm/vocab`, `lm/trie`, `lm/quantize`, `lm/bhiksha`, `lm/read_arpa` | bits in one memory, a file of several parts behind a header | GenericModel's constructor, Insert, WriteNext, FinishFile, Find | sizes are computed before the data is known, offsets twice; the parts of the file reach the disk one after the other | a file that opens answers as its text says |
| `lm/model.cc` queries, `lm/left.hh`, `lm/partial.hh` | states of the right and the left side | FullScore, GetState, Terminal, NonTerminal, ExtendLeft, Subsume | a state is cut as short as it can be without anyone noticing | a fragment costs what its words cost, however it was put together |

`PROJECT.json` lists every component with its files, and the hazards line by
line with the properties that cover them.

## 2. Modules

    BoundedQueue   <-refines-  PCQueue                      PCQueueProofs
         |  (the level at which queues are used below)
         +-- ThreadPool --(twice)--+                  FilterProofs
         |                         +-- FilterController -- NGramFilters
         +-- Link -- Chain                            ChainProofs
                 \-- RewindableStream -- ContextWriter --- MCStreams  StreamProofs
                                      \- StreamReader --/             ReaderProofs

    Stacks -- MCStacks                                StacksProofs
    Features --/
    EdgeGenerator -refines-> PairSearch               EdgeProofs

    NGram -- Counts -- Probabilities
        \                    |
         ExternalSort -- Estimate
    NGram -- Interpolate
    HashedSearch -- TrieSearch -- Query
                          \
           PackedTrie -- ModelFile

    FilePiece -- PhraseTable -- Sentences

`MC...` modules hold the values of constants for TLC.  A definition preceded by
`\* Mutant:` is a plausible mistake in the code; it is used by nothing but the
experiment that puts it in the place of the definition behind it and expects a
property to fail.

**PCQueue** (`util/pcqueue.hh`).  `pc[t]` is the place of a thread in Produce or
Consume and every action is one access to shared state: wait for the semaphore,
lock, assign, (undo, unwind,) advance and unlock, post.  An assignment may throw,
in either function, and then leaves the assigned object in any state; what
follows is the catch block and the release of the lock.  `empty` and `used` are
the semaphores' counts, `produceAt` and `consumeAt` the indices of the two
iterators.  Assignments of class objects are not atomic in C++: that no two
threads are in an assignment to one slot is the property `NoSlotRace`, and given
it an assignment can be one step.

**BoundedQueue** is what PCQueue promises: `Enqueue` and `Dequeue` take effect at
one instant, a call that throws has no effect.  `PCQueue` implements it under the
mapping at its end: the buffer begins at the read index and has `Occupied`
values, a Produce takes effect when it advances the index, a Consume when it
does.  ThreadPool, FilterController and Link use their queues as atomic
`Append` and `Tail` with waiting, the steps this refinement justifies.

**ThreadPool** (`util/thread_pool.hh`): the requests that wait, what each worker
is busy with, which workers live, and how much of the destructor's poison has
been produced.  It has no `Next` of its own: the handler's effect belongs to the
module that instantiates it.

**FilterController** (`lm/filter/thread.hh`, `format.hh`, `arpa_io.hh`,
`filter_main.cc`) composes two ThreadPools over batches.  InputBuffer and
MultipleOutputBuffer are records and the functions on them.  A StringPiece is a
triple of the string it points to, the capacity of that string, and a length: a string
that is assigned a line that fits keeps the address of its text, and its capacity.  A
longer line frees the text, whose address the allocator may then give to any string:
`SameData` leaves both answers open for every line after that.  This is what makes `last_`
of a reused buffer equal to a new line at times.  The reader's `pc` follows AddNGram,
FlushInput, MoveRead, Flush and the destructor; a filter thread consumes a batch
(`FilterConsume`), filters it line by line (`FilterNext`; `filtered` is how far it has
got), then produces it to the output pool (`FilterDone`); the output thread places it in
`ordering_`, writes the front while there is one (`FlushFront`, one batch a
step) and returns.  The file is the sequence of what was written, the ends of
orders, which the reader writes itself, included.  A job says what the filter
decides about each of its lines (every system, some, or none), what is wanted, and
which line is the last of each order.

**NGramFilters** (`lm/filter/vocab`, `phrase`, `util/multi_intersection.hh`) computes
what a filter decides.  The phrase filter asks whether an n-gram occurs in some
concatenation of a sentence's phrases, for all sentences at once: vertices between
the words, arcs for the phrases, and on each arc the sentences that have it;
`VertexLowerBound` is the union over the arcs into a vertex and `ArcLowerBound` the
intersection with the vertex an arc comes from, both as lazy as the code's: a posting
is what is left of it, the heap of a vertex a set of arcs.

**Link** (`util/stream/chain.cc`): `queue[i]` is the queue between two positions,
`current[i]` the block a link holds, `state[i]` what its thread is about to do.
`Pass` and `Consume` are the halves of `operator++`; between them another thread
may already use the block.

**Chain** adds the owner, which adds positions while earlier ones run, joins
them, drains the lead queue and may start again over the same memory, and the
workers: `Read`, `PruneNGramStream`, `Write` and `Recycler`.  `memory[b]` keeps the
entries a block had before, as the real one keeps its bytes.  PruneNGramStream goes over
a block one entry a step (`FilterEntry`): `taken[i]` is how many it has read, `dest[i]`
how many it has kept, each moved to the place behind the last; at the end of the block
`FilterBlock` shrinks its size to `dest[i]` and passes it on.

**RewindableStream**: one action for each path through each function.  Addresses are
numbers in the one allocation `Chain::Start` divides, so the last address of a
block and the first of the next are the same number, as in the code.
`AppendConsume` is a separate step because it waits.  **ContextWriter** is the
client of `lm/interpolate/normalize.cc`, **StreamReader** an arbitrary client in
the middle of a chain as in `rewindable_stream_test.cc`.

**Stacks** (`decode/stacks.cc`, `coverage.hh`, `future.cc`, `hypothesis.hh`): a
set of bits of a Coverage is the set of offsets that are one, the width of the
word a constant; one action for
filling the vertices of a stack (the three loops of the constructor), one for
each edge the search completes, one for the end of a stack; then the last stack
with the end of sentence, of which the best is `end_`.  The search may complete
edges in any order here, so what holds does not depend on its heuristics; a
hypothesis carries its `history`, the chain of previous hypotheses.  The methods
of the objective are constants.  `start` is the field that LexicalizedReordering
adds to a hypothesis; nothing writes it for the root, so there it is any value of
`Unwritten`.

**Features** (`objective.cc`, `score_collector.cc`, `lexro`, `distortion`, `lm.cc`
and the features of a phrase alone) are those methods for the features
`decode_main.cc` adds: what a feature hands to its collector is a function from
its indices to values, which are weighted from the feature's offset on.

**EdgeGenerator** (`search/`): a node of the tree is the set of
hypotheses below it, what their states share, its policy and its niceness; a
partial vertex is a node and the hypotheses of the children that have not been
split off.  `Pop` has three outcomes, one action each: split an edge, give a
complete edge its hypothesis and put it back, deliver it.  The language model
may adjust the score of an edge by any of the numbers of its input whenever
words at the junction are newly shown, as `FastScore` decides; what it does to
the score is in Query.  **PairSearch** is what
the stacks rely on and what `Stacks!PopEdge` does: some pair that was not
delivered before, until the pop limit.

**NGram** has what the builder counts and sorts, and the orders it sorts by
(`lm/common`), and exact fractions, so that sums of probabilities can be compared
with one.

**ExternalSort** (`util/stream/sort.hh`) is functions on a record with the file, its
log `Offsets` and what a pass has written: `Spill`, `BeginPass`, `PassGroup`,
`EndPass`, `LazyNeed`.  Sizes are counted in word indices, so that a buffer holds
a different number of records of each order, as in the code.

**Counts** (CorpusCount and AdjustCounts) and **Probabilities** (InitialProbabilities
and Interpolate of `lm/builder/`) are the workers of `lmplz`, each with the variables its object
has and one action per record or context it handles: a word of the text, an
n-gram of the full order, a context in AddRight and in MergeRight, a step of
JointOrder.  **Estimate** (`pipeline.cc`) puts them in stages and gives the sorts
between them their memory.  The workers of a stage run at the same time over
chains; since each position's output depends only on its input, which is what
module Chain shows, Estimate lets one run after the other.  Blocks are visible
where a worker changes what is in them.

**Interpolate** (`lm/interpolate/`), its first pass (`merge_vocab.cc`,
`merge_probabilities.cc`): one action per word that comes from the heap of vocabulary
files, then one per n-gram HandleSuffix writes, with its calls as a stack of frames; the
orders the models backed off to are packed into bits as BoundedSequenceEncoding packs
them.  Its other passes (`normalize.cc`, `backoff_reunification.cc`, `pipeline.cc`): the
calls of ExtendContext are another stack; Enter is one action per round of its
loops, so that the two priority queues may break their ties either way;
SameContext charges, sums and normalises a context.  ContextWriter is the same
loop seen from below, as a client of the stream that lets it write first and
normalise later.

**HashedSearch** (`search_hashed.cc`, `read_arpa.cc`, `value_build.hh`): `table`
maps the words of an n-gram, last first, to probability, backoff, rest cost and
two marks, which the code keeps in the signs of zeros.  One action reads an
n-gram and makes the blanks it needs.  **TrieSearch** (`search_trie.cc`,
`trie_sort.cc`): the sorted files, the visit of all n-grams that finds the blanks,
the messages that tell blanks whether something extends them, and the second
visit that writes arrays; `TrieTable` at its end is what a lookup through these
arrays finds.  **Query** has the queries over either table (`model.cc`) and
fragments of a sentence (`left.hh`, `partial.hh`) as functions, and on top of them a program
that loads a model and puts fragments together: rules of words and of rules, as
`search/rule.cc` scores them, and edges whose fragments are shown to each other
a little at a time, as `FastScore` does.  Logarithms are integers there.

**PackedTrie** (`lm/trie`, `vocab`, `quantize`, `bhiksha`, `util/bit_packing`,
`sorted_uniform`) is the memory of a model as functions on a record: the set of the
addresses of its bits that are one, and the tables of the quantiser, whose entries are
fractions.  `Layout` says where the arrays lie and how wide their fields are; entries
are written at a bit, pointers perhaps without their highest bits, and found by
interpolation search.  The widths of a float and of an offset are constants, so that
small models have fields that straddle bytes and offsets that pay.  **ModelFile**
(`model.cc`, `read_arpa`, `binary_format.cc`) builds a file from a text: one action for
each kind of line ReadARPACounts, Read1Gram, ReadNGram and ReadEnd tell apart, the
actions of TrieSearch with what they pack into the memory, and one action for each
write of FinishFile.  A builder may be killed between any two of them (`Kill`), what was
not synchronised may be lost (`Lose`), and a copy may be cut (`Cut`).  `Open` is what
RecognizeBinary, MatchCheck, LoadBinary and ReadWords accept of what is left.

**FilePiece** (`util/file_piece.cc`, `read_compressed.cc`) is functions on records: a
window with a place in it, where it lies in the file, and the reader behind it once
the file is not mapped.  A file is a sequence of cells, words, spaces, returns and newlines;
a compressed part lies between the cells `Packed` and `Unpacked`, and `Used` says
how far the decompression library goes with so much input and so much room.
`skip` is the variable of ReadLine that says how much of the line has been searched.
A mapping may fail at any shift, a read may return any part of what it is asked for; behind a
compressed part the reader throws for anything else.
**PhraseTable** (`pt/`, `util/probing_hash_table.hh`): its hash tables are functions on
a record with the buckets: linear probing around the end, and the doubling in place,
which keeps the entries before the first gap aside and moves all others one after the
other.  `CreateTable` reads the rows of a text line by line through a
FilePiece (`Open`; `ShiftPiece` while the window has no end of a line), numbers
their words, notes where the bundle of each source phrase begins, writes bundles
as it goes and everything else in `Write`.  What goes to the file is first put in
`writes`, each one call of WriteOrThrow; the program may die within any of them
(`Die`), or throw at a row and write the bundle it has on the way out (`BadRow`).
`OpenTable` is what a reader accepts of what is then on disk.  Cells of the file are
numbers, words or hash table entries; offsets count cells, as the code counts bytes.
**Sentences** (`decode/`): `LoadVocab` numbers the table's words again, and for one
sentence after the other a chart numbers its unknown words and looks up each span,
one step each, short ones through the cache.  A key of an earlier chart may
compare with anything in its bucket and give any answer, as its sentence is gone.

## 3. Runs

Each run is `tlc -config <cfg> <module>`; all finish within three minutes.
Deadlock is checked where `CHECK_DEADLOCK` is not switched off; a model that is
meant to end has a `Finished` action that stutters, so a deadlock is a thread
that waits and should not.

| Run | Module, configuration | States | Asks |
|---|---|---|---|
| `pcqueue` | PCQueue | 65028 | Is PCQueue a bounded FIFO whatever throws, and is a waiting consumer served? |
| `stacks` | MCStacks | 39072 | Are coverage, limits, scores and the result of decoding right? |
| `edge_generator` | MCEdgeGenerator | 342677 | Does the search deliver every pair once, and best first? |
| `filter` | MCFilterController | 35788 | Does every system get the lines its sentence calls for, in order, whatever the threads do, and does the filter end? |
| `chain` | MCChain | 1955 | Do blocks, poison and restarts of a chain work together? |
| `streams` | MCStreams | 6354 | Does a client that goes back read and send every record in order, and do contexts that just fit the blocks leave normalised? |
| `estimate` | MCEstimate | 204715 | Does lmplz compute a Kneser-Ney model that sums to one, whatever the blocks, the memory and the pruning? |
| `query` | MCQuery | 953566 | Does a fragment cost what the file says, however it is put together? |
| `phrases` | MCSentences | 97328 | Is what a decoder finds for a span what the text of the phrase table says, whatever was written, hashed and cached? |
| `interpolate` | MCInterpolate | 8149 | Does the interpolated model say what the models and their weights say together? |
| `model_file` | MCModelFile | 28400 | Does a file that was built answer as its text says, and does only a whole one open? |
| `stacks_kept` | MCStacks, MCStacksKept | - | violation, see section 5 |

**pcqueue.**  Two producers, two consumers, two values, two slots.  Two threads
on a side are the fewest that contend for a mutex and that overtake each other
between posting and unlocking; two slots the fewest that make the indices wrap
while one slot is held on either side.  `TokensConserved`: no path posts the wrong semaphore,
twice or not at all.  `NoSlotRace`: the assignments of both sides never meet.
`IsFifo`: implements BoundedQueue.  `WaitingConsumerServed`: no wake-up is lost.
The fairness is weak for a thread inside a call - the code has no way to stop
there - and strong for the assignment of a consumer: an assignment may throw
again and again, but not every time for ever.  Nothing makes a thread call.

**stacks.**  Four words, phrases of up to two, a reordering limit of two and a
word of three bits, so that the window is as narrow as the assumptions allow;
one or two translations of the first word, a passthrough for the third, and a
phrase for the middle two or none: four charts.  The pop limit of eight cuts off
some searches and leaves others whole, so `NoDeadEnd` and `ExhaustiveIsOptimal`
both say something.  The objective has all seven features of the decoder, with
two scores in the phrase table and six weights of lexicalised reordering, all
different enough that a weight at a wrong place changes a result; three of the
phrases leave the language model in the same state, and two of them say the same
of what follows, so recombination has something to compare and something to
join.  `ExhaustiveIsOptimal`, where nothing was cut off, compares the result with a
search over all derivations by a definition of a score that goes phrase by phrase and
does not use the objective.  The memory of the root's `start` holds 2, the end of a
phrase, or 9: with 2 the first phrase is taken for a swap (`decode/lexro.cc:40`).
`ScoreCoversHistory` is what holds of scores in spite of the disagreement of
section 5.  The constructor runs once and ends, so the run does not check
deadlock.

**edge_generator.**  Up to two antecedents and three phrases, whose states agree
in their first words, differ only in being full, are equal, or are empty: the
cases `Split` and `FinishedAppending` tell apart; and two edges that compete.
540 inputs.  `EachPairOnce`: queue and output partition the pairs.
`ShownIsShared`: what a node shows the language model is true below it.
`BestFirst`, where the language model adds nothing and the features of a pair
no more than nothing: the order is best first.  `DeliversPairs`: implements PairSearch.  A search ends when its queue is
empty, so the run does not check deadlock.

**filter.**  Two filter threads and four batches of two lines, the number the
program allocates for two threads; an ARPA file with orders of 13 and 4 lines,
of which each batch is used at least twice, filtered by vocabulary, and ten count
files of one section, filtered by phrases, with all n-grams of up to three of three
words and one of four.  There are three sentences, with phrases that overlap,
repeat and are parts of each other.
The numbers of lines keep clear of the disagreements of section 5: the first
order ends in a partial batch; the second ends in a full one, so that Flush finds
the open batch empty and skips a number, which is harmless in the last order; the
count files end in full batches.  `MCJobsKeepClear` asserts what the theorems of section 4
assume of a job: `NoneDropped` and `NoneMistaken`.
`OneOwner`: the buffers of a batch have one owner.
`OutputInOrder`: the file has the lines each system's sentence
calls for, in the order of the input, and all of them at the end; what a sentence calls for is said without the
filter, by putting its phrases together in every way.
The reader writes the end of an order itself, and a reader that does so while a
batch is still out breaks it.  `AnnotationsAreOfTheirLine`.  `Terminates`: every batch
comes home and both pools are joined.  All actions are weakly fair: the threads
run until they return.

**chain.**  A reader, two workers that drop entries, a writer and the recycler,
three blocks of two entries, and two runs over the same memory: seven entries,
which end in a partial block, then four, which end in a full one.  One block
loses all its entries.  Three blocks among five positions leave some waiting for
a block and some for room.  `NoBlockShared`; `WritesTheFile`: what is
written is what the workers keep of the file, in order, whole at the end, nothing
of an earlier use of a block; `Terminates` under weak fairness of the owner
and of every position's thread.

**streams.**  Either client of a rewindable stream, chosen at the start; the variables of
the other rest.  The ContextWriter has four contexts, each of any number of words up to three,
through two blocks of three records: the tightest the assumption of `Pipeline()`
allows, so a context may lie across the blocks at every offset.  `SentIsNormalized`;
`Terminates`, of both clients (which includes that the stream does not abort for
want of a block, nor the assertions of `Poison` fail).  The StreamReader has five blocks;
full and partial ones, between which the client
goes back twice at any point up to three records from its mark, or empty ones, over
which it steps.  From the end it goes back once more, as in `rewindable_stream_test.cc`, and is
destroyed somewhere in its last block: `Poison` asserts that the stream is not at its
end (`Returns`, see section 5).  `ReadsInOrder`, to the end;
`SentInOrder`.  Three records behind a mark are the furthest the header names for
blocks of two; with five blocks they never need more than there are.  The client is fair
in reading on, in ending the stream, in marking where it must, and in going back from
the end; it need not go back before.

**estimate.**  Every text of a line of up to three words and one of up to one
over two words - equal lines, empty lines, repeated words - and four longer texts
with three words and a `<s>` in the middle; orders 1 to 3, with and without
interpolation, every kind of pruning by count (none, of the longest, of all) and
by vocabulary; four sizes of blocks, sort buffer, sort memory and lazy memory,
from the tightest that Sort accepts, so that there are several passes, single
blocks and lazy merges.
`CountsAreExact`: after spilling, passes and a lazy merge AdjustCounts reads every
n-gram once, in order, with its count.  `AdjustedIsKneserNey`: what it writes is
the definition by sets of preceding words, with the marks that pruning asks for.
`NeverAborts`: no merge is left without room, every n-gram finds its suffix,
every backoff its context.  `SumsToOne`, the reason for the whole: after every
history of the model the words add up to one, exactly, with backoffs as a reader
applies them.  `KeptIsClosed`: what survives pruning has its context and its
suffix, which the two loaders below rely on.  The discounts of an order whose
statistics do not allow them are the fallbacks, as lmplz's option.
A text has at least one line; the one configuration that is left out is a
threshold for unigrams that reaches the number of lines, which makes `</s>` a
pruned word: the code prunes it in a model of order 2 or more, and then
nothing adds up.

**interpolate.**  Two models of order 3, each estimated from any of the seven sets
of three sentences over two words, the second with and without a pruning of its
trigrams, with weights 2 and 1.  Vocabularies and n-grams then overlap in every
way: words and contexts one of them lacks, contexts that nothing extends, n-grams
known to both, to one, or to none.  `InterpolatesTheModels` reads the result as any
program reads a backoff model and compares it, exactly, with its definition: the
product of what the models say, to the power of their weights, over the sum of
these products, after every two words.  Backoffs that a model does not charge, a
backoff that is skipped twice or belongs to another context all change it.
Probabilities are fractions instead of logarithms; rounding, and the threads of
the passes, which wait for each other only through chains, are left out.  That a
backoff is reset when its context is left is not needed for the result: what a
model that lacks a context charges for it is the same for all words.

**query.**  Files with every one or two n-grams of middle length left out, from
five small texts, of orders 3 and 4; hash tables, hash tables with maximum rest
costs, tries that sort two n-grams at a time.  Words are said one by one,
fragments are closed into the one around them, or held and shown later.
`ScoresAgree`: the score of a fragment, with the pointers of its left side
replaced by what they stand for, is the sum of what the file says.  `StatesAgree`:
what a fragment lets others see is what it would be had it been scored word by
word; from this it follows that deeper nesting than the two levels of the run
brings nothing new.  `StateSuffices`: for every history, the state holds all
that matters, FullScore and FullScoreForgotState agree, and the state that
remains is the one GetState computes.  `RestIsMax`, for rest costs: as config.hh
promises.  Four words make every n-gram of the model fall across a junction at
every place.  An n-gram that is no context has a backoff of zero, as lmplz writes
it and the marks assume; the weights of the run keep to it.  A load may throw,
where the file lacks a context, and an edge that is done has nothing to do, so
the run does not check deadlock.

**phrases.**  Five files, each opened in a way of its own: a table of ten source
phrases, two of them with two rows, one longer than what is cached, over nine words,
so that both hash tables double, the offsets when the eighth of their buckets is asked
for; and smaller ones, without features, with a row that has a feature too few, or
with a line that is no row.  The first is mapped from an offset within a page and has no
newline at its end; others come through a pipe, with returns before the newlines, or
compressed, in one part or in two behind each other.  A page of three cells, windows of two
pages that double, reads of one cell, of four or of all that is asked for: lines
are longer than a window, end at its last cell, or lie across two; the mapping may fail at
the first shift or at a later one.
Sixteen hash functions onto 32 places put keys on one place, next to
each other and around the end.  Every write may stop at any cell.  Two sentences of
up to four words: known, unknown, the same unknown word twice, another one with the
same number, `<unk>` itself, and none.  `EveryKeyFound`, after every insertion and
doubling; `OpenedIsTheText`: however the text was read and wherever the writer stopped,
what opens has all rows of the text under their phrases, so no line was lost, cut,
joined or read twice; `PhrasesOfTheirSpan`: each span has the target phrases of its
words, or, alone and unknown, the word itself.  Every phrase has a bucket of its own in
the cache, see section 5.  A phrase of 64 or more target words does not fit the length
of a row (`VectorLimit`); rows of a source phrase are next to each other, as the tool
asks; compressed parts are whole.  Where text that is not compressed follows one, the reader
throws and the tables end unwritten.  ReadLine keeps how much of a line it has searched over each
shift (`skip`); a mapping that fails where the read gets less than that is left out
(`MayGoAstray`), see section 5.

**model_file.**  Four models, of orders 2 to 4, one without `<unk>`, with n-grams that lack
their context, so that there are blanks; five ways to pack them: plain, with offset arrays of
two depths, quantised, and both; mapped or written afterwards, with and without names.
Floats have six bits and an offset costs two, so that chopping pays already for ten
n-grams; words are put in an order other than that of their hashes.  Another thirty
texts are damaged in one line each, or spaced differently.  `AnswersAsBuilt`: an opened
model finds every n-gram of the text, with its probability and backoff, exact or by the
nearest bin, knows whether it extends, and finds nothing else.  `OnlyGoodFilesOpen`:
no builder takes a bad text or refuses a good one, only a file whose builder came to its end
opens, and only as the type it has; whoever wants the names gets all of them.
The header is written in one step, counts in texts are positive, and a line of n-grams
has the right number of words.  A cut within the last word is left out, see
section 5.  A build ends or throws, so the run does not check deadlock.

Only model-checked are the liveness properties and what depends on recursive data
(`ExhaustiveIsOptimal` and everything about estimation, queries, tables and files).

## 4. Proofs

Seven modules, and **CommonFacts** with what several of them rest on (division and
turns, parts and joins of sequences, sums of functions over finite sets), proved by
tlapm with its SMT solver, Zenon and LS4.

**PCQueueProofs** - for any finite, disjoint sets of producers and consumers, any
values and any size from one on:

| Theorem | States |
|---|---|
| `TypeCorrect` | `TypeOK`: the semaphores, indices, locks and slots keep their types |
| `NoSlotLost` | `TokensConserved` |
| `NoRace` | `NoSlotRace` |
| `QueueIsFifo` | `Spec => IsFifo`: PCQueue implements BoundedQueue |

The four hold only together.  The inductive invariant `IInv` joins to the types
that each mutex is held by the one thread in the critical section
(`LocksExclude`), that the tokens add up (`TokensConserved`), that the write
index is as far ahead of the read index as there are occupied slots
(`IndicesAgree`), and that occupied slots hold values, with what threads in the
middle of a call have copied (`ContentsIntact`).  `MoveCount` says how moving
one thread changes a count of threads; `ProducerCounts` and `ConsumerCounts`
apply it to the counts of the invariant, so that each action's step is
arithmetic.  `NoRace` then follows by counting: a producer that assigns and a
consumer that assigns take one slot each out of `Size`, and the distance between
the indices is neither 0 nor `Size`.  For the refinement, `FifoStep` goes through
the actions: `AdvanceProduce` is `Enqueue`, `AdvanceConsume` is `Dequeue`,
`UnwindProduce` is `Withdraw`, and the others leave buffer, offers and takings
alone, for which the slots that are written must not be occupied ones
(`WriteSlotFree`).

**FilterProofs** - for any threads, batches, batch size and input:

| Theorem | States |
|---|---|
| `BatchesHaveOneOwner` | `OneOwner` |
| `OutputIsInOrder` | `OutputInOrder`, for the inputs described below |
| `AnnotationsFitTheirLine` | `AnnotationsAreOfTheirLine`, for the same inputs |

The counts of a batch in the six places add up to one in `Owned`; a move takes
one from one count and adds it to another (`CountAppend`, `CountTail`,
`CountPush`, `HoldingExcept`).  The step that needs more is the one of the output
worker: `ordering_[pos] = request` loses the batch whose place it takes.  So the
invariant has `Numbered`: batches on their way have different sequence numbers, at
least `base_sequence_`, below those of an open batch, and the batch in a place of
the line has the number of the place.  A taken place would then belong to a batch
with the same number, which is the same batch, and it would be in two places.
That the top batch of the reader has the last number while it is open
(`Reading`, `Open`) is what keeps numbers different when it is given away.

The other two theorems assume of every input what section 5 says has to be assumed:
the filters decide as they are meant to (`VerdictsMeant`, which the run checks for the
filters of NGramFilters); a file without sections ends where a batch does (`NoneDropped`);
and the first line for single systems of a batch never has the length of the last such
line of an older batch, wherever the two lie (`NoneMistaken`, for `last_`, whose address any
string may have got by then).  They do not
assume that an order does not end in a full batch: Controller then never ends, but what
it has written is right.

Their invariant, `OInv`, says what the batches hold.  `Reads`: the reader's batch has
the lines since the last one it gave away, and begins where one may (`Cut`).
`Contained`: a batch on its way has the lines of one order behind the place where it
begins, as many as fit (`Filled`), and batches have their lines in the order of their
numbers.  `Written(n)`: there is a line n such that the file is what one thread writes
of the first n lines (`Filed`), and the lines behind it, up to those that were given
away, are in the batches on their way, none of them twice (`Spread`).  FlushFront then
takes the batch with the number `base_sequence_`, which is the lowest, so that its lines
are those behind n (`FrontIsNext`), and EndLength writes when every batch is home, so that n is the
last line of the order.  `Buffers`: of the k lines of a batch that are filtered, those
some system wants have a record, in their order (`Annotated`), and `last_` points at the
last of them for single systems, or is left from an older batch, where it did
(`Remembers`); so a line is never taken for another (`NotMistaken`), and a batch that is
written has a record for each of its lines that is wanted.  For the end, `FilterPool` and
`OutputPool` say that the poison comes behind every batch and that a pool without threads
has nothing left, and `Gapless` that no number was skipped in a file without sections: when
both pools are joined, no batch is on its way (`DoneHome`), so n is the last line of all.

**ChainProofs** - for any number of positions from three on, any number of blocks, any
block size, files and filters:

| Theorem | States |
|---|---|
| `BlocksAreNotShared` | `NoBlockShared` |
| `FileIsWritten` | `WritesTheFile` |

For the first, `IInv` goes by places rather than by counts: memory in one place of a
queue is in no other (`QueuedOnce`), nor with a link (`QueuedOrHeld`), and no two
links hold the same (`HeldOnce`).  `ConsumeInvariant` moves a block from a queue to
a link and `ProduceInvariant` covers all that put one behind a queue: passing a
block as the worker leaves it, passing the poison on, and Poison, which drops the
memory.  Starting again puts all blocks into the lead queue, which is sound because
every link has ended by then (`Joined`).

For the second, `FInv` adds what the places hold.  The blocks of a run are numbered
in the order Read passes them on: `c[i]` is how many position i has passed on, the
poison included, and `b[n]` the number of entries in the first n blocks.  Neither is a
variable of the program; the invariant says that there are such numbers.
Position i has between it and the next the blocks from c[i + 1] to c[i] (`Lengths`), and
the one in place k of that queue holds the entries of its number that got past i, each
once and in order, or is the poison and the last (`Carried`).  A block within a filter
is `Halfway`: the entries kept and those not read yet, in order, are still all that
can get past the filter.  `Ends` says that the poison never overtakes a block: a position
ends only when the one before it and Read have, so what has ended has passed on as many
as Read (`Passed`).  `Wrote` says of the output what `WritesTheFile` does, up to block
c[Writer].  `FInv` needs `IInv`: that a filter and Read change the memory of one
block and no other's is `NoBlockShared`, and `IInv` alone does not know what a block
holds.  `EntryKept` and `EntryDropped` are the step of a filter within a block,
`ProduceCarries` and `TakeCarries` the two halves of passing one on, and each action of a
worker has a lemma (`ReadBlockFlow` to `RecycleBlockFlow`).

**StacksProofs** - for any sentence length, charts with a phrase for every
word, scores, comparisons of features, language model, reordering limit and pop limit,
as long as the
longest phrase and the limit are each less than the window:

| Theorem | States |
|---|---|
| `CoverageIsExact` | `CoverageExact` |
| `ReorderingIsBounded` | `ReorderingBounded` |
| `CallsAreInBounds` | `CallsInBounds` |
| `DecodingNeverFails` | `NoDeadEnd` |
| `ScoresCoverTheirHistory` | `ScoreCoversHistory` |

`Sound(h, w)` is what holds of a hypothesis in stack w and `Extendable(v, w)` of
an antecedent whose search fills stack w; `IInv` says that every stack is sound,
that every stack before `words` has a hypothesis, and that a running search has an
edge.  `SetFacts` says that `Set` on a well-formed coverage covers exactly the
phrase in addition, keeps it well-formed and stays within the window, given the bounds
of `InWindow`; `CompatibleFacts`, that `Compatible` is disjointness.  `ExtendSound`
is the heart: extending by a phrase that fits covers its
words in addition and keeps the reordering limit, because a first zero only
moves forward.  That no stack is empty follows from monotone decoding: the first
zero of a hypothesis of the stack before can always be covered with a single
word, which no limit forbids, and the search pops at least once.

`ScoresCoverTheirHistory` has a hypothesis, `ObjectiveFits`: there are finitely many
target phrases, the scores the search asks for are numbers, and no feature reads the
coverage or the score of a hypothesis (`FeaturesReadNoScore`; those of Features do
not, and the tables of MCStacks are indexed by what they read).  MCStacks asserts
`ScoresAreNumbers` for its objective, so TLC evaluates that part.  `ScoreInv` joins to
`IInv` that the entries of `future` are those of `FutureOf`, that stack 0 holds the
root and nothing else, that an antecedent is worth what `Antecedent` says of its
previous hypothesis, and of every hypothesis (`Valued`) the property itself and
that what the objective may see of it is what its history alone says.  The core is
`ChangeTelescopes`: `LeftOpen` and `RightOpen` find the bounds of the gap
a phrase lies in (`GapFacts`, where the width of the window, the end of the sentence
and the first zero are cases), covering the phrase leaves of that gap the two parts
beside it, either of which may be empty (`GapsSplit`), and so the sum over the gaps
changes by `Change`.  Two recursions had to be unfolded for it by hand, each from a
counterexample of least size: the fold of the community module adds up a function
over a finite set (`SumIsAdditive`), and `FutureOf` has a solution whose entries are
numbers (`FutureEquation`, `FuturesFit`).  Equality instead of "not below" is false:
`KeptHasItsScore`, section 5.

**EdgeProofs** - for any antecedents and phrases, states of any shape, any score of
the features and any adjustments of the language model:

| Theorem | States |
|---|---|
| `SplitPartitions` | `EachPairOnce` |
| `NodesShowTheShared` | `ShownIsShared` |
| `BestComesFirst` | `BestFirst` |
| `SearchDeliversPairs` | `DeliversPairs`: EdgeGenerator implements PairSearch |

`IInv` says that the edges of the queue are made of vertices of the input
(`QueueOK`), and that every pair is in exactly one edge or delivered
(`Partitioned`).  `SplitFacts` is the heart: the vertex a split leaves and the one it
makes have the hypotheses of the old one between them, none in both, and both are
not empty, whichever way the policy of the node divides it; `SplitEdge` carries this to
edges, of which a split takes one and adds two; `ReplaceEdge` and `DeliverEdge` are the
other outcomes of `Pop`.  For `ShownIsShared`, `NodeShows` says that what a node shows
is a common part of all states below it, which a split preserves since the states below
a child are among those below its parent.  For `BestFirst`, `NoneAbove`: the bound of a
vertex is at least what any of its hypotheses has, so the best edge, when it is
complete, is as good as every pair in the queue; this needs that nothing is added once
a pair is complete, neither by the language model nor by the features
(`NothingAdded`).  The step of `DeliversPairs` follows from `Partitioned`: what is
delivered was in the queue, so it was not delivered before.

**StreamProofs** - for any number of blocks from two on, any size of a block, any
number of contexts and of words after each, as long as one record of every word fits
into all blocks but one:

| Theorem | States |
|---|---|
| `WriterSendsNormalized` | `SentIsNormalized` |
| `WriterNeverAborts` | the stream of `normalize.cc` never asks for a block while it holds them all |

The blocks go round in the order of the memory: the k-th block that is filled lies in
part `Wrap(k)` of it, and the j-th record of that block at `Cell(k, j)`.
`CellApart` says that no two records of as many blocks as there are share an address.
With s blocks back and f of them let go by the stream, `Ring` places every
block: with the sink, on the way to it, with the stream, or free; `Stored` says what
each address between holds, a number, or its negative as long as it is not normalised.
`At`, `Waits` and `Marked` say where the cursor and the mark are in these numbers.
After Finish, `Closed` says the same of what is on its way, of which the last block has
the rest.  Two facts carry the proof.  `BlockLeft`: since the mark is in the first block the
stream holds and a context has no more than (blocks - 1) times the size of a block
records, there is a free block whenever the stream needs one.  `LeavesNormal`: what is
before the mark is normalised, so a block the stream lets go holds nothing else.
Each action is a lemma (`WriteRecordStep` to `SinkWriteStep`).

**ReaderProofs** - for any number of blocks from two on, any size of a block, any
distance from the mark, and any cuts of a file into blocks that upstream may make, as
long as `UsesFit` holds of them:

| Theorem | States |
|---|---|
| `ReadsInOrderHolds` | `ReadsInOrder` |
| `SentInOrderHolds` | `SentInOrder` |

`UsesFit` says what section 5 says has to be assumed: the last block of upstream is not empty, and there are
no empty blocks but where the client goes back only from the end, and no further than the last block
is long (`Near` and `OverNoEmpty` show that it then has no other block in hand).  MCStreams asserts it of the uses the run has
(`MCUsesFit`); with either part dropped TLC finds one of the properties violated.  The
blocks go round as in StreamProofs, but they may be partial, so that the number of a
record is a sum: `Before(w, k)` is what the first k blocks of the sizes w have, and
`BeforeFacts` and `BeforeGrows` are all that is needed of it.  With s blocks back, f sent on
by the stream and e records to be sent in all, `Ring` places every block:
with upstream or free (`Upstream`), on the way to the stream (`Between`), with it
(`Holds`), and behind it (`Downstream`), where the last block is cut off once the stream is
destroyed (`Left`).  `Stored` says that each record of a block that has not come round is
in its place.  Where the client is, `Within` a block or `Behind` all the stream has, is a
number too.  Two facts carry the proof: a block that upstream fills shares no address with
those that have not come round (`CellApart`), and the cursor behind the last block is
never at the address of the mark while the stream holds fewer blocks than there are
(`EndApart`), so that Rewind, which tells the end by comparing these two addresses,
always leaves it.  A client for which an assertion of `Poison` fails stays where it is
(`PoisonAbortStep`).  That it holds fewer is the check AppendBlock makes before it
notes the end (`AppendBlockKeeps`).  Whether the client goes further from its mark than the blocks
allow is no matter here: then the stream aborts, which is for `Terminates` to exclude.

The assumptions are those of the modules: `ReaderFits`, `SizeAssumption`,
`ThreadsAssumption`, `ValuesAssumption`, `WindowAssumption`,
`SentenceAssumption`, `WindowSuffices`, `ChartsAssumption`,
`ControllerAssumption`, `LinkAssumption`, `ChainAssumption`, `InputsAssumption` and
`WriterFits`.  `ChartsAssumption` is what
`LoadPhrases` provides by its passthrough; `WindowSuffices` is weaker than what a
comment of coverage.hh asks, see below; `InputsAssumption` types the inputs of the
search; `WriterFits` is how `Pipeline()` sizes the blocks; `ChainAssumption` asks for Read,
Write and the Recycler.

Out of reach of the prover: liveness under fairness, ENABLED, and what a
recursive definition computes for every input.

## 5. Disagreements with the code

Found by a run:

- `stacks_kept`: `decode/stacks.cc:180-186` keeps the *worse* of two recombined
  hypotheses with the score of the better one: the loop that should replace the
  pointer assigns to a copy of it.  The translation that is output is then not
  the one that was scored.

Met while modelling, without a run of their own:

- `BackoffMessages::Apply` (`lm/search_trie.cc:106`) stops at the last record of a
  length, so a message to a context that sorts behind all records, a blank that is
  the context of a blank, is dropped, although the code means to write it down
  ("Message but nobody to receive it", line 112).  The blank is then not known to
  extend, and a fragment costs something else in one piece than in two.  It needs a
  trie of order 4 or more whose file lacks n-grams: with
  `Models <- MCTrieModels` and `MaxWords = 4` TLC finds `ScoresAgree` of Query violated.
- Models of different orders cannot be interpolated.  BackoffManager reads the
  n-grams of each model without those of its highest order (`pipeline.cc:116`), and
  so writes no backoff for an n-gram that only the highest order of a shorter model
  has; the last pass finds more probabilities than backoffs and throws "Streams
  were not the same size during merging" (`backoff_reunification.cc:32`).  All passes
  before it provide for models of different orders.  With `Orders <- MCOtherOrders`
  TLC finds `InterpolatesTheModels` violated.
- `Controller::Flush` (`lm/filter/thread.hh:126-132`) opens a new batch even if the
  old one is empty and was not sent, which skips a sequence number; the output thread
  waits for it for ever.  It happens whenever the batch size divides the number of
  n-grams of an order that is not the last one, or an order has none: with
  `Jobs <- MCFullBatch` TLC finds `Terminates` violated.
- Nobody flushes the last, partial batch of a count file
  (`lm/filter/format.hh:121-131`), so with threads its lines are lost: with
  `Jobs <- MCPartialRaw` TLC finds `OutputInOrder` violated.
- `RewindableStream::operator++` (`rewindable_stream.cc:44-53`) does not skip the
  empty blocks `AppendBlock` kept, so after a Rewind it walks into one: with
  `Uses <- MCEmptyBlocks` in the run `streams` TLC finds `ReadsInOrder` violated.
  The model goes on to read what is there; a build with assertions ends at line 53.  If the
  last block of all is empty, which the loop of `AppendBlock` allows for, there is no other way
  into the last block, where `Poison` asserts the stream to be: with `<<2, 2, 2, 2, 2, 0>>` as
  the fills TLC finds the same.  `UsesFit` excludes both.
- A client that has a mark and reads to its end holds its blocks and is poisoned.  If it is
  then destroyed `assert(*this)` of `RewindableStream::Poison` fails (`rewindable_stream.cc:80`):
  with `Returns = FALSE` TLC finds the `StreamReader` in a deadlock, aborted.  A build with
  `NDEBUG`, as the default build type `Release` of `CMakeLists.txt` makes it, sends the blocks and
  the poison.  A stream that was never marked fares no better at its end (see `Marks` below), so
  the client of the run goes back first.
- The error text of `StatCollector` (`lm/builder/adjust_counts.cc:49-52`) speaks of
  n-grams with an *adjusted* count, and so do the comments; for the n-grams that
  are left at the end of the stream `adjust_counts.cc:338` adds the actual
  count.  `StatsAreOfAdjusted` of Estimate says what was meant, and TLC
  finds it violated.
- An ARPA file without `<unk>`: the loop of `ApplyBuild` that sets rest costs
  of words (`lm/search_hashed.cc:267`) goes to the number of n-grams, which is one
  less than the number of words then; the last word keeps a rest cost of 0.
  `RestIsMax` says so of that word and of `<unk>`, and of no other (`LeftAtZero`).

- `MultipleOutputBuffer::last_` (`lm/filter/format.hh:212`) is not reset by `Flush`.
  A line of a later batch at the same address and of the same length is taken for
  the line of the last record; the address may be that of the same string, or of any
  that got the text another one freed.  Its system goes to the record before it,
  or to `back()` of an empty vector.  The theorems assume that there is no line of that length
  (`NoneMistaken`), and the run `filter` has lines of different lengths where it matters; with equal lengths in `MCLength`, which the assumption
  `MCJobsKeepClear` refuses, TLC finds `AnnotationsAreOfTheirLine` violated.
- A `RewindableStream` that was never marked and reads to its end drops its
  blocks, and its destructor then passes no poison on
  (`rewindable_stream.cc:79`): with `Marks = FALSE` TLC finds
  `StreamReader` in a deadlock.
- The header says one can rewind `2 * block_size - 1` (`rewindable_stream.hh:78`);
  with two blocks, the fewest Init accepts, TLC finds that the stream runs out of
  them earlier, and it aborts (`rewindable_stream.cc:99`) rather than throw; or, where
  one of them is empty, waits for ever for the block it holds.
- `coverage.hh:16` says more than 64 bits are needed if phrase length and
  distortion *together* exceed 64; `CallsAreInBounds` shows that each of them
  below 64 is enough.
- Forward reordering reads `phrase_start_` of the root hypothesis, which nothing
  writes (`decode/lexro.cc:40`): where the memory happens to hold the end of the
  first phrase, that phrase is scored as a swap instead of as it would be after
  any other value.
- The phrase cache's keys refer to the sentence of the chart that made them
  (`decode/chart.hh:46`, `source_phrase.hh:38`), which the cache outlives.  When
  phrases of two sentences share a bucket of the map (`SameBucket <- MCOneBucket`)
  TLC finds `PhrasesOfTheirSpan` violated: a span gets the target phrases of another.
- `FileFormat` writes the valid size header before the regions (`pt/format.cc:66`)
  and no reader compares `total` with the file.  A writer that dies while it writes
  the vocabulary, the last region and the one that is not mapped, leaves a file that
  opens and lacks words (stage "cut" of Sentences), although "an invalid size header"
  is to "indicate the file is incomplete" (`pt/format.cc:21`).
- `FilePiece::peek` (`util/file_piece.hh:84`) shifts when the window is used up and
  throws EndOfFileException when that shift has mapped the last window, although there
  are characters in it.  Reading lines is not affected.
- `FilePiece::ReadLine` (`util/file_piece.cc:77-97`) keeps `skip`, what it has searched
  of a line, over Shift.  If the mapping fails there and the first read gets less than
  that, the search begins behind the end of the window: what follows is undefined.  It needs
  a file that was mapped before and an `mmap` that fails in the middle of a line:
  with `MayGoAstray = TRUE` TLC finds `OpenedIsTheText` violated.  A mapping that fails there and
  a read that gets at least as much is in the run.
- A compressed file that is cut off makes `StreamCompressed::Read` go round for ever
  with bzip2 (`util/read_compressed.cc:120`), whose library reports no error when it
  has no input; what was compressed with gzip throws.
- A `VectorSize` is 8 bits and counts bytes (`pt/types.hh:9`): a target phrase of 64
  words or more wraps around.  `VectorLimit` leaves such rows out.

- A cut within the last name of a binary file is not noticed (`lm/vocab.cc:47`), though
  the message of the check speaks of "a truncated binary file": `CutWord` leaves it out.
- `FinishFile` of a mapped file synchronises the search and the header, not the names
  (`lm/binary_format.cc:259`), and a file that is written afterwards gets its header
  without a further `fsync` (line 278).  The first is why `Lose` may lose names,
  which is noticed only by who reads them; the second is harmless, for a file without its
  header does not open.
- The header of a mapped file is copied into memory that the system may write back at
  any time, the magic before the counts (`lm/binary_format.cc:66`): the model writes it at once.
- `-b 1` leaves no bin for a backoff that is not zero, and Encode then answers with
  the number of a bin behind the table (`lm/quantize.hh:119`).
- `ParseBitCount` (`lm/build_binary_main.cc:79`) makes its exception but does not throw it.

## 6. What is not modelled

- *Data and arithmetic.*  Numbers in text, hash functions,
  tuning of weights: functions of their input.  Where a
  model needs what they answer it is a constant, so what is shown holds whatever
  they say.  Floating point: probabilities are fractions in Estimate and integers, as
  logarithms, in Query, so rounding is out of the model; so are collisions of
  64-bit hashes, and n-grams that appear twice in a file.
- *Of the language model*: rest costs from lower-order models, the binary file of the
  hash tables and their vocabulary, the choice of a class by the type of a file, and what the sorted trie writes
  its files with: RecordReader::Overwrite writes where it has just read.
- *Of the builder*: the vocabulary file and the renumbering of words; `--vocab_pad`, which can
  make the share of `<unk>` smaller than that of one word of the vocabulary (`pipeline.cc:281`);
  the end of the last block of a stream, where CollapseStream looks at the memory
  behind the records.
- *Input and output.*  The system calls themselves, writing files, numbers and
  fields read through a FilePiece instead of lines, command lines, progress.
- *Errors that end the program.*  Most exceptions reach `main`, and a worker
  thread that throws aborts.  Exceptions that leave an object in use behind, those of
  PCQueue, are modelled.
- *Memory ordering.*  Threads meet at semaphores and mutexes only; `NoSlotRace`,
  `NoBlockShared` and `OneOwner` are what justifies steps of sequential
  consistency.
- *Edges of other arities and chart decoding* in `search/`: nothing in the
  repository but a decoder that is not part of it uses them.
- *Not yet*: what section 7 plans.

Bounds in the modules themselves: a queue's size, the number of blocks, the
length of the sentence, the number of contexts and of rewinds are constants, as
they are in one run of the program; there is no counter that is cut off
artificially except `use.rewinds`, how often a client goes back.

## 7. Plan

Done of it so far: the queue, pool, filter, chain, streams, stacks and search; the
external sort, the estimation, interpolation, the queries, the features, the reading of
files, the phrase table and the chart, and the representation of the language
model below the queries, and the proofs of section 4.  What is left is a proof that the
steps of `Stacks!PopEdge` are those of PairSearch.
