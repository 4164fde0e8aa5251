----------------------------- MODULE ModelFile -----------------------------
(***************************************************************************)
(* lm::ngram::GenericModel with a trie: build_binary reads an ARPA file a  *)
(* line at a time, packs what it says into memory and writes that to a     *)
(* file, behind the names of the words and a header; later the file is     *)
(* opened and n-grams are looked up in it.  The builder may be killed, the *)
(* machine may lose what is not yet on the disk, a file may be cut short.  *)
(***************************************************************************)
EXTENDS TrieSearch, PackedTrie

CONSTANTS Jobs,    \* what is built: [model, text, good, config, after, words, positive, unknown, batch]
          Hash,    \* of the words by their names: 0 is <unk>, 1 is <s> and 2 is </s>
          Faults   \* "kill", "lose" and "cut"

ASSUME JobAssumption ==
  /\ Faults \subseteq {"kill", "lose", "cut"}
  /\ \A w \in DOMAIN Hash : Hash[w] \in 1..(MaxHash - 1) /\ \A v \in DOMAIN Hash \ {w} : Hash[v] # Hash[w]
  /\ \A j \in Jobs : \A i \in DOMAIN j.text : j.text[i].kind = "count" => j.text[i].number > 0
  /\ \A j \in Jobs : j.model \in Models /\ j.positive \in {"throw", "zero"} /\ j.unknown \in {"throw", "accept"}

VARIABLES job,
          lines,       \* of the text, that are still to be read
          place,       \* what is expected there: [part, length, done]
          counts,      \* of the n-grams of each length
          vocab,       \* the words seen: [words, weights, unknown, sawUnk]
          grams,       \* the n-grams that have been read, longer than one word
          memory,      \* the memory of the model
          writeTo,     \* the offset that the pointers of a length reach next
          doing,       \* "building", then "naming", "vocabulary", "search", "header", "done"; or "killed"
          disk,        \* the file: [magic, header, size, memory, words]
          opened       \* how it was opened: [outcome, type, enumerate]

textVars == <<lines, place, vocab, grams>>
memoryVars == <<counts, memory, writeTo>>
fileSystem == <<doing, disk, opened>>
vars == <<loadVars, trieVars, job, textVars, memoryVars, fileSystem>>

BOS == 1
EOS == 2

(* The text, as PrintARPA writes it: words by their names.                 *)
Blank == [kind |-> "blank"]
PrintGram(g, order) ==
  [kind |-> "gram", prob |-> g.prob, words |-> Reverse(g.key), backoff |-> IF Len(g.key) < order THEN <<g.backoff>> ELSE << >>]
PrintARPA(model) ==
  LET of(n) == SelectSeq(model.grams, LAMBDA g : Len(g.key) = n)
      add(text, g) == Append(text, PrintGram(g, model.order))
      section(n) == Append(FoldLeft(add, <<[kind |-> "header", length |-> n]>>, of(n)), Blank)
      count(text, n) == Append(text, [kind |-> "count", length |-> n, number |-> Len(of(n))])
      lengths == [n \in 1..model.order |-> n]
  IN  FoldLeft(LAMBDA text, n : text \o section(n),
               Append(FoldLeft(count, <<[kind |-> "data"]>>, lengths), Blank), lengths)
      \o <<[kind |-> "end"]>>

Closed == [outcome |-> "no", type |-> {}, enumerate |-> FALSE]
NoFile == [magic |-> "none", header |-> << >>, size |-> 0, memory |-> ZeroMemory, words |-> << >>]
NoVocab == [words |-> << >>, weights |-> << >>, unknown |-> [prob |-> 0, backoff |-> << >>], sawUnk |-> FALSE]
Start == [part |-> "data", length |-> 0, done |-> 0]

Init ==
  /\ job \in Jobs
  /\ lines = job.text /\ place = Start /\ vocab = NoVocab /\ grams = << >>
  /\ counts = << >> /\ memory = ZeroMemory /\ writeTo = << >>
  /\ doing = "building" /\ disk = NoFile /\ opened = Closed
  /\ file = job.model /\ unread = << >> /\ table = << >> /\ loading = "parsing"
  /\ NoFiles

(* Reading the text.                                                       *)
Parsing(part) == loading = "parsing" /\ doing = "building" /\ place.part = part
Reading(part, kind) == Parsing(part) /\ lines # << >> /\ lines[1].kind = kind
Line == lines[1]
Consume == lines' = Tail(lines)
KeepTrie == UNCHANGED <<file, unread, table, trieVars>>
Throw == loading' = "threw" /\ UNCHANGED <<place, vocab, grams, memoryVars, disk>>

\* Lines that are empty are skipped, but for the one that ends the counts;
\* those that begin with # are, before \data\.
SkipLine ==
  /\ \/ \E part \in {"data", "header", "grams", "end", "rest"} : Reading(part, "blank")
     \/ Reading("data", "comment")
  /\ Consume
  /\ KeepTrie /\ UNCHANGED <<loading, job, place, vocab, grams, memoryVars, fileSystem>>

ReadData ==
  /\ Reading("data", "data") /\ Consume
  /\ place' = [place EXCEPT !.part = "counts"]
  /\ KeepTrie /\ UNCHANGED <<loading, job, vocab, grams, memoryVars, fileSystem>>

ReadCount ==
  /\ Reading("counts", "count") /\ Line.length = Len(counts) + 1 /\ Consume
  /\ counts' = Append(counts, Line.number)
  /\ KeepTrie /\ UNCHANGED <<loading, job, place, vocab, grams, memory, writeTo, fileSystem>>

\* SetupJustVocab creates the file: mapped and marked as incomplete, or empty.
EndCounts ==
  /\ Reading("counts", "blank") /\ Len(counts) >= 2 /\ Consume
  /\ place' = [part |-> "header", length |-> 1, done |-> 0]
  /\ disk' = IF job.after THEN [NoFile EXCEPT !.magic = "empty"]
             ELSE [NoFile EXCEPT !.magic = "incomplete", !.size = VocabSize(counts[1])]
  /\ KeepTrie /\ UNCHANGED <<loading, job, vocab, grams, memoryVars, doing, opened>>

ReadHeader ==
  /\ Reading("header", "header") /\ Line.length = place.length /\ Consume
  /\ place' = [place EXCEPT !.part = "grams"]
  /\ KeepTrie /\ UNCHANGED <<loading, job, vocab, grams, memoryVars, fileSystem>>

\* What is read of a line, PositiveProbWarn and ReadBackoff included.
Weights == [prob |-> Min({Line.prob, 0}), backoff |-> IF Line.backoff = << >> THEN 0 ELSE Line.backoff[1]]
BadWeights ==
  \/ Line.prob > 0 /\ job.positive = "throw"
  \/ place.length = Len(counts) /\ Line.backoff \notin {<< >>, <<0>>}

NextPlace ==
  IF place.done + 1 < counts[place.length] THEN [place EXCEPT !.done = @ + 1]
  ELSE IF place.length < Len(counts) THEN [part |-> "header", length |-> place.length + 1, done |-> 0]
  ELSE [place EXCEPT !.part = "end"]

\* SortedVocabulary::Insert, and the weights at the number it returns.
WithUnigram ==
  LET name == Line.words[1]
  IN  IF name = 0 THEN [vocab EXCEPT !.sawUnk = TRUE, !.unknown = Weights]
      ELSE [vocab EXCEPT !.words = Append(@, name), !.weights = Append(@, Weights)]

\* Mutant: the weights stay where they are.
WordsInOrder(v) == [v EXCEPT !.words = SortSeq(@, LAMBDA a, b : Hash[a] < Hash[b])]

\* JointSort: the words and their weights in the order of the hashes.
InOrder(v) ==
  LET both == SortSeq([i \in DOMAIN v.words |-> <<v.words[i], v.weights[i]>>], LAMBDA a, b : Hash[a[1]] < Hash[b[1]])
  IN  [v EXCEPT !.words = [i \in DOMAIN both |-> both[i][1]], !.weights = [i \in DOMAIN both |-> both[i][2]]]

\* GenericFinished: the number of words and their hashes are in the memory.
FinishedVocab(words) ==
  FoldLeft(LAMBDA m, i : Assign(m, 8 * i, 8, IF i = 0 THEN Len(words) ELSE Hash[words[i]]),
           ZeroMemory, [i \in 1..(Len(words) + 1) |-> i - 1])

\* CheckSpecials.
Complains(v) == (~v.sawUnk /\ job.unknown = "throw") \/ ~({BOS, EOS} \subseteq Range(v.words))

ReadUnigram ==
  /\ Reading("grams", "gram") /\ place.length = 1 /\ ~BadWeights /\ Consume
  /\ IF place.done + 1 < counts[1]
       THEN vocab' = WithUnigram /\ place' = NextPlace /\ UNCHANGED <<loading, grams, memoryVars, disk>>
     ELSE IF Complains(WithUnigram) THEN Throw
     ELSE /\ vocab' = InOrder(WithUnigram) /\ place' = NextPlace
          /\ memory' = FinishedVocab(vocab'.words)
          /\ counts' = [counts EXCEPT ![1] = IF vocab'.sawUnk THEN @ ELSE @ + 1]
          /\ UNCHANGED <<loading, grams, writeTo, disk>>
  /\ KeepTrie /\ UNCHANGED <<job, doing, opened>>

\* SortedVocabulary::Index of a name; only <unk> may be 0.
Index(name) == WordIndex(memory, Hash[name])
Unlisted == \E w \in Range(Line.words) : w # 0 /\ Index(w) = 0

ReadLonger ==
  /\ Reading("grams", "gram") /\ place.length > 1 /\ ~BadWeights /\ ~Unlisted /\ Consume
  /\ grams' = Append(grams, [key |-> Reverse([i \in DOMAIN Line.words |-> Index(Line.words[i])])] @@ Weights)
  /\ place' = NextPlace
  /\ KeepTrie /\ UNCHANGED <<loading, job, vocab, memoryVars, fileSystem>>

ReadEnd ==
  /\ Reading("end", "end") /\ Consume
  /\ place' = [place EXCEPT !.part = "rest"]
  /\ KeepTrie /\ UNCHANGED <<loading, job, vocab, grams, memoryVars, fileSystem>>

\* What the trie is built from: the n-grams by the numbers of their words.
AsRead ==
  LET unigram(i) == [key |-> <<i>>] @@ (IF i = 0 THEN vocab.unknown ELSE vocab.weights[i])
      numbers == IF vocab.sawUnk THEN 0..Len(vocab.words) ELSE 1..Len(vocab.words)
  IN  [job.model EXCEPT !.order = Len(counts), !.known = vocab.sawUnk, !.batch = job.batch,
                        !.grams = [i \in 1..Cardinality(numbers) |-> unigram(Min(numbers) + i - 1)] \o grams]

EndText ==
  /\ Parsing("rest") /\ lines = << >>
  /\ loading' = "reading" /\ file' = AsRead
  /\ UNCHANGED <<unread, table, trieVars, job, textVars, memoryVars, fileSystem>>

\* Everything else that may come next is refused, the end of the text too.
Expected ==
  CASE place.part = "data" -> Line.kind \in {"blank", "comment", "data"}
    [] place.part = "counts" -> \/ Line.kind = "count" /\ Line.length = Len(counts) + 1
                                \/ Line.kind = "blank" /\ Len(counts) >= 2
    [] place.part = "header" -> Line.kind = "blank" \/ (Line.kind = "header" /\ Line.length = place.length)
    [] place.part = "grams" -> \/ Line.kind = "blank"
                               \/ Line.kind = "gram" /\ ~BadWeights /\ (place.length = 1 \/ ~Unlisted)
    [] place.part = "end" -> Line.kind \in {"blank", "end"}
    [] place.part = "rest" -> Line.kind = "blank"

BadText ==
  /\ loading = "parsing" /\ doing = "building"
  /\ IF lines = << >> THEN place.part # "rest" ELSE ~Expected
  /\ Throw /\ UNCHANGED lines
  /\ KeepTrie /\ UNCHANGED <<job, doing, opened>>

ReadText ==
  \/ SkipLine \/ ReadData \/ ReadCount \/ EndCounts \/ ReadHeader
  \/ ReadUnigram \/ ReadLonger \/ ReadEnd \/ EndText \/ BadText

(* BuildTrie, with the memory it is written to.                            *)
KeepText == UNCHANGED <<job, textVars>>
\* Room for the words that the text said there are.
VocabPart == VocabSize(counts[1] - IF vocab.sawUnk THEN 0 ELSE 1)

\* Mutant: the search starts right behind it.
SearchStartsUnpadded == VocabPart

\* FindBlanks::Counts, and UnkCountChangePadding for a text without <unk>.
CountsWithBlanks(sizes) == [k \in DOMAIN sizes |-> Len(sorted[k]) + sizes[k]]
SearchStarts == VocabPart + IF vocab.sawUnk THEN 0 ELSE 8
Trie == [at |-> SearchStarts, counts |-> counts, config |-> job.config]

\* The probabilities of a length with those of its blanks, and its backoffs.
ProbsToTrain(k) == [i \in DOMAIN values'[k] |-> values'[k][i]] \o [i \in DOMAIN sorted[k] |-> sorted[k][i].prob]
BackoffsToTrain(k) ==
  LET some == SelectSeq(sorted[k], LAMBDA g : g.backoff # 0) IN [i \in DOMAIN some |-> some[i].backoff]

\* TrainQuantizer, for each length, and the bits for the header.
Quantised(m, trie) ==
  LET train(so, k) ==
        LET probs == TrainProb(so, trie.at, trie.config, k, ProbsToTrain(k))
        IN  IF k = Order THEN probs ELSE TrainBackoff(probs, trie.at, trie.config, k, BackoffsToTrain(k))
      trained == FoldLeft(train, m, [i \in 1..(Order - 1) |-> i + 1])
      header == <<QuantVersion, trie.config.probBits, trie.config.backoffBits>>
  IN  IF trie.config.quant
        THEN FoldLeft(LAMBDA so, i : Assign(so, trie.at + i - 1, 1, header[i]), trained, <<1, 2, 3>>)
        ELSE m

\* GrowForSearch: what is mapped of the file gets room for the arrays.
GrowForSearch ==
  /\ ObtainBackoffs
  /\ counts' = CountsWithBlanks([k \in DOMAIN values |-> Len(values[k])])
  /\ memory' = Quantised(memory, [at |-> SearchStarts, counts |-> counts', config |-> job.config])
  /\ writeTo' = [k \in Middles |-> 1]
  /\ disk' = IF job.after THEN disk ELSE [disk EXCEPT !.size = SearchStarts + SearchSize(counts', job.config)]
  /\ KeepText /\ UNCHANGED <<doing, opened>>

\* WriteEntries: what is new in the arrays is packed, blanks first.
Packed(so, k) ==
  LET index == Len(arrays[k])
      new == arrays'[k][index + 1]
      in == InsertEntry(so.memory, Trie, k, IF k = Order THEN 0 ELSE so.writeTo[k], index, new.word, new.entry, new.next)
  IN  [memory |-> in.memory,
       writeTo |-> IF k = Order THEN so.writeTo ELSE [so.writeTo EXCEPT ![k] = in.writeTo]]

PackEntry ==
  /\ WriteEntry
  /\ LET new == Top1
         n == Len(new.key)
         lengths == SetToSortSeq(BlankLengths(new.key) \cup {n}, <)
         packed == FoldLeft(Packed, [memory |-> memory, writeTo |-> writeTo], lengths)
         unigram == arrays'[1][Len(arrays'[1])]
     IN  IF n = 1
           THEN /\ memory' = WriteUnigram(memory, Trie, unigram.word, unigram.entry, unigram.next)
                /\ UNCHANGED writeTo
           ELSE memory' = packed.memory /\ writeTo' = packed.writeTo
  /\ KeepText /\ UNCHANGED <<counts, doing, disk, opened>>

\* The last pointer of each array, and the offsets' first; some offset is
\* missing if the pointers did not get as far as the counts say.
Ended(so, k) ==
  LET layout == LayoutOf(Trie, k)
      last == WriteNext(so.memory, layout, so.writeTo[k], Len(arrays[k]), Len(arrays[k + 1]))
  IN  [memory |-> FinishArray(last.memory, layout), writeTo |-> [so.writeTo EXCEPT ![k] = last.writeTo]]

FinishArrays ==
  /\ loading = "writing" /\ Left = {}
  /\ LET last == Assign(memory, UnigramAt(Trie, counts[1]) + 8, 8, Len(arrays[2]))
         ended == FoldLeft(Ended, [memory |-> last, writeTo |-> writeTo], SetToSortSeq(Middles, <))
         complete == \A k \in Middles : job.config.array => ended.writeTo[k] = LayoutOf(Trie, k).offsetCount
     IN  /\ IF complete THEN FinishTrie
            ELSE loading' = "threw" /\ UNCHANGED <<file, unread, table, trieVars>>
         /\ memory' = ended.memory
         /\ writeTo' = << >>
         /\ KeepText /\ UNCHANGED <<counts, doing, disk, opened>>

Build ==
  /\ doing = "building"
  /\ \/ (SortFiles \/ FindBlanks) /\ KeepText /\ UNCHANGED <<memoryVars, fileSystem>>
     \/ GrowForSearch
     \/ PackEntry
     \/ FinishArrays

(* Writing the file; the names follow the search.                          *)
Nul == <<"nul", 0>>
Named(name) == << <<"first", name>>, <<"rest", name>>, Nul>>
Buffer == Named(0) \o FlattenSeq([i \in DOMAIN vocab.words |-> Named(vocab.words[i])])
TotalSize == Trie.at + SearchSize(counts, job.config)

\* WriteVocabWords, with a hole before them if the rest is written after.
WriteVocabWords ==
  /\ loading = "built" /\ doing = "building" /\ job.words
  /\ disk' = [disk EXCEPT !.words = Buffer, !.magic = IF job.after THEN "zeros" ELSE @, !.size = TotalSize]
  /\ doing' = "naming"
  /\ KeepTrie /\ KeepText /\ UNCHANGED <<loading, memoryVars, opened>>

\* The default for a text without <unk>.
UnknownUnigram ==
  /\ loading = "built" /\ doing = (IF job.words THEN "naming" ELSE "building")
  /\ EndLoad
  /\ memory' = IF file.known THEN memory
               ELSE LET at == UnigramAt(Trie, 0)
                    IN  Assign(Assign(memory, at, 4, FloatCode(UnknownProb, FALSE)), at + 4, 4, FloatCode(0, FALSE))
  /\ doing' = IF job.after THEN "vocabulary" ELSE "header"
  /\ KeepText /\ UNCHANGED <<trieVars, counts, writeTo, disk, opened>>

Writing(what) == doing = what /\ KeepTrie /\ KeepText /\ UNCHANGED <<loading, memoryVars, opened>>

\* FinishFile: what was kept in memory is written, then the header.
WriteVocabulary ==
  /\ Writing("vocabulary") /\ doing' = "search"
  /\ disk' = [disk EXCEPT !.magic = "incomplete", !.size = Max({@, VocabPart}),
                          !.memory = [ones |-> {a \in memory.ones : a < 8 * Trie.at}, centers |-> << >>]]
WriteSearch ==
  /\ Writing("search") /\ doing' = "header"
  /\ disk' = [disk EXCEPT !.size = TotalSize, !.memory = memory]

\* The header of a mapped file is written to the memory.
WriteHeader ==
  /\ Writing("header") /\ doing' = "done"
  /\ disk' = [disk EXCEPT !.magic = "complete", !.memory = memory,
                !.header = [counts |-> counts, type |-> <<job.config.quant, job.config.array>>, vocab |-> job.words]]

(* What may go wrong.  What was written stays if the program is killed.    *)
Kill ==
  /\ "kill" \in Faults /\ doing \notin {"killed", "done", "damaged"} /\ loading # "threw"
  /\ doing' = "killed"
  /\ lines' = << >> /\ place' = Start /\ vocab' = NoVocab /\ grams' = << >>
  /\ counts' = << >> /\ memory' = ZeroMemory /\ writeTo' = << >>
  /\ file' = job.model /\ unread' = << >> /\ table' = << >> /\ loading' = "parsing"
  /\ sorted' = << >> /\ contexts' = << >> /\ reader' = << >> /\ contextAt' = << >>
  /\ been' = << >> /\ basis' = << >> /\ values' = << >> /\ messages' = << >> /\ arrays' = << >>
  /\ disk' = IF job.after \/ disk.magic = "none" THEN disk ELSE [disk EXCEPT !.memory = memory]
  /\ UNCHANGED <<job, opened>>

Damage == doing = "done" /\ opened = Closed /\ doing' = "damaged" /\ KeepTrie /\ KeepText
          /\ UNCHANGED <<loading, memoryVars, opened>>

\* The power fails after the last call.  SyncOrThrow and FSyncOrThrow have
\* seen to all but the names of a mapped file, and the header of the other.
Lose ==
  /\ "lose" \in Faults /\ Damage
  /\ \/ job.after /\ disk' = [disk EXCEPT !.magic = "incomplete", !.header = << >>]
     \/ /\ ~job.after
        /\ \E from \in DOMAIN disk.words :
             disk' = [disk EXCEPT !.words = [i \in DOMAIN @ |-> IF i < from THEN @[i] ELSE Nul]]

\* A copy of the file ends early, in the names or before them; CutWord says
\* that only the last name loses its end.
CutWord(kept) == kept = Len(disk.words) - 2
Cut ==
  /\ "cut" \in Faults /\ Damage
  /\ \/ \E kept \in 0..(Len(disk.words) - 1) : ~CutWord(kept) /\ disk' = [disk EXCEPT !.words = SubSeq(@, 1, kept)]
     \/ disk' = [disk EXCEPT !.words = << >>, !.size = @ - 1]

(* Opening it.                                                             *)
\* What LineIterator makes of the cells behind <unk>: lines, the last of
\* which need not have its end.
NamesIn(cells) ==
  LET add(names, cell) == IF cell = Nul THEN Append(names, << >>) ELSE [names EXCEPT ![Len(names)] = Append(@, cell)]
      all == FoldLeft(add, <<<< >>>>, SubSeq(cells, Len(Named(0)) + 1, Len(cells)))
  IN  IF Last(all) = << >> THEN Front(all) ELSE all

\* Mutant: the names are not counted.
ReadWordsUncounted(enumerate) == IsPrefix(Named(0), disk.words)

\* ReadWords: <unk> has to be where the names should be; the others are
\* counted if anybody wants them.
ReadWords(enumerate) ==
  /\ IsPrefix(Named(0), disk.words)
  /\ enumerate => Len(NamesIn(disk.words)) = VocabCount(disk.memory)

ReadConfig(header) ==
  ConfigOf(disk.memory, header.counts,
           [quant |-> header.type[1], array |-> header.type[2], probBits |-> 0, backoffBits |-> 0, pointerBits |-> 0])

Opens(type, enumerate) ==
  /\ disk.magic = "complete"
  /\ LET header == disk.header
     IN  /\ header.type = type
         /\ enumerate => header.vocab
         /\ \E config \in ReadConfig(header) : disk.size >= VocabSize(header.counts[1]) + SearchSize(header.counts, config)
         /\ header.vocab => ReadWords(enumerate)

Open ==
  /\ doing \in {"done", "killed", "damaged"} \/ loading = "threw"
  /\ opened = Closed
  /\ \E type \in BOOLEAN \X BOOLEAN, enumerate \in BOOLEAN :
       opened' = [outcome |-> IF Opens(type, enumerate) THEN "loaded" ELSE "threw", type |-> type, enumerate |-> enumerate]
  /\ KeepTrie /\ KeepText /\ UNCHANGED <<loading, memoryVars, doing, disk>>

Next ==
  \/ ReadText \/ Build
  \/ WriteVocabWords \/ UnknownUnigram \/ WriteVocabulary \/ WriteSearch \/ WriteHeader
  \/ Kill \/ Lose \/ Cut \/ Open

Spec == Init /\ [][Next]_vars

(* What the file should say: table is what was built, with numbers for     *)
(* words that go by their hashes.                                          *)
Names == {k[1] : k \in {g.key : g \in Range(job.model.grams)}}
Number(name) == IF name = 0 THEN 0 ELSE Cardinality({w \in Names \ {0} : Hash[w] <= Hash[name]})
Numbered(key) == [i \in DOMAIN key |-> Number(key[i])]

Loaded == opened.outcome = "loaded"
OpenedTrie ==
  [at |-> VocabSize(disk.header.counts[1]), counts |-> disk.header.counts,
   config |-> CHOOSE config \in ReadConfig(disk.header) : TRUE]
LookedUp(key) == Lookup(disk.memory, OpenedTrie, key)
Answer(key) == CHOOSE answer \in LookedUp(key) : TRUE

Of(n) == {key \in DOMAIN table : Len(key) = n}
Same(fraction, value) == fraction[1] = value * fraction[2]
Distance(fraction, value) == LET d == fraction[1] - value * fraction[2] IN <<IF d < 0 THEN -d ELSE d, fraction[2]>>
AsNear(a, b, value) ==
  LET near == Distance(a, value) far == Distance(b, value) IN near[1] * far[2] <= far[1] * near[2]

\* One of as many values of which bins are made as there are bins for is
\* kept, and of more the nearest of the answers.
Kept(value, exact, answer, others) ==
  /\ exact => Same(answer, value)
  /\ \A other \in others : AsNear(answer, other, value)

ProbKept(key) ==
  LET n == Len(key)
      exact == n = 1 \/ ~job.config.quant \/ Cardinality(Of(n)) <= 2^job.config.probBits
  IN  Kept(table[key].prob, exact, Answer(key).prob,
           IF job.config.quant /\ n > 1 THEN {Answer(other).prob : other \in Of(n)} ELSE {})

BackoffKept(key) ==
  LET n == Len(key)
      some == {other \in Of(n) : table[other].backoff # 0}
      exact == n = 1 \/ ~job.config.quant \/ key \notin some \/ Cardinality(some) <= 2^job.config.backoffBits - Reserved
  IN  /\ Kept(table[key].backoff, exact, Answer(key).backoff, IF exact THEN {} ELSE {Answer(other).backoff : other \in some})
      /\ Answer(key).extends = table[key].extends

Follows(key) ==
  /\ (Answer(key).node.begin # Answer(key).node.end) = table[key].left
  /\ \A w \in 0..(disk.header.counts[1] - 1) : Append(key, w) \notin DOMAIN table => LookedUp(Append(key, w)) = {}

TextKept ==
  /\ \A name \in Names : WordIndex(disk.memory, Hash[name]) = Number(name)
  /\ \A g \in Range(job.model.grams) :
       /\ Numbered(g.key) \in DOMAIN table
       /\ table[Numbered(g.key)].prob = g.prob
       /\ Len(g.key) < Order => table[Numbered(g.key)].backoff = g.backoff
  /\ ~job.model.known => table[<<0>>].prob = UnknownProb /\ table[<<0>>].backoff = 0

\* A model that is loaded from a file answers as the text says: a word has
\* the number of its hash, an n-gram its probability and its backoff, exact
\* or by the nearest bin, whether anything has it as context and whether
\* anything extends it to the left; what is not in the trie is not found.
AnswersAsBuilt ==
  Loaded =>
    /\ TextKept
    /\ \A key \in DOMAIN table :
         /\ LookedUp(key) # {}
         /\ ProbKept(key)
         /\ Len(key) < Order => BackoffKept(key) /\ Follows(key)

NamesWhole ==
  LET all == [i \in 1..Cardinality(Names \ {0}) |-> CHOOSE name \in Names : name # 0 /\ Number(name) = i]
  IN  NamesIn(disk.words) = [i \in DOMAIN all |-> Front(Named(all[i]))]

\* A builder takes no text but a good one, and does not refuse that.  A file
\* is loaded only if its builder came to the end, as the type of model it was
\* built for, and with names only if all are there; every such file is.
OnlyGoodFilesOpen ==
  /\ doing \in {"done", "damaged"} => job.good
  /\ loading = "threw" => ~job.good
  /\ Loaded =>
       /\ doing \in {"done", "damaged"}
       /\ opened.type = <<job.config.quant, job.config.array>>
       /\ opened.enumerate => job.words /\ NamesWhole
  /\ doing = "done" /\ opened.outcome = "threw" =>
       opened.type # <<job.config.quant, job.config.array>> \/ (opened.enumerate /\ ~job.words)
=============================================================================
