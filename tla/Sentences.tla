------------------------------ MODULE Sentences -----------------------------
(***************************************************************************)
(* The decoder with a phrase table: System::LoadVocab numbers the words of *)
(* the table again, and for every sentence a Chart finds the target        *)
(* phrases of each span, short ones in a cache that all sentences share.   *)
(* The cache's keys point to the sentence of the chart that made them; of  *)
(* a sentence that is gone, comparing with them may give any answer.       *)
(***************************************************************************)
EXTENDS PhraseTable

CONSTANTS Inputs,            \* the sentences that may come
          MaxSentences,
          CachedLength,      \* cached_phrase_max_length_, 2 in the code
          SameBucket(_, _)   \* whether phrases share a bucket of the cache

ASSUME MaxSentences \in Nat /\ CachedLength \in Nat

VARIABLES stage,      \* what the decoder does
          base,       \* BaseVocab: [table, strings], strings from 0 on
          oov,        \* the chart's own vocabulary
          sentence,   \* the words of the sentence
          ids,        \* sentence_ids_
          chart,      \* which chart this is
          begin, end, \* the span that is looked up
          entries,    \* the target phrases of each span
          cache       \* nodes [phrase, chart, begin, length, vertex]

decoderVars == <<stage, base, oov, sentence, ids, chart, begin, end, entries, cache>>
vars == <<writerVars, table, decoderVars>>

(* util::MutableVocab: <unk> has a string but is not in the table.         *)
NewVocab == [table |-> NewTable(5), strings |-> <<"<unk>">>]
VocabFind(v, word) == IF Knows(v.table, word) THEN IdIn(v.table, word) ELSE 0
VocabInsert(v, word) ==
  [table |-> FindOrInsert(v.table, WordEntry(word, Len(v.strings))),
   strings |-> IF Knows(v.table, word) THEN v.strings ELSE Append(v.strings, word)]

(* VocabMap: unknown words are numbered behind those of the table.         *)
BaseSize == table.words
OovFor(v, word) == IF VocabFind(base, word) > 0 THEN v ELSE VocabInsert(v, word)
IdFor(v, word) ==
  IF VocabFind(base, word) > 0 THEN VocabFind(base, word) ELSE BaseSize + VocabFind(v, word) - 1
String(id) == IF id < BaseSize THEN base.strings[id + 1] ELSE oov.strings[id - BaseSize + 2]

Unset == << >>
NoEntries(n) == [s \in {<<b, e>> \in (0..n) \X (1..n) : b < e /\ e <= b + table.longest} |-> Unset]

Init ==
  /\ TableInit
  /\ stage = "wait" /\ base = NewVocab /\ oov = NewVocab
  /\ sentence = << >> /\ ids = << >> /\ chart = 0
  /\ begin = 0 /\ end = 0 /\ entries = << >> /\ cache = {}

Create == CreateNext /\ UNCHANGED decoderVars

\* Where the file does not have all words, nothing says what happens next.
LoadVocab ==
  /\ stage = "wait"
  /\ OpenTable
  /\ stage' = IF Len(table'.vocab) < table'.words THEN "cut" ELSE "ready"
  /\ base' = IF stage' = "cut" THEN base ELSE FoldLeft(VocabInsert, NewVocab, Tail(table'.vocab))
  /\ UNCHANGED <<oov, sentence, ids, chart, begin, end, entries, cache>>

ReadSentence ==
  /\ stage = "ready" /\ chart < MaxSentences
  /\ \E words \in Inputs :
       LET known == FoldLeft(OovFor, NewVocab, words)
       IN  /\ sentence' = words
           /\ oov' = known
           /\ ids' = [i \in DOMAIN words |-> IdFor(known, words[i])]
           /\ entries' = NoEntries(Len(words))
  /\ chart' = chart + 1
  /\ stage' = "load" /\ begin' = 0 /\ end' = 1
  /\ UNCHANGED <<writerVars, table, base, cache>>

TargetPhrase(type, target) == [type |-> type, target |-> target]
Phrases(phrase) == [i \in DOMAIN Lookup(phrase) |-> TargetPhrase("table", Lookup(phrase)[i].target)]
Phrase == SubSeq(ids, begin + 1, end)
InRange == end <= Len(ids) /\ end <= begin + table.longest

\* Mutant: the hash of a phrase does not depend on all its words.
AnswersByLength(node) ==
  /\ node.length = end - begin
  /\ node.chart = chart => SubSeq(ids, node.begin + 1, node.begin + node.length) = Phrase

\* A key of this chart compares as it should.
Answers(node) ==
  /\ SameBucket(node.phrase, Phrase)
  /\ node.length = end - begin
  /\ node.chart = chart => SubSeq(ids, node.begin + 1, node.begin + node.length) = Phrase
NewNode == [phrase |-> Phrase, chart |-> chart, begin |-> begin, length |-> end - begin, vertex |-> Unset]
Nodes ==
  {node \in cache : Answers(node)}
    \cup (IF \E node \in cache : Answers(node) /\ node.chart = chart THEN {} ELSE {NewNode})

\* An empty vertex of the cache is filled, or stays empty.
LookUpCached ==
  \E node \in Nodes :
    LET filled == IF node.vertex # Unset THEN node ELSE [node EXCEPT !.vertex = Phrases(Phrase)]
    IN  /\ cache' = (cache \ {node}) \cup {filled}
        /\ entries' = [entries EXCEPT ![<<begin, end>>] = filled.vertex]

LoadSpan ==
  /\ stage = "load" /\ begin < Len(ids) /\ InRange
  /\ IF end - begin <= CachedLength THEN LookUpCached
     ELSE entries' = [entries EXCEPT ![<<begin, end>>] = Phrases(Phrase)] /\ UNCHANGED cache
  /\ end' = end + 1
  /\ UNCHANGED <<writerVars, table, stage, base, oov, sentence, ids, chart, begin>>

AddPassthrough ==
  /\ stage = "load" /\ begin < Len(ids) /\ ~InRange
  /\ entries' = IF entries[<<begin, begin + 1>>] # Unset THEN entries
                ELSE [entries EXCEPT ![<<begin, begin + 1>>] = <<TargetPhrase("passthrough", <<ids[begin + 1]>>)>>]
  /\ begin' = begin + 1 /\ end' = begin + 2
  /\ UNCHANGED <<writerVars, table, stage, base, oov, sentence, ids, chart, cache>>

\* The chart goes out of scope; its cache does not.
EndSentence ==
  /\ stage = "load" /\ begin = Len(ids)
  /\ stage' = "ready"
  /\ UNCHANGED <<writerVars, table, base, oov, sentence, ids, chart, begin, end, entries, cache>>

Stop ==
  /\ WriterStopped /\ (stage = "wait" => ~Accepted)
  /\ stage \in {"wait", "cut"} \/ (stage = "ready" /\ chart = MaxSentences)
  /\ UNCHANGED vars

Next == Create \/ LoadVocab \/ ReadSentence \/ LoadSpan \/ AddPassthrough \/ EndSentence \/ Stop

Spec == Init /\ [][Next]_vars

(***************************************************************************)
(* What the text says.                                                     *)
(***************************************************************************)
WordId(word) == CHOOSE i \in 0..(Len(lexicon.words) - 1) : lexicon.words[i + 1] = word
PhraseIds(words) == [i \in DOMAIN words |-> WordId(words[i])]
Begun == {j \in DOMAIN text.rows : j < line \/ (j = line /\ writer \in {"row", "next", "threw"})}
RowsOf(words) == SelectSeq(text.rows, LAMBDA r : r.source = words)
Features(r) == IF text.dense THEN r.dense ELSE << >>
RowSize(r) == Len(Features(r)) + 1 + Len(r.target)
Before(words) == {j \in DOMAIN text.rows : \A i \in 1..j : text.rows[i].source # words}
DirectBefore(words) ==
  Cardinality({text.rows[j].source : j \in Before(words)})
    + FoldSet(LAMBDA j, n : n + RowSize(text.rows[j]), 0, Before(words))

\* After any insertions and doublings every word and every source phrase is
\* found where probing looks for it, with what was stored for it
\* (probing_hash_table.hh, "Entries might go backwards ... or wrap around").
EveryKeyFound ==
  /\ \A i \in DOMAIN lexicon.words :
       LET w == lexicon.words[i] IN Knows(lexicon.table, w) /\ IdIn(lexicon.table, w) = i - 1
  /\ \A j \in Begun :
       LET ks == PhraseIds(text.rows[j].source)
           h == PhraseHash(seed, ks)
       IN  Found(offsets, h, ks) /\ ValueOf(offsets, h, ks) = DirectBefore(text.rows[j].source)

\* The text is read from within the window; and however a writer ended, a table that
\* opens has the phrases of the text:
\* "an invalid size header to indicate the file is incomplete" (format.cc).
OpenedIsTheText ==
  /\ writer # "astray"
  /\ table # << >> =>
    /\ writer \in {"closed", "died"} /\ line > Len(text.rows)
    /\ \A j \in DOMAIN text.rows :
         LET words == text.rows[j].source
         IN  Lookup(PhraseIds(words)) =
               [i \in DOMAIN RowsOf(words) |-> [dense |-> Features(RowsOf(words)[i]), target |-> PhraseIds(RowsOf(words)[i].target)]]
    /\ \A j \in DOMAIN text.rows : Len(text.rows[j].source) <= table.longest

Said(phrases) == [i \in DOMAIN phrases |-> [k \in DOMAIN phrases[i].target |-> String(phrases[i].target[k])]]
Expected(words) ==
  IF RowsOf(words) # << >> THEN [i \in DOMAIN RowsOf(words) |-> RowsOf(words)[i].target]
  ELSE IF Len(words) = 1 THEN <<words>> ELSE << >>

\* "Target phrases that correspond to each source span" (chart.hh): those of
\* the text for its words, or the word itself; whatever was cached before.
PhrasesOfTheirSpan ==
  (stage = "load" /\ begin = Len(ids)) =>
    \A span \in DOMAIN entries :
      span[2] <= Len(ids) =>
        Said(entries[span]) = Expected(SubSeq(sentence, span[1] + 1, span[2]))
=============================================================================
