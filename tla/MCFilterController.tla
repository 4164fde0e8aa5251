------------------------- MODULE MCFilterController -------------------------
(* The instances of FilterController TLC checks, with the filters of        *)
(* NGramFilters.                                                            *)
EXTENDS FilterController

INSTANCE NGramFilters

\* The lines of a batch are of one length, and no two batches are: some of the lines
\* outgrow the strings they are put in, others fit.
MCLength(l) == <<5, 5, 1, 1, 7, 7, 3, 3, 2, 2, 6, 6, 4, 8, 8, 9, 9>>[l]

-----------------------------------------------------------------------------
\* Three sentences, with a line that has none.
Text == << << <<"a", "b">>, <<"c">> >>, << << >> >>,
           << <<"b">>, <<"c", "a">>, << >>, <<"a", "b">> >>, << <<"c", "c", "a">> >> >>

\* The n-grams of an ARPA file; and those of count files, all there are of up to
\* three words and one of four.
ArpaLines == <<
  <<"<unk>">>, <<"a">>, <<"d">>, <<"<s>">>, <<"b">>, <<"</s>">>, <<"c">>, <<"e">>, <<"f">>, <<"g">>,
  <<"h">>, <<"i">>, <<"j">>,
  <<"<s>", "a">>, <<"a", "a">>, <<"b", "c">>, <<"c", "</s>">> >>
Letters == {"a", "b", "c"}
CountFiles ==
  {<< <<x, y>>, <<x, y, "a">>, <<x, y, "b">>, <<x, y, "c">> >> : x, y \in Letters}
    \cup {<< <<"a">>, <<"b">>, <<"c">>, <<"b", "c", "a", "b">> >>}

\* The count files are filtered by phrases, the ARPA file by vocabulary.
Vocabs == Vocabulary(Text)
Phrases == Substrings(Text)

\* What the options say: an n-gram is for a sentence that has all of its words;
\* with phrases, for one whose phrases can be put together so that it occurs.
WithWords(lines, words) ==
  {i - 1 : i \in {k \in DOMAIN Sentences(lines) : ToSet(words) \subseteq ToSet(FlattenSeq(Sentences(lines)[k]))}}
Occurs(words, text) == \E i \in 0 .. Len(text) - Len(words) : SubSeq(text, i + 1, i + Len(words)) = words
InPhrases(phrases, words) ==
  \E k \in 1 .. Len(words) : \E p \in [1 .. k -> ToSet(phrases)] : Occurs(words, FlattenSeq(p))
WithPhrases(lines, words) ==
  {i - 1 : i \in {k \in DOMAIN Sentences(lines) : InPhrases(Sentences(lines)[k], words)}}
Meant(phrase, ngram) ==
  LET words == SelectSeq(ngram, LAMBDA w : ~IsTag(w))
  IN  IF words = << >> THEN All ELSE IF phrase THEN WithPhrases(Text, words) ELSE WithWords(Text, words)

Job(ends, arpa, lines) ==
  LET n == ends[Len(ends)]
  IN  [ends |-> ends, arpa |-> arpa,
       verdict |-> [l \in 1 .. n |-> IF arpa THEN VocabMultiple(Vocabs, lines[l]) ELSE PhraseMultiple(Phrases, lines[l])],
       wanted |-> [l \in 1 .. n |-> Meant(~arpa, lines[l])]]

\* In the ARPA file a partial batch ends order 1 and the open one of order 2 is
\* empty; the count files, which have one section, are full batches.
MCJobs == {Job(<<13, 17>>, TRUE, ArpaLines)} \cup {Job(<<4>>, FALSE, lines) : lines \in CountFiles}
\* They keep clear of what the filter gets wrong.
ASSUME MCJobsKeepClear == \A j \in MCJobs : NoneDropped(j) /\ NoneMistaken(j)

MCFullBatch == {Job(<<2, 3>>, TRUE, ArpaLines)}   \* a full batch ends order 1
MCPartialRaw == {Job(<<3>>, FALSE, lines) : lines \in CountFiles}
=============================================================================
