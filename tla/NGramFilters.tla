----------------------------- MODULE NGramFilters -----------------------------
(***************************************************************************)
(* The filters of lm/filter: what vocab.{hh,cc}, phrase.{hh,cc} and        *)
(* util/multi_intersection.hh decide about one n-gram, given the sentences *)
(* of the systems.  A filter sends an n-gram to every system (All) or to a *)
(* set of them.  The hash of a sequence of words is the sequence: where    *)
(* two sequences collide the phrase filter lets more pass (phrase.hh).     *)
(***************************************************************************)
EXTENDS Integers, Sequences, SequencesExt

CONSTANT All

IsTag(word) == word \in {"<s>", "</s>", "<unk>"}

\* ReadMultiple: a line of tab-separated phrases is a sentence; what is empty
\* does not count, not even as a number.
Sentences(lines) ==
  SelectSeq([i \in DOMAIN lines |-> SelectSeq(lines[i], LAMBDA phrase : phrase # << >>)],
            LAMBDA line : line # << >>)

\* AppendSentence: the sentences of a posting increase.
Posted(posting, id) ==
  IF posting = << >> \/ Last(posting) # id THEN Append(posting, id) ELSE posting

At(table, key, default) == IF key \in DOMAIN table THEN table[key] ELSE default

OverSentences(Add(_, _, _), sentences) ==
  FoldLeft(LAMBDA t, i : FoldLeft(LAMBDA u, item : Add(u, i - 1, item), t, sentences[i]),
           << >>, [i \in DOMAIN sentences |-> i])

\* std::lower_bound
From(posting, id) == SelectSeq(posting, LAMBDA s : s >= id)

-------------------------------------------------------------------------------
(* vocab::Multiple                                                         *)

AddWord(table, id, word) ==
  [w \in DOMAIN table \cup {word} |->
     IF w = word THEN Posted(At(table, w, << >>), id) ELSE table[w]]

Vocabulary(lines) ==
  OverSentences(AddWord, [i \in DOMAIN Sentences(lines) |-> FlattenSeq(Sentences(lines)[i])])

\* FirstIntersectionSorted from the set at i on: the sets as they are left,
\* the first empty if there is no common element.
RECURSIVE Aligned(_, _, _)
Aligned(sets, highest, i) ==
  IF i > Len(sets) THEN sets
  ELSE LET moved == [sets EXCEPT ![i] = From(@, highest)]
       IN  IF moved[i] = << >> THEN [moved EXCEPT ![1] = << >>]
           ELSE IF Head(moved[i]) > highest THEN Aligned(moved, Head(moved[i]), 1)
           ELSE Aligned(moved, highest, i + 1)

RECURSIVE AllIntersection(_)
AllIntersection(sets) ==
  IF sets[1] = << >> THEN << >>
  ELSE LET first == Aligned(sets, Head(sets[1]), 1)
       IN  IF first[1] = << >> THEN << >>
           ELSE <<Head(first[1])>> \o AllIntersection([first EXCEPT ![1] = Tail(@)])

VocabMultiple(vocabs, ngram) ==
  LET words == SelectSeq(ngram, LAMBDA w : ~IsTag(w))
      sets == SortSeq([i \in DOMAIN words |-> At(vocabs, words[i], << >>)],
                      LAMBDA s, t : Len(s) < Len(t))
  IN  IF words = << >> THEN All
      ELSE IF \E i \in DOMAIN words : words[i] \notin DOMAIN vocabs THEN {}
      ELSE ToSet(AllIntersection(sets))

-------------------------------------------------------------------------------
(* phrase::Substrings                                                      *)

Nowhere == [substring |-> << >>, left |-> << >>, right |-> << >>, phrase |-> << >>]

AddPhrase(table, id, phrase) ==
  LET pieces == {SubSeq(phrase, i, j) : i, j \in DOMAIN phrase} \ {<< >>}
      When(holds, posting) == IF holds THEN Posted(posting, id) ELSE posting
      Related(key, old) ==
        [substring |-> When(key \in pieces, old.substring),
         left |-> When(key \in pieces /\ IsPrefix(key, phrase), old.left),
         right |-> When(key \in pieces /\ IsSuffix(key, phrase), old.right),
         phrase |-> When(key = phrase, old.phrase)]
  IN  [key \in DOMAIN table \cup pieces |-> Related(key, At(table, key, Nowhere))]

Substrings(lines) == OverSentences(AddPhrase, Sentences(lines))

(* BuildGraph: vertex k stands behind word k of the n-gram, 0 before it.   *)
(* An arc <<v, k>> is a phrase, or a part of one at the ends, for the      *)
(* words between, with the sentences that have it.                         *)

Words(hashes, arc) == SubSeq(hashes, arc[1] + 1, arc[2])

Arcs(table, hashes) ==
  {arc \in (0 .. Len(hashes)) \X (1 .. Len(hashes)) :
     arc[1] < arc[2] /\ \A k \in arc[1] + 1 .. arc[2] : Words(hashes, <<arc[1], k>>) \in DOMAIN table}

\* Mutant: any part of a phrase may stand at any end.
SentencesOfAnyPart(table, hashes, arc) == table[Words(hashes, arc)].substring

SentencesOf(table, hashes, arc) ==
  LET relation == table[Words(hashes, arc)]
      last == arc[2] = Len(hashes)
  IN  IF arc[1] = 0 THEN (IF last THEN relation.substring ELSE relation.right)
      ELSE IF last THEN relation.left ELSE relation.phrase

BuildGraph(table, hashes) ==
  LET rest == [arc \in Arcs(table, hashes) |-> SentencesOf(table, hashes, arc)]
  IN  [rest |-> rest,
       incoming |-> [v \in DOMAIN hashes |-> {arc \in DOMAIN rest : arc[2] = v /\ rest[arc] # << >>}],
       current |-> [v \in DOMAIN hashes |-> 0]]

(* The union over the arcs into a vertex of the intersections of each with *)
(* the vertex it comes from, moved on to the first sentence from "to" on.  *)

RECURSIVE VertexLowerBound(_, _, _)
ArcLowerBound(graph, arc, to) ==
  LET here == [graph EXCEPT !.rest[arc] = From(@, to)]
      from == arc[1]
  IN  IF from = 0 \/ here.rest[arc] = << >> THEN here
      ELSE IF Head(here.rest[arc]) > to THEN here
      ELSE LET below == VertexLowerBound(here, from, to)
           IN  IF below.incoming[from] = {} THEN [below EXCEPT !.rest[arc] = << >>]
               ELSE [below EXCEPT !.rest[arc] = From(@, below.current[from])]

VertexLowerBound(graph, v, to) ==
  IF graph.incoming[v] = {} THEN graph
  ELSE LET top == CHOOSE a \in graph.incoming[v] :
                    \A b \in graph.incoming[v] : Head(graph.rest[a]) <= Head(graph.rest[b])
           moved == ArcLowerBound([graph EXCEPT !.incoming[v] = @ \ {top}], top, to)
           kept == [moved EXCEPT !.incoming[v] = @ \cup {top}]
       IN  IF Head(graph.rest[top]) > to THEN [graph EXCEPT !.current[v] = Head(graph.rest[top])]
           ELSE IF moved.rest[top] = << >> THEN VertexLowerBound(moved, v, to)
           ELSE IF Head(moved.rest[top]) = to THEN [kept EXCEPT !.current[v] = to]
           ELSE VertexLowerBound(kept, v, to)

RECURSIVE Evaluate(_, _, _)
Evaluate(graph, last, lower) ==
  LET next == VertexLowerBound(graph, last, lower)
  IN  IF next.incoming[last] = {} THEN {}
      ELSE IF next.current[last] = lower THEN {lower} \cup Evaluate(next, last, lower + 1)
      ELSE Evaluate(next, last, next.current[last])

\* MakeHashes: a tag is skipped in front only, and </s> ends the n-gram.
MakeHashes(ngram) ==
  LET words == IF ngram # << >> /\ IsTag(Head(ngram)) THEN Tail(ngram) ELSE ngram
      ends == {i \in DOMAIN words : words[i] = "</s>"}
  IN  IF ends = {} THEN words
      ELSE SubSeq(words, 1, (CHOOSE i \in ends : \A j \in ends : i <= j) - 1)

PhraseMultiple(table, ngram) ==
  LET hashes == MakeHashes(ngram)
  IN  IF hashes = << >> THEN All ELSE Evaluate(BuildGraph(table, hashes), Len(hashes), 0)

===============================================================================
