---------------------------- MODULE MCModelFile ----------------------------
(***************************************************************************)
(* Small texts for ModelFile, good ones and damaged ones.                  *)
(***************************************************************************)
EXTENDS ModelFile

MCUnknownProb == -50
\* <unk>, <s>, </s> and words that are not in the order of their hashes; the
\* last is in no model.
MCHash == (0 :> 25) @@ (1 :> 20) @@ (2 :> 5) @@ (3 :> 9) @@ (4 :> 30) @@ (5 :> 14) @@ (6 :> 6)

Mix(key) == FoldLeft(LAMBDA h, w : (h * 31 + 7 * w + 3) % 211, 5, key)
Weighted(key, keys) ==
  [key |-> key, prob |-> -(Mix(key) % 12),
   backoff |-> IF \E longer \in keys : Tail(longer) = key THEN ((Mix(key) \div 3) % 5) - 2 ELSE 0]
GramsIn(line, n) == {Reverse(SubSeq(line, i - n + 1, i)) : i \in n..Len(line)}
InFileOrder(a, b) ==
  \/ Len(a) < Len(b)
  \/ Len(a) = Len(b) /\ \E i \in DOMAIN a : a[i] < b[i] /\ SubSeq(a, 1, i - 1) = SubSeq(b, 1, i - 1)
Model(texts, order, pruned) ==
  LET keys == UNION {GramsIn(l, n) : l \in texts, n \in 1..order} \ pruned
      weighted == FoldSet(LAMBDA k, so : Append(so, Weighted(k, keys)), << >>, keys)
  IN  [order |-> order, rest |-> "none", batch |-> 3, search |-> "trie", known |-> <<0>> \in keys,
       grams |-> SortSeq(weighted, LAMBDA g, h : InFileOrder(g.key, h.key))]

Bigrams == Model({<<1, 3, 4, 2>>, <<0>>}, 2, {})
\* "4 3" is in no line of the text, but "3 4 3" is.
Trigrams == Model({<<1, 3, 3, 4, 3>>, <<1, 4, 2>>, <<0>>}, 3, {<<3, 4>>})
NoUnknown == Model({<<1, 5, 4, 3, 2>>}, 3, {})
Longer == Model({<<1, 3, 3, 4, 5, 2>>, <<1, 4, 3, 5>>}, 4, {<<5, 3, 4>>})
\* "3 4 </s>" is in the text without its context.
Orphan == Model({<<1, 3, 4, 2>>}, 3, {<<4, 3>>})
MCModels == {Bigrams, Trigrams, NoUnknown, Longer, Orphan}

Config(quant, array, probBits, backoffBits, pointerBits) ==
  [quant |-> quant, array |-> array, probBits |-> probBits, backoffBits |-> backoffBits, pointerBits |-> pointerBits]
Plain == Config(FALSE, FALSE, 0, 0, 0)
Configs ==
  {Plain, Config(FALSE, TRUE, 0, 0, 3), Config(FALSE, TRUE, 0, 0, 1), Config(TRUE, FALSE, 2, 2, 0), Config(TRUE, TRUE, 4, 3, 2)}

Job(model, text, good, config, after, words) ==
  [model |-> model, text |-> text, good |-> good, config |-> config, after |-> after, words |-> words,
   positive |-> "throw", unknown |-> "accept", batch |-> 3]
GoodJobs ==
  {Job(m, PrintARPA(m), TRUE, c, way[1], way[2]) :
     m \in MCModels \ {Orphan}, c \in Configs, way \in {<<FALSE, TRUE>>, <<TRUE, TRUE>>, <<FALSE, FALSE>>, <<TRUE, FALSE>>}}

(* Texts as people edit them.                                              *)
Text == PrintARPA(NoUnknown)
At(kind, length) ==
  Min({i \in DOMAIN Text : Text[i].kind = kind
         /\ (IF kind = "gram" THEN Len(Text[i].words) ELSE Text[i].length) = length})
Put(i, line) == InsertAt(Text, i, line)
Comment == [kind |-> "comment"]
Other == [kind |-> "other"]
NoBackoff == Min({i \in DOMAIN Text : Text[i].kind = "gram" /\ Text[i].backoff = <<0>>})
Gram(n) == At("gram", n)

Spaced == {Put(1, Comment), Put(1, Blank), Append(Text, Blank), Put(At("header", 2), Blank), Put(Gram(2), Blank),
           [Text EXCEPT ![Gram(3)].backoff = <<0>>], [Text EXCEPT ![NoBackoff].backoff = << >>]}
Damaged ==
  {SubSeq(Text, 1, n) : n \in {0, 1, 2, At("header", 1), Gram(2), Len(Text) - 1}}
  \cup {RemoveAt(Text, i) : i \in {1, At("count", 1), At("count", 3), 5, At("header", 2), Gram(1), Gram(3)}}
  \cup {Put(i, Other) : i \in {1, At("header", 1), Gram(2), Len(Text) + 1}}
  \cup {Put(Gram(2), Comment), Append(Text, Blank) \o <<Other>>}
  \cup {[Text EXCEPT ![At("count", 1)].number = n] : n \in {4, 6}}
  \cup {[Text EXCEPT ![At("count", 3)].number = n] : n \in {2, 4}}
  \cup {[Text EXCEPT ![Gram(2)].words[2] = 6], [Text EXCEPT ![Gram(3)].backoff = <<-1>>], [Text EXCEPT ![Gram(1)].prob = 1]}
MissingMark == [Text EXCEPT ![Gram(1)].words[1] = 6]

TextJobs ==
  {Job(NoUnknown, t, TRUE, Plain, FALSE, TRUE) : t \in Spaced}
  \cup {Job(NoUnknown, t, FALSE, Plain, FALSE, TRUE) : t \in Damaged \cup {MissingMark}}
  \cup {Job(Orphan, PrintARPA(Orphan), FALSE, Plain, FALSE, FALSE),
        [Job(NoUnknown, Text, FALSE, Plain, TRUE, FALSE) EXCEPT !.unknown = "throw"],
        [Job(Bigrams, PrintARPA(Bigrams), TRUE, Plain, TRUE, FALSE) EXCEPT !.unknown = "throw"]}

MCJobs == GoodJobs \cup TextJobs
MCFaults == {"kill", "lose", "cut"}
=============================================================================
