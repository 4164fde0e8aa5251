---------------------------- MODULE MCInterpolate ----------------------------
(***************************************************************************)
(* Pairs of small models, estimated from a few sentences each.             *)
(***************************************************************************)
EXTENDS Interpolate

CONSTANT Orders        \* the order of each model

\* The words in the order of their hashes.
a == 1
MCBos == 2
b == 3
Eos == 4

Sentences == {<<a>>, <<b, a>>, <<a, b, b>>}
Corpora == SUBSET Sentences \ {{}}
Padded(sentence) == <<MCBos>> \o sentence \o <<Eos>>
Grams(k, corpus) ==
  UNION {{SubSeq(Padded(s), i, i + k - 1) : i \in 1..(Len(s) + 3 - k)} : s \in corpus}

\* As lmplz writes them: the context keeps a share for the lower order, and its
\* n-grams divide the rest.
Model(m, corpus, pruned) ==
  LET words == {MCBos, Eos} \cup UNION {Range(s) : s \in corpus}
      weight == [w \in 0..4 |-> IF w = MCBos THEN 0 ELSE <<1, 1, 0, 2, 4, 1, 2, 0, 1, 1>>[5 * (m - 1) + w + 1]]
      total == MapThenSumSet(LAMBDA w : weight[w], words \cup {UNK})
      two == Grams(2, corpus)
      three == IF Orders[m] = 3 THEN Grams(3, corpus) \ pruned ELSE {}
      share(g, over) == IF \E h \in over : Front(h) = g THEN Over(1, 2 * m) ELSE Whole(1)
      uniform(g, over) == Divide(Minus(Whole(1), share(Front(g), over)),
                                 Cardinality({h \in over : Front(h) = Front(g)}))
      p1(w) == IF w = MCBos THEN Whole(1) ELSE Over(weight[w], total)
      p2(g) == Plus(uniform(g, two), Times(share(Front(g), two), p1(g[2])))
      p3(g) == Plus(uniform(g, three), Times(share(Front(g), three), p2(Tail(g))))
      entry(g) == [prob |-> IF Len(g) = 1 THEN p1(g[1]) ELSE IF Len(g) = 2 THEN p2(g) ELSE p3(g),
                   backoff |-> share(g, two \cup three)]
  IN  [order |-> Orders[m], words |-> words,
       grams |-> [g \in {<<w>> : w \in words \cup {UNK}} \cup two \cup three |-> entry(g)]]

\* One model may have lost its trigrams that do not end a sentence.
Pruned == {{}, {<<x, y, z>> : x, y, z \in {a, MCBos, b}}}
MCInputs == {<<Model(1, c, {}), Model(2, d, p)>> : c \in Corpora, d \in Corpora, p \in Pruned}
MCLambdas == <<2, 1>>
MCOrders == <<3, 3>>
MCOtherOrders == <<3, 2>>
=============================================================================
