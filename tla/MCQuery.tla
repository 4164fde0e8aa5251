------------------------------ MODULE MCQuery ------------------------------
(***************************************************************************)
(* Small models for Query.                                                 *)
(***************************************************************************)
EXTENDS Query

MCUnknownProb == -100

\* Weights that differ from n-gram to n-gram, with zero and positive backoffs;
\* an n-gram without any that has it as context has no backoff to charge.
Hash(key) == FoldLeft(LAMBDA h, w : (h * 31 + 7 * w + 3) % 211, 5, key)
Weighted(key, keys) ==
  [key |-> key, prob |-> -(Hash(key) % 50),
   backoff |-> IF \E longer \in keys : Tail(longer) = key THEN ((Hash(key) \div 3) % 5) - 2 ELSE 0]
GramsIn(line, n) == {Reverse(SubSeq(line, i - n + 1, i)) : i \in n..Len(line)}
InFileOrder(a, b) ==
  \/ Len(a) < Len(b)
  \/ Len(a) = Len(b) /\ \E i \in DOMAIN a : a[i] < b[i] /\ SubSeq(a, 1, i - 1) = SubSeq(b, 1, i - 1)

AllGrams(lines, order) ==
  UNION {GramsIn(l, n) : l \in lines, n \in 1..order}
File(keys, order, kind) ==
  [order |-> order, rest |-> IF kind = "max" THEN "max" ELSE "none", batch |-> 2,
   search |-> IF kind = "trie" THEN "trie" ELSE "probing", known |-> <<0>> \in keys,
   grams |-> [i \in 1..Cardinality(keys) |-> Weighted(CHOOSE k \in keys : Cardinality({j \in keys : InFileOrder(j, k)}) = i - 1, keys)]]
Pruned(keys, order, number) ==
  {keys \ r : r \in {s \in SUBSET {k \in keys : Len(k) \in 2..(order - 1)} : Cardinality(s) <= number}}
Files(lines, order, number, kinds) ==
  {File(k, order, r) : k \in Pruned(AllGrams(lines, order), order, number), r \in kinds}

\* In the fourth, an n-gram that extends to the left is no context (3 4), and
\* its last word starts one that extends to the left (4 3).
Kinds == {"none", "max", "trie"}
MCModels ==
  Files({<<1, 3, 3, 4, 3, 2>>, <<0>>}, 3, 2, Kinds)
  \cup Files({<<1, 3, 3, 3, 2>>, <<3, 3, 3, 3>>}, 4, 1, Kinds)
  \cup Files({<<1, 3, 3, 4, 3, 2>>}, 4, 1, Kinds)
  \cup Files({<<1, 3, 3, 4>>, <<4, 4, 3, 2>>}, 3, 1, Kinds)
  \cup Files({<<1, 3, 3, 4, 2>>}, 4, 2, {"none"})

\* A blank (3 4) that is context of a blank (3 4 </s>), after all n-grams of
\* its length.
MCTrieModels == Files({<<1, 3, 3, 4, 2>>}, 4, 2, {"trie"})
=============================================================================
