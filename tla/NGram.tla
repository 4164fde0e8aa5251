------------------------------- MODULE NGram -------------------------------
(***************************************************************************)
(* What the language model builder counts, sorts and scores: n-grams of    *)
(* word numbers, with a count while they are counted (lm/common and        *)
(* lm/builder/payload.hh).  A record of a file is [words, count, marked];  *)
(* the mark is the top bit of the count.                                   *)
(***************************************************************************)
EXTENDS Integers, SequencesExt, FiniteSetsExt

UNK == 0
BOS == 1
EOS == 2
IsSpecial(word) == word \in {UNK, BOS, EOS}

\* Sizes are in units of a word index: the words, and two for the payload.
TotalSize(order) == order + 2

\* The context of an n-gram, and the n-gram its probability falls back to.
Context(words) == Front(words)
Lower(words) == Tail(words)

\* SuffixOrder compares the last word first.
SuffixLess(a, b) ==
  \E i \in DOMAIN a : a[i] < b[i] /\ \A j \in (i + 1)..Len(a) : a[j] = b[j]

\* ContextOrder compares the last word of the context first, and the last
\* word of the n-gram last.
ContextLess(a, b) ==
  \/ SuffixLess(Front(a), Front(b))
  \/ Front(a) = Front(b) /\ Last(a) < Last(b)

\* The comparison a sort is given.
Less(compare, a, b) == IF compare = "suffix" THEN SuffixLess(a, b) ELSE ContextLess(a, b)

Counted(words, count) == [words |-> words, count |-> count, marked |-> FALSE]
Mark(gram) == [gram EXCEPT !.marked = TRUE]

\* What a reader of the count sees who does not take the mark away: the mark
\* is worth more than any count.
MarkBit == 1000000
CutoffCount(gram) == IF gram.marked THEN 0 ELSE gram.count
RawCount(gram) == IF gram.marked THEN MarkBit + gram.count ELSE gram.count

\* Sum counts for the same n-gram.
CombineCounts(first, second) == [first EXCEPT !.count = @ + second.count]

\* A stream of records as the chain carries it: in blocks, all full but the last.
RECURSIVE Blocks(_, _)
Blocks(records, size) ==
  IF records = << >> THEN << >>
  ELSE <<SubSeq(records, 1, Min({size, Len(records)}))>>
         \o Blocks(SubSeq(records, size + 1, Len(records)), size)

Flat(blocks) == FlattenSeq(blocks)

------------------------------------------------------------------------------
\* Fractions [n, d] in lowest terms with d > 0, for probabilities that have to add
\* up to one exactly.

RECURSIVE GCD(_, _)
LOCAL Abs(n) == IF n < 0 THEN -n ELSE n
GCD(a, b) == IF b = 0 THEN a ELSE GCD(b, a % b)

Over(n, d) == LET g == GCD(Abs(n), d) IN [n |-> n \div g, d |-> d \div g]
Whole(n) == [n |-> n, d |-> 1]
Plus(p, q) == LET g == GCD(p.d, q.d)
              IN  Over(p.n * (q.d \div g) + q.n * (p.d \div g), p.d * (q.d \div g))
Minus(p, q) == Plus(p, [q EXCEPT !.n = -@])
Times(p, q) == LET a == Over(p.n, q.d)
                   b == Over(q.n, p.d)
               IN  Over(a.n * b.n, a.d * b.d)
Divide(p, n) == Times(p, Over(1, n))
Quotient(p, q) == Times(p, [n |-> q.d, d |-> q.n])
AtMost(p, q) == p.n * q.d <= q.n * p.d
SumOver(f(_), S) == MapThenFoldSet(Plus, Whole(0), f, LAMBDA T : CHOOSE x \in T : TRUE, S)
==============================================================================
