----------------------------- MODULE MCSentences ----------------------------
(***************************************************************************)
(* Phrase tables whose offsets and whose words outgrow their hash tables,  *)
(* under hash functions that put several keys on one place and over the    *)
(* end; sentences with known, unknown and repeated words.                  *)
(***************************************************************************)
EXTENDS Sentences

Digit(n) == <<"0", "1", "2", "3">>[n + 1]
Pair(s, t) == [source |-> s, target |-> t, dense |-> <<Digit(Len(s)), Digit(Len(t))>>]

\* Ten source phrases, the last one of a single word; two that have two rows.
Long ==
  <<Pair(<<"a">>, <<"x">>), Pair(<<"a">>, <<"x", "y">>), Pair(<<"b">>, <<"y">>),
    Pair(<<"a", "b">>, <<"z", "x">>), Pair(<<"b", "a">>, << >>), Pair(<<"a", "a">>, <<"y", "y">>),
    Pair(<<"a", "b", "a">>, <<"z">>), Pair(<<"b", "b">>, <<"x">>), Pair(<<"a", "c">>, <<"x">>),
    Pair(<<"a", "c">>, <<"z", "z", "z">>), Pair(<<"c", "a">>, <<"a">>), Pair(<<"c">>, <<"b">>)>>
Short == <<Pair(<<"a", "b">>, <<"x">>), Pair(<<"b">>, <<"y", "x">>), Pair(<<"b">>, <<"y">>)>>
Bad == <<Pair(<<"b">>, <<"x">>), Pair(<<"a">>, <<"y">>), [Pair(<<"a">>, <<"x">>) EXCEPT !.dense = <<"1">>]>>

\* As files: lines that end in newlines, or in returns and newlines; the last one may
\* lack its end.  Compressed in two parts, one of which ends within a line.
Text(r, features) ==
  r.source \o <<"|||">> \o r.target \o (IF features THEN <<"|||">> \o r.dense ELSE << >>)
Lines(rows, features, ending) ==
  FlattenSeq([i \in DOMAIN rows |-> Text(rows[i], features) \o ending])
Compress(cells) == <<Packed>> \o cells \o <<Unpacked>>
Torn(cells, n) == Compress(SubSeq(cells, 1, n)) \o SubSeq(cells, n + 1, Len(cells))
InParts(cells, n) == Compress(SubSeq(cells, 1, n)) \o Compress(SubSeq(cells, n + 1, Len(cells)))

\* A file that is not read from its beginning, a pipe, compressed ones, one of which has
\* a line that is not; one with a line that lacks a field.
MCTexts ==
  {[rows |-> Long, dense |-> TRUE, pipe |-> FALSE, start |-> 3,
    bytes |-> <<"x", "|||", Newline>> \o Front(Lines(Long, TRUE, <<Newline>>))],
   [rows |-> Short, dense |-> FALSE, pipe |-> TRUE, start |-> 0,
    bytes |-> Lines(Short, FALSE, <<Return, Newline>>)],
   [rows |-> Short, dense |-> FALSE, pipe |-> TRUE, start |-> 0,
    bytes |-> InParts(Lines(Short, FALSE, <<Newline>>), 6)],
   [rows |-> Short, dense |-> FALSE, pipe |-> FALSE, start |-> 0,
    bytes |-> Torn(Lines(Short, FALSE, <<Newline>>), 8)],
   [rows |-> Bad, dense |-> TRUE, pipe |-> FALSE, start |-> 0,
    bytes |-> InParts(Lines(Bad, TRUE, <<Newline>>), 8)],
   [rows |-> Short, dense |-> FALSE, pipe |-> FALSE, start |-> 0,
    bytes |-> Lines(Short, FALSE, <<Newline>>) \o <<"b", Newline>>]}

Words == <<"<unk>", "<s>", "</s>", "a", "b", "c", "x", "y", "z", "u", "v">>
MCSeeds == (0..3) \X (0..3)
Scatter(s, n) == ((s[1] + 1) * n * n + s[2] * n + s[1] + 5) % 32
MCWordHash(s, w) == Scatter(s, CHOOSE i \in DOMAIN Words : Words[i] = w)
MCPhraseHash(s, ks) == FoldLeft(LAMBDA h, k : Scatter(s, h + 3 * k), 0, ks)

\* A bucket for each phrase; all in one.
MCSameBucket(p, q) == p = q
MCOneBucket(p, q) == TRUE

MCInputs == {<<"a", "b", "a">>, <<"u", "a">>, <<"v", "a", "u", "v">>, <<"c", "<unk>">>, << >>}
=============================================================================
