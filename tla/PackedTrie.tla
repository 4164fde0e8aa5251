----------------------------- MODULE PackedTrie -----------------------------
(***************************************************************************)
(* The memory of a language model: lm::ngram::SortedVocabulary, and the    *)
(* arrays of lm::ngram::trie with their words, weights and pointers packed *)
(* into bits (util/bit_packing.hh), the pointers perhaps without their     *)
(* highest bits (ArrayBhiksha), the weights perhaps as numbers of bins     *)
(* (SeparatelyQuantize).                                                   *)
(***************************************************************************)
EXTENDS Integers, SequencesExt, FiniteSetsExt

CONSTANTS FloatBits,   \* of the magnitude of a float, 31
          TableCost,   \* the cost of an offset of ArrayBhiksha in bits, 64
          MaxHash      \* of a word

PackedAssumption == FloatBits \in 1..28 /\ TableCost \in Nat \ {0} /\ MaxHash \in Nat \ {0}
ASSUME PackedAssumption

(* Memory is the set of the bits that are one, by their addresses, and the *)
(* floats in the tables of the quantiser, by theirs in bytes.              *)
ZeroMemory == [ones |-> {}, centers |-> << >>]

RequiredBits(number) == Cardinality({i \in 0..30 : 2^i <= number})

OnesOf(at, value) == {at + i : i \in {j \in 0..(RequiredBits(value) - 1) : (value \div 2^j) % 2 = 1}}

\* WriteInt57 and WriteInt25 count on memory that is zero.
WriteInt(memory, at, value) == [memory EXCEPT !.ones = @ \cup OnesOf(at, value)]

\* A plain assignment, of a number of bytes.
Assign(memory, byte, size, value) ==
  [memory EXCEPT !.ones = (@ \ ((8 * byte)..(8 * (byte + size) - 1))) \cup OnesOf(8 * byte, value)]

ReadInt(memory, at, length) ==
  MapThenSumSet(LAMBDA i : 2^i, {i \in 0..(length - 1) : at + i \in memory.ones})
ReadBytes(memory, byte, size) == ReadInt(memory, 8 * byte, 8 * size)

\* Floats: the sign above the magnitude.  A backoff of zero is negative if
\* the n-gram is no context.
FloatCode(value, negative) ==
  (IF value < 0 THEN -value ELSE value) + (IF value < 0 \/ (value = 0 /\ negative) THEN 2^FloatBits ELSE 0)
Negative(code) == code >= 2^FloatBits
FloatOf(code) == IF Negative(code) THEN 2^FloatBits - code ELSE code
BackoffCode(entry) == FloatCode(entry.backoff, ~entry.extends)
BackoffOf(code) == [backoff |-> <<FloatOf(code), 1>>, extends |-> FloatOf(code) # 0 \/ ~Negative(code)]

(* Sizes in bytes, from the number of n-grams of each length and config:   *)
(* quant, array, probBits, backoffBits and pointerBits.                    *)
VocabSize(words) == 8 + 8 * words
BinsSize(bits) == 4 * 2^bits
QuantSize(order, config) ==
  IF config.quant
    THEN 8 + (order - 2) * (BinsSize(config.probBits) + BinsSize(config.backoffBits)) + BinsSize(config.probBits)
    ELSE 0
MiddleBits(config) == IF config.quant THEN config.probBits + config.backoffBits ELSE 2 * FloatBits + 1
LongestBits(config) == IF config.quant THEN config.probBits ELSE FloatBits

\* One more if <unk> is missing, and one for the last pointer.
UnigramSize(words) == 16 * (words + 2)

\* How many bits of the pointers go into the table: as many as pay.
ChopBits(pointers, maxNext, config) ==
  LET required == RequiredBits(maxNext)
      change(chop) == (maxNext \div 2^(required - chop)) * TableCost - pointers * chop
      chops == 0..Min({required, config.pointerBits})
  IN  Min({c \in chops : \A d \in chops : change(c) <= change(d)})
InlineBits(pointers, maxNext, config) ==
  RequiredBits(maxNext) - (IF config.array THEN ChopBits(pointers, maxNext, config) ELSE 0)
ArrayCount(pointers, maxNext, config) == maxNext \div 2^InlineBits(pointers, maxNext, config) + 1
BhikshaSize(pointers, maxNext, config) ==
  IF config.array THEN 8 * (1 + ArrayCount(pointers, maxNext, config)) + 7 ELSE 0

\* With room for one more entry, for the last pointer, and for reading ahead.
BaseSize(entries, words, bits) == ((1 + entries) * (RequiredBits(words) + bits) + 7) \div 8 + 8

ArraySize(counts, config, n) ==
  IF n = Len(counts) THEN BaseSize(counts[n], counts[1], LongestBits(config))
  ELSE BhikshaSize(counts[n] + 1, counts[n + 1], config)
       + BaseSize(counts[n], counts[1],
                  MiddleBits(config) + InlineBits(counts[n] + 1, counts[n + 1], config))

UnigramsAt(counts, config) == QuantSize(Len(counts), config)
ArrayAt(counts, config, n) ==
  UnigramsAt(counts, config) + UnigramSize(counts[1])
  + MapThenSumSet(LAMBDA k : ArraySize(counts, config, k), 2..(n - 1))
SearchSize(counts, config) == ArrayAt(counts, config, Len(counts) + 1)

AlignTo8(byte) == 8 * ((byte + 7) \div 8)

\* The array of the n-grams of length n in the trie at a byte: its first bit
\* and how many there are in an entry, where its header and its offsets are.
Layout(at, counts, config, n) ==
  LET header == at + ArrayAt(counts, config, n)
      longest == n = Len(counts)
      pointers == counts[n] + 1
      word == RequiredBits(counts[1])
      weights == IF longest THEN LongestBits(config) ELSE MiddleBits(config)
      next == IF longest THEN 0 ELSE InlineBits(pointers, counts[n + 1], config)
  IN  [base |-> 8 * (header + (IF longest THEN 0 ELSE BhikshaSize(pointers, counts[n + 1], config))),
       word |-> word, weights |-> weights, next |-> next, total |-> word + weights + next,
       header |-> header, offsets |-> AlignTo8(header) + 8,
       offsetCount |-> IF longest THEN 0 ELSE ArrayCount(pointers, counts[n + 1], config),
       config |-> config, length |-> n, longest |-> longest, maxWord |-> counts[1]]

(* The quantiser.  A center is a fraction; minus infinity has no bound.    *)
MinusInfinity == <<-1, 0>>
Below(center, value) == center[1] < value * center[2]

\* Bins of equally many of the sorted values; an empty one is like the last.
MakeBins(values, bins) ==
  LET sorted == SortSeq(values, <)
      end(i) == (Len(sorted) * i) \div bins
      bin(i) == SubSeq(sorted, end(i) + 1, end(i + 1))
      center(b) == <<FoldLeft(+, 0, b), Len(b)>>
  IN  [i \in 0..(bins - 1) |->
         LET full == {j \in 0..i : bin(j) # << >>}
         IN  IF full = {} THEN MinusInfinity ELSE center(bin(Max(full)))]

\* SetupMemory: two tables for every length but the longest, which has one.
ProbTable(at, config, n) == at + 8 + (n - 2) * (BinsSize(config.probBits) + BinsSize(config.backoffBits))
BackoffTable(at, config, n) == ProbTable(at, config, n) + BinsSize(config.probBits)

Table(at, centers) == [a \in {at + 4 * i : i \in DOMAIN centers} |-> centers[(a - at) \div 4]]

TrainProb(memory, at, config, n, probs) ==
  [memory EXCEPT !.centers = Table(ProbTable(at, config, n), MakeBins(probs, 2^config.probBits)) @@ @]

\* The first two backoffs are the zeros, with and without an extension.
Reserved == 2
TrainBackoff(memory, at, config, n, backoffs) ==
  [memory EXCEPT !.centers =
     Table(BackoffTable(at, config, n) + 4 * Reserved, MakeBins(backoffs, 2^config.backoffBits - Reserved)) @@ @]

\* Encode: the nearest of the centers from reserved on.
Encode(memory, table, bits, reserved, value) ==
  LET center(i) == memory.centers[table + 4 * i]
      notBelow == {i \in reserved..(2^bits - 1) : ~Below(center(i), value)}
      above == Min(notBelow)
      nearerBelow == LET low == center(above - 1) high == center(above)
                     IN  2 * value * low[2] * high[2] < low[1] * high[2] + high[1] * low[2]
  IN  IF notBelow = {} THEN 2^bits - 1
      ELSE IF above = reserved THEN reserved
      ELSE IF nearerBelow THEN above - 1 ELSE above

EncodeBackoff(memory, table, bits, entry) ==
  IF entry.backoff = 0 THEN (IF entry.extends THEN 1 ELSE 0) ELSE Encode(memory, table, bits, Reserved, entry.backoff)

DecodeBackoff(memory, table, code) ==
  IF code < Reserved THEN [backoff |-> <<0, 1>>, extends |-> code = 1]
  ELSE [backoff |-> memory.centers[table + 4 * code], extends |-> TRUE]

(* Reading and writing entries; a trie is [at, counts, config].            *)
LayoutOf(trie, n) == Layout(trie.at, trie.counts, trie.config, n)
ProbsOf(trie, n) == ProbTable(trie.at, trie.config, n)
BackoffsOf(trie, n) == BackoffTable(trie.at, trie.config, n)

\* MiddlePointer::Write and LongestPointer::Write, quantised or not.
WriteWeights(memory, trie, n, at, entry) ==
  LET config == trie.config
      longest == n = Len(trie.counts)
      prob == Encode(memory, ProbsOf(trie, n), config.probBits, 0, entry.prob)
  IN  IF ~config.quant THEN
        LET withProb == WriteInt(memory, at, -entry.prob)
        IN  IF longest THEN withProb ELSE WriteInt(withProb, at + FloatBits, BackoffCode(entry))
      ELSE IF longest THEN WriteInt(memory, at, prob)
      ELSE WriteInt(memory, at, prob * 2^config.backoffBits
                                + EncodeBackoff(memory, BackoffsOf(trie, n), config.backoffBits, entry))

ReadWeights(memory, trie, n, at) ==
  LET config == trie.config
      longest == n = Len(trie.counts)
      probAt == IF longest THEN at ELSE at + config.backoffBits
      prob == IF config.quant
                THEN memory.centers[ProbsOf(trie, n) + 4 * ReadInt(memory, probAt, config.probBits)]
                ELSE <<-ReadInt(memory, at, FloatBits), 1>>
      backoff == IF longest THEN [backoff |-> <<0, 1>>, extends |-> FALSE]
                 ELSE IF config.quant
                   THEN DecodeBackoff(memory, BackoffsOf(trie, n), ReadInt(memory, at, config.backoffBits))
                 ELSE BackoffOf(ReadInt(memory, at + FloatBits, FloatBits + 1))
  IN  [prob |-> prob] @@ backoff

\* Mutant: an offset names the entry behind.
WriteNextLate(memory, layout, writeTo, index, next) ==
  LET high == next \div 2^layout.next
      reached == writeTo..high
      store(m, i) == Assign(m, layout.offsets + 8 * i, 8, index + 1)
      at == layout.base + index * layout.total + layout.word + layout.weights
  IN  IF layout.config.array
        THEN [memory |-> WriteInt(FoldLeft(store, memory, SetToSortSeq(reached, <)), at, next % 2^layout.next),
              writeTo |-> writeTo + Cardinality(reached)]
        ELSE [memory |-> WriteInt(memory, at, next), writeTo |-> writeTo]

\* Offsets note at which entry the high bits of the pointers reach a number.
WriteNext(memory, layout, writeTo, index, next) ==
  LET high == next \div 2^layout.next
      reached == writeTo..high
      store(m, i) == Assign(m, layout.offsets + 8 * i, 8, index)
      at == layout.base + index * layout.total + layout.word + layout.weights
  IN  IF layout.config.array
        THEN [memory |-> WriteInt(FoldLeft(store, memory, SetToSortSeq(reached, <)), at, next % 2^layout.next),
              writeTo |-> writeTo + Cardinality(reached)]
        ELSE [memory |-> WriteInt(memory, at, next), writeTo |-> writeTo]

\* The entries that extend entry index: from its pointer to that of the next.
ReadPointers(memory, layout, index) ==
  LET offset(i) == ReadBytes(memory, layout.offsets + 8 * i, 8)
      begin == Max({i \in 0..(layout.offsetCount - 1) : offset(i) <= index} \cup {0})
      end == Max({i \in begin..(layout.offsetCount - 1) : \A j \in (begin + 1)..i : offset(j) <= index + 1})
      pointer(entry, high) ==
        high * 2^layout.next + ReadInt(memory, layout.base + entry * layout.total + layout.word + layout.weights, layout.next)
  IN  IF layout.config.array THEN [begin |-> pointer(index, begin), end |-> pointer(index + 1, end)]
      ELSE [begin |-> pointer(index, 0), end |-> pointer(index + 1, 0)]

\* BitPackedMiddle::Insert and BitPackedLongest::Insert, with the weights.
InsertEntry(memory, trie, n, writeTo, index, word, entry, next) ==
  LET layout == LayoutOf(trie, n)
      at == layout.base + index * layout.total
      packed == WriteWeights(WriteInt(memory, at, word), trie, n, at + layout.word, entry)
  IN  IF layout.longest THEN [memory |-> packed, writeTo |-> writeTo]
      ELSE WriteNext(packed, layout, writeTo, index, next)

\* ArrayBhiksha::FinishedLoading: the first offset, and the header.
FinishArray(memory, layout) ==
  IF layout.config.array
    THEN Assign(Assign(Assign(memory, layout.offsets, 8, 0), layout.header, 1, 0), layout.header + 1, 1, layout.config.pointerBits)
    ELSE memory

UnigramAt(trie, word) == trie.at + UnigramsAt(trie.counts, trie.config) + 16 * word
WriteUnigram(memory, trie, word, entry, next) ==
  LET at == UnigramAt(trie, word)
  IN  Assign(Assign(Assign(memory, at, 4, FloatCode(entry.prob, FALSE)), at + 4, 4, BackoffCode(entry)), at + 8, 8, next)

(* Searching sorted numbers: guess the place of a key from the numbers     *)
(* around it (util/sorted_uniform.hh).                                     *)
\* Where the difference of two 32-bit numbers goes, and of two 64-bit ones.
Pivot32(off, range, width) == (off * width) \div (range + 1)
Pivot64(off, range, width) == Min({(off * width) \div range, width - 1})

RECURSIVE BoundedFind(_, _, _, _, _, _, _)
BoundedFind(numbers, bits, before, beforeNumber, after, afterNumber, key) ==
  LET off == key - beforeNumber
      range == afterNumber - beforeNumber
      width == after - before - 1
      pivot == before + 1 + (IF bits = 32 THEN Pivot32(off, range, width) ELSE Pivot64(off, range, width))
      mid == numbers[pivot]
  IN  IF after - before <= 1 THEN {}
      ELSE IF mid < key THEN BoundedFind(numbers, bits, pivot, mid, after, afterNumber, key)
      ELSE IF mid > key THEN BoundedFind(numbers, bits, before, beforeNumber, pivot, mid, key)
      ELSE {pivot}

\* SortedVocabulary::Index: the place of the hash, and 0 for no word.
VocabCount(memory) == ReadBytes(memory, 0, 8)
WordIndex(memory, hash) ==
  LET hashes == [i \in 1..VocabCount(memory) |-> ReadBytes(memory, 8 * i, 8)]
      found == BoundedFind(hashes, 64, 0, 0, VocabCount(memory) + 1, MaxHash, hash)
  IN  IF found = {} THEN 0 ELSE CHOOSE i \in found : TRUE

FindPacked(memory, layout, node, word) ==
  LET words == [i \in node.begin..(node.end - 1) |-> ReadInt(memory, layout.base + i * layout.total, layout.word)]
  IN  BoundedFind(words, 32, node.begin - 1, 0, node.end, layout.maxWord, word)

\* What is found of an n-gram: its weights, and whether anything extends it
\* to the left.  Nothing below an empty node is looked up.
LookupUnigram(memory, trie, word) ==
  LET at == UnigramAt(trie, word)
      next(i) == ReadBytes(memory, at + 16 * i + 8, 8)
  IN  [prob |-> <<FloatOf(ReadBytes(memory, at, 4)), 1>>, node |-> [begin |-> next(0), end |-> next(1)]]
      @@ BackoffOf(ReadBytes(memory, at + 4, 4))

LookupIn(memory, trie, n, node, word) ==
  LET layout == LayoutOf(trie, n)
  IN  {[node |-> IF layout.longest THEN [begin |-> 0, end |-> 0] ELSE ReadPointers(memory, layout, i)]
       @@ ReadWeights(memory, trie, n, layout.base + i * layout.total + layout.word)
        : i \in IF node.begin = node.end THEN {} ELSE FindPacked(memory, layout, node, word)}

\* The empty set, or that of what is found for the words of key.
Lookup(memory, trie, key) ==
  FoldLeft(LAMBDA found, n : UNION {LookupIn(memory, trie, n, f.node, key[n]) : f \in found},
           {LookupUnigram(memory, trie, key[1])},
           [i \in 1..(Len(key) - 1) |-> i + 1])

\* TrieSearch::UpdateConfigFromBinary: bits as the file has them, or nothing
\* if the versions are not those of the code.
QuantVersion == 2
ConfigOf(memory, counts, config) ==
  LET at == VocabSize(counts[1])
      quantised == IF config.quant
                     THEN [config EXCEPT !.probBits = ReadBytes(memory, at + 1, 1), !.backoffBits = ReadBytes(memory, at + 2, 1)]
                     ELSE config
      header == at + ArrayAt(counts, quantised, 2)
      chopped == IF config.array /\ Len(counts) > 2
                   THEN [quantised EXCEPT !.pointerBits = ReadBytes(memory, header + 1, 1)] ELSE quantised
  IN  IF (config.quant /\ ReadBytes(memory, at, 1) # QuantVersion)
         \/ (config.array /\ Len(counts) > 2 /\ ReadBytes(memory, header, 1) # 0)
        THEN {} ELSE {chopped}
=============================================================================
