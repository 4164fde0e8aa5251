------------------------------ MODULE Counts -------------------------------
(***************************************************************************)
(* lm::builder::CorpusCount: the words of the corpus get numbers in the    *)
(* order they appear, and every n-gram of the full order is written with   *)
(* its count into the blocks of a chain.  Repeated n-grams are found by a  *)
(* hash table over the block that is being written, so an n-gram has one   *)
(* record in each block it appears in.                                     *)
(***************************************************************************)
EXTENDS NGram

CONSTANTS Configs      \* what a user may ask of the builder

\* A text is a sequence of lines of words; `only` is the list of words the
\* model is limited to, or empty; memory is in units of a word index.
ConfigAssumption ==
  \A c \in Configs :
    /\ c.order \in 1..3
    /\ c.text \in Seq(Seq(STRING)) /\ c.text # << >>
    /\ c.prune \in [1..c.order -> Nat]
    /\ \A k \in 2..c.order : c.prune[k - 1] <= c.prune[k]
    /\ c.only \subseteq STRING
    /\ c.block \in Nat \ {0}
    /\ c.buffer \in Nat /\ c.buffer >= TotalSize(c.order)
    /\ c.memory \in Nat /\ c.memory >= 4 * c.buffer
    /\ c.lazy \in Nat
    /\ c.interpolate \in BOOLEAN
ASSUME ConfigAssumption

VARIABLES config,      \* what this user asked for
          text,        \* the lines that are still to be read
          vocab,       \* vocab[i + 1]: the word with number i
          context,     \* the words before the next one, in gram_
          block,       \* the records of the block that is being written
          counted,     \* the blocks that have been sent down the chain
          counting     \* whether the worker is still running

countVars == <<config, text, vocab, context, block, counted, counting>>

Order == config.order

Index(words, w) == CHOOSE i \in 1..Len(words) : words[i] = w
FindOrInsert(w) == IF w \in Range(vocab) THEN vocab ELSE Append(vocab, w)

\* Mutant: the hash table outlives the block it points into.
DedupeForever(gram) ==
  IF \E i \in DOMAIN block : block[i].words = gram
    THEN /\ block' = [i \in DOMAIN block |->
                        IF block[i].words = gram THEN [block[i] EXCEPT !.count = @ + 1] ELSE block[i]]
         /\ UNCHANGED counted
    ELSE IF \E b \in DOMAIN counted : \E i \in DOMAIN counted[b] : counted[b][i].words = gram
    THEN UNCHANGED <<block, counted>>
    ELSE LET full == Append(block, Counted(gram, 1))
         IN  IF Len(full) = config.block
               THEN block' = << >> /\ counted' = Append(counted, full)
               ELSE block' = full /\ UNCHANGED counted

\* Writer::Append counts the n-gram in this block, or adds it to the block
\* and goes on to the next when it is full.
Count(gram) ==
  IF \E i \in DOMAIN block : block[i].words = gram
    THEN /\ block' = [i \in DOMAIN block |->
                        IF block[i].words = gram THEN [block[i] EXCEPT !.count = @ + 1] ELSE block[i]]
         /\ UNCHANGED counted
    ELSE LET full == Append(block, Counted(gram, 1))
         IN  IF Len(full) = config.block
               THEN block' = << >> /\ counted' = Append(counted, full)
               ELSE block' = full /\ UNCHANGED counted

\* StartSentence writes a context of <s>.
StartSentence == [i \in 1..(Order - 1) |-> BOS]

\* Unigrams have records for <unk> and <s>, which the text does not.
Specials == IF Order = 1 THEN <<Counted(<<UNK>>, 0), Counted(<<BOS>>, 0)>> ELSE << >>

CountInit ==
  /\ config \in Configs
  /\ text = config.text
  /\ vocab = <<"<unk>", "<s>", "</s>">>
  /\ context = StartSentence
  /\ LET blocks == Blocks(Specials, config.block)
         open == blocks # << >> /\ Len(Last(blocks)) < config.block
     IN  /\ block = IF open THEN Last(blocks) ELSE << >>
         /\ counted = IF open THEN Front(blocks) ELSE blocks
  /\ counting = TRUE

\* A special word in the text is taken for whitespace.
SkipWord ==
  /\ counting /\ text # << >> /\ text[1] # << >>
  /\ text[1][1] \in {"<unk>", "<s>", "</s>"}
  /\ text' = [text EXCEPT ![1] = Tail(@)]
  /\ UNCHANGED <<config, vocab, context, block, counted, counting>>

ReadWord ==
  /\ counting /\ text # << >> /\ text[1] # << >>
  /\ text[1][1] \notin {"<unk>", "<s>", "</s>"}
  /\ vocab' = FindOrInsert(text[1][1])
  /\ LET gram == Append(context, Index(vocab', text[1][1]) - 1)
     IN  /\ Count(gram)
         /\ context' = Tail(gram)
  /\ text' = [text EXCEPT ![1] = Tail(@)]
  /\ UNCHANGED <<config, counting>>

EndLine ==
  /\ counting /\ text # << >> /\ text[1] = << >>
  /\ Count(Append(context, EOS))
  /\ context' = StartSentence
  /\ text' = Tail(text)
  /\ UNCHANGED <<config, vocab, counting>>

\* ~Writer sends the open block, which may be empty.
EndText ==
  /\ counting /\ text = << >>
  /\ counted' = Append(counted, block)
  /\ block' = << >>
  /\ counting' = FALSE
  /\ UNCHANGED <<config, text, vocab, context>>

CountNext == SkipWord \/ ReadWord \/ EndLine \/ EndText

\* The words a user limited the model to; never without the special ones.
PruneWords ==
  IF config.only = {} THEN {}
  ELSE {i \in 0..(Len(vocab) - 1) : ~IsSpecial(i) /\ vocab[i + 1] \notin config.only}

(***************************************************************************)
(* lm::builder::AdjustCounts: reads the n-grams of the full order in       *)
(* suffix order and writes all lower orders with Kneser-Ney's adjusted     *)
(* counts, marking what is to be pruned; on the way it deletes, in the     *)
(* blocks of the full order, the n-grams with <s> in their second place.   *)
(***************************************************************************)

VARIABLES grams,       \* the blocks of the full order
          here,        \* <<block, record>>: the record that is being read
          copyFrom,    \* the last record of this block that may fill a gap
          lower,       \* lower[k]: the record of order k that is being counted
          actual,      \* actual[k]: how often it is in the text
          valid,       \* the longest order that has one
          written,     \* written[k]: the records of order k that are done
          stats        \* stats[k]: [n, count, pruned], n[c + 1] for count c

adjustVars == <<grams, here, copyFrom, lower, actual, valid, written, stats>>

NoStat == [n |-> [c \in 1..5 |-> 0], count |-> 0, pruned |-> 0]

\* StatCollector::Add; AddFull is the same for the full order.
Stat(s, count, pruned) ==
  [n |-> IF count < 5 THEN [s.n EXCEPT ![count + 1] = @ + 1] ELSE s.n,
   count |-> s.count + 1,
   pruned |-> IF pruned THEN s.pruned ELSE s.pruned + 1]

\* Mutant: only the last word is looked up.
HasPrunedLastWord(words) == Last(words) \in PruneWords

HasPrunedWord(words) == Range(words) \cap PruneWords # {}

\* What CollapseStream does to a record it reads.
MarkFull(gram) ==
  IF gram.count <= config.prune[Order] \/ HasPrunedWord(gram.words) THEN Mark(gram) ELSE gram

Deleted(gram) == gram.words[2] = BOS

\* UpdateCopyFrom: the last record before `from`, not before the one that
\* is being read, that stays.
UpdateCopyFrom(records, from, i) ==
  Max({i - 1} \cup {j \in i..(from - 1) : ~Deleted(records[j])})

\* StartBlock skips empty blocks; it marks the first record of the block.
NextBlock(b) == Min({c \in (b + 1)..Len(grams) : grams[c] # << >>} \cup {Len(grams) + 1})
EndOfGrams == here[1] > Len(grams)
Full == MarkFull(grams[here[1]][here[2]])

\* Mutant: a deleted record is overwritten by the last record of the block
\* even when that is to be deleted, too.
CollapseWithLast(records, i, from) ==
  IF Deleted(records[i]) /\ i < Len(records)
    THEN [records EXCEPT ![i] = MarkFull(records[Len(records)])] ELSE records

\* operator++ first fills the place of a deleted record.
Collapsed(records, i, from) ==
  IF Deleted(records[i]) /\ i < from THEN [records EXCEPT ![i] = MarkFull(records[from])]
  ELSE records

\* CollapseStream::operator++: at the end of the block its size is cut.
StepFull ==
  LET b == here[1]
      i == here[2]
      records == Collapsed([grams[b] EXCEPT ![i] = Full], i, copyFrom)
      from == IF Deleted(Full) /\ i < copyFrom THEN UpdateCopyFrom(records, copyFrom, i) ELSE copyFrom
      next == NextBlock(b)
  IN  IF i < Len(records)
        THEN /\ grams' = [grams EXCEPT ![b] = records]
             /\ here' = <<b, i + 1>> /\ copyFrom' = from
        ELSE /\ grams' = [grams EXCEPT ![b] = SubSeq(records, 1, from)]
             /\ here' = <<next, 1>>
             /\ copyFrom' = IF next > Len(grams) THEN 0
                            ELSE UpdateCopyFrom(grams[next], Len(grams[next]) + 1, 1)

\* How many last words of the full n-gram the longest lower one shares.
SameWords(full, low) ==
  Max({k \in 0..Len(low) : \A j \in 1..k : full[Len(full) + 1 - j] = low[Len(low) + 1 - j]})

\* Mutant: lower orders are pruned by their adjusted counts.
MarkLowerByAdjusted(k) ==
  IF lower[k].count <= config.prune[k] \/ HasPrunedWord(lower[k].words) THEN Mark(lower[k]) ELSE lower[k]

\* A lower order is marked for its actual count or for a pruned word.
MarkLower(k) ==
  IF actual[k] <= config.prune[k] \/ HasPrunedWord(lower[k].words) THEN Mark(lower[k]) ELSE lower[k]

\* <unk> goes out at once with count 0; <s> waits, and is never pruned.
AdjustStart(blocks) ==
  LET next == Min({c \in 1..Len(blocks) : blocks[c] # << >>} \cup {Len(blocks) + 1})
  IN  /\ grams' = blocks
      /\ here' = <<next, 1>>
      /\ copyFrom' = IF next > Len(blocks) THEN 0
                     ELSE UpdateCopyFrom(blocks[next], Len(blocks[next]) + 1, 1)
      /\ lower' = [k \in 1..(Order - 1) |-> IF k = 1 THEN Counted(<<BOS>>, 0) ELSE Counted(<< >>, 0)]
      /\ actual' = [k \in 1..(Order - 1) |-> IF k = 1 THEN MarkBit ELSE 0]
      /\ valid' = 1
      /\ written' = [k \in 1..(Order - 1) |-> IF k = 1 THEN <<Counted(<<UNK>>, 0)>> ELSE << >>]
      /\ stats' = [k \in 1..Order |-> IF k = 1 THEN Stat(NoStat, 0, FALSE) ELSE NoStat]

\* STEP 3: n-grams that are new, down to the first that begins with <s>:
\* that one has the full count, for nothing extends it.
Initial(full, same) ==
  LET at(k) == SubSeq(full.words, Order - k + 1, Order)
      last == Max({k \in (same + 1)..(Order - 1) : \A j \in (same + 1)..(k - 1) : at(j)[1] # BOS} \cup {same})
  IN  [k \in (same + 1)..last |-> Counted(at(k), IF at(k)[1] = BOS THEN full.count ELSE 1)]

\* One turn of the loop over the full order, in its three steps.
AdjustGram ==
  /\ ~EndOfGrams
  /\ LET full == Full
         same == SameWords(full.words, lower[valid].words)
         done == (same + 1)..valid                       \* STEP 1
         new == Initial(full, same)
         inner == \E k \in DOMAIN new : new[k].words[1] = BOS   \* <s> beyond the 0th word
     IN  /\ written' = [k \in DOMAIN written |->
                          IF k \in done THEN Append(written[k], MarkLower(k)) ELSE written[k]]
         /\ lower' = [k \in DOMAIN lower |->
                        IF k \in DOMAIN new THEN new[k]
                        ELSE IF k = same THEN [lower[k] EXCEPT !.count = @ + 1]   \* STEP 2
                        ELSE lower[k]]
         /\ actual' = [k \in DOMAIN actual |->
                         IF k <= same THEN actual[k] + full.count
                         ELSE IF k \in DOMAIN new THEN full.count ELSE actual[k]]
         /\ valid' = Max({same} \cup DOMAIN new)
         /\ stats' = [k \in DOMAIN stats |->
                        IF k = Order
                          THEN IF inner THEN stats[k] ELSE Stat(stats[k], full.count, full.marked)
                        ELSE IF k \in done
                          THEN Stat(stats[k], lower[k].count, MarkLower(k).marked)
                        ELSE stats[k]]
  /\ StepFull

\* The last n-gram of every order.  Its statistics get the actual count.
AdjustEnd ==
  /\ EndOfGrams
  /\ written' = [k \in DOMAIN written |->
                   IF k <= valid THEN Append(written[k], MarkLower(k)) ELSE written[k]]
  /\ stats' = [k \in DOMAIN stats |->
                 IF k <= valid THEN Stat(stats[k], actual[k], MarkLower(k).marked) ELSE stats[k]]
  /\ UNCHANGED <<grams, here, copyFrom, lower, actual, valid>>

\* Only unigrams: statistics, and marks for all but the special words.
AdjustUnigrams(records) ==
  LET marked == [i \in DOMAIN records |->
                   IF ~IsSpecial(records[i].words[1])
                        /\ (records[i].count <= config.prune[1] \/ HasPrunedWord(records[i].words))
                     THEN Mark(records[i]) ELSE records[i]]
  IN  /\ grams' = <<marked>>
      /\ stats' = <<FoldLeft(LAMBDA s, g : Stat(s, g.count, g.marked), NoStat, marked)>>

(* CalculateDiscounts: the discount of counts 1, 2 and 3 or more, or the   *)
(* user's fallback where the closed form has no or no sensible value.      *)
Amount(s, j) ==
  Minus(Whole(j), Times(Over((j + 1) * s.n[2], s.n[2] + 2 * s.n[3]), Over(s.n[j + 2], s.n[j + 1])))
ClosedForm(s) ==
  /\ \A j \in 1..3 : s.n[j + 1] # 0
  /\ \A j \in 1..3 : AtMost(Whole(0), Amount(s, j)) /\ AtMost(Amount(s, j), Whole(j))
Discount(s) == IF ClosedForm(s) THEN [j \in 1..3 |-> Amount(s, j)] ELSE config.fallback

\* Discount::Get and Apply.
Get(discount, count) == IF count = 0 THEN Whole(0) ELSE discount[Min({count, 3})]
Apply(discount, count) == Minus(Whole(count), Get(discount, count))
=============================================================================
