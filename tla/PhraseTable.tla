---------------------------- MODULE PhraseTable ----------------------------
(***************************************************************************)
(* pt::CreateTable and pt::Table: a phrase table as text becomes a file of *)
(* regions that a decoder reads back.  The file starts with a size header  *)
(* that no reader accepts until Write replaces it.  A file is a sequence   *)
(* of cells, each a number, a word or an entry of a hash table; writes     *)
(* come one after the other and the program may die within any of them.    *)
(***************************************************************************)
EXTENDS FilePiece

(***************************************************************************)
(* util::ProbingHashTable with Power2Mod, and AutoProbing, which doubles   *)
(* it: linear probing, insertion and lookup only.  What the code keeps as  *)
(* a key is already a hash; here an entry has the hash and what was hashed *)
(* to it, and no two of those have the same hash in 64 bits.               *)
(***************************************************************************)
NoKey == << >>
Gap == [key |-> NoKey, hash |-> 0, value |-> 0]

RoundBuckets(from) == 2 ^ Min({k \in 0..from : 2 ^ k >= from})
\* Both users of Size ask for a fifth more than the entries.
Size(entries) == RoundBuckets(Max({entries + 1, (6 * entries) \div 5}))
NewTable(entries) ==
  [buckets |-> Size(entries), entries |-> 0, slots |-> [i \in 0..(Size(entries) - 1) |-> Gap]]

\* From the ideal place to the key or the first gap, around the end.
Place(t, hash, key) ==
  (hash + Min({d \in 0..(t.buckets - 1) : t.slots[(hash + d) % t.buckets].key \in {key, NoKey}})) % t.buckets
Found(t, hash, key) == t.slots[Place(t, hash, key)].key = key
ValueOf(t, hash, key) == t.slots[Place(t, hash, key)].value

UncheckedInsert(t, e) == [t EXCEPT !.slots[Place(t, e.hash, NoKey)] = e]

\* "Hash table is full" is thrown for the last bucket.
Full(t) == t.entries + 1 >= t.buckets
Insert(t, e) == UncheckedInsert([t EXCEPT !.entries = @ + 1], e)

\* The entries before the first gap may have rolled over; they wait until
\* all others found their place.
Wider(t) == [t EXCEPT !.buckets = 2 * @,
                      !.slots = [i \in 0..(2 * t.buckets - 1) |-> IF i < t.buckets THEN @[i] ELSE Gap]]
FirstGap(t) == Min({i \in 0..t.buckets : i = t.buckets \/ t.slots[i] = Gap})
Without(t, places) == [t EXCEPT !.slots = [i \in DOMAIN @ |-> IF i \in places THEN Gap ELSE @[i]]]
Move(t, i) == IF t.slots[i] = Gap THEN t ELSE UncheckedInsert(Without(t, {i}), t.slots[i])
MoveAll(t, upTo) == FoldLeft(Move, t, [i \in 1..upTo |-> i - 1])

\* Mutant: the entries at the beginning are moved like all others.
DoubleInPlace(t) == MoveAll(Wider(t), t.buckets)

Double(t) ==
  LET rolled == [i \in 1..FirstGap(t) |-> t.slots[i - 1]]
  IN  FoldLeft(UncheckedInsert, MoveAll(Without(Wider(t), 0..(FirstGap(t) - 1)), t.buckets), rolled)

\* AutoProbing
Threshold(t) == Min({t.buckets - 1, (9 * t.buckets) \div 10})
DoubleIfNeeded(t) == IF t.entries < Threshold(t) THEN t ELSE Double(t)
FindOrInsert(t, e) ==
  LET roomy == DoubleIfNeeded(t)
  IN  IF Found(roomy, e.hash, e.key) THEN roomy ELSE Insert(roomy, e)

CONSTANTS Texts,             \* phrase tables: [rows, dense, bytes, start, pipe]; dense: with
                             \* features?  bytes: the file, from start on; pipe: can it be mapped?
          Partials,          \* how much a read may return
          MayGoAstray,       \* may a map fail where ReadLine then searches behind the window?
          Seeds,             \* hash functions
          WordHash(_, _),    \* the hash of a word under a seed
          PhraseHash(_, _),  \* the hash of a phrase of word numbers
          TableEntries,      \* what HashTableRegion starts with, 10 in the code
          VocabEntries,      \* what GrowableVocab starts with, 100
          VectorLimit        \* a VectorSize counts up to here, 64 words

\* Rows of a source phrase are next to each other; a text is not empty.
TextAssumption ==
  \A t \in Texts :
    /\ t.rows # << >>
    /\ \A i, j, k \in DOMAIN t.rows :
         i < j /\ j < k /\ t.rows[i].source = t.rows[k].source => t.rows[j].source = t.rows[i].source
    /\ \A i \in DOMAIN t.rows : Len(t.rows[i].target) < VectorLimit /\ t.rows[i].source # << >>
ASSUME TextAssumption /\ Size(TableEntries) >= 8 /\ MayGoAstray \in BOOLEAN

VARIABLES text,      \* what is made a table
          seed,
          writer,    \* what CreateTable does next
          piece,     \* the FilePiece
          row,       \* parsed_line: source, target and maybe features
          line,      \* the lines up to that one
          dense,     \* config.dense_features
          source,    \* the source phrase of the bundle
          bundle,    \* TargetBundleWriter: the target phrases so far
          offsets,   \* HashTableRegion: where the bundle of a source phrase is
          lexicon,   \* GrowableVocab and WordArray: [table, words]
          longest,   \* max_source_phrase_length_
          direct,    \* direct_write_size_
          file,      \* what is on disk
          writes,    \* the writes to come: [at, cells]
          table      \* what a reader found in the file

readVars == <<piece, row, line, dense>>
writerVars == <<text, seed, writer, readVars, source, bundle, offsets, lexicon, longest, direct, file, writes>>

(* Words.                                                                  *)
WordEntry(word, id) == [key |-> <<word>>, hash |-> WordHash(seed, word), value |-> id]
IdIn(hashes, word) == ValueOf(hashes, WordHash(seed, word), <<word>>)
Knows(hashes, word) == Found(hashes, WordHash(seed, word), <<word>>)

LearnWord(lex, word) ==
  [table |-> FindOrInsert(lex.table, WordEntry(word, lex.table.entries)),
   words |-> IF Knows(lex.table, word) THEN lex.words ELSE Append(lex.words, word)]
Learn(lex, words) == FoldLeft(LearnWord, lex, words)
Ids(lex, words) == [i \in DOMAIN words |-> IdIn(lex.table, words[i])]
NewLexicon == Learn([table |-> NewTable(VocabEntries), words |-> << >>], <<"<unk>", "<s>", "</s>">>)

(* The file.                                                               *)
Magic == "mtplz phrase table version 0"
HeaderCells == 3    \* header_offset_: the text and a SizeHeader
Put(cells, at, more) == SubSeq(cells, 1, at) \o more \o SubSeq(cells, at + Len(more) + 1, Len(cells))
Region(cells) == <<Len(cells)>> \o cells

\* The fields of a line, which "|||" divides.
Fields(cells) ==
  LET bars == <<0>> \o SetToSortSeq({i \in DOMAIN cells : cells[i] = "|||"}, <) \o <<Len(cells) + 1>>
  IN  [k \in 1 .. Len(bars) - 1 |-> SubSeq(cells, bars[k] + 1, bars[k + 1] - 1)]
Source(fields) == fields[1]
Target(fields) == fields[2]
Dense(fields) == IF text.dense THEN fields[3] ELSE << >>
\* The end of the vector is in the row, as wide as a VectorSize.
RowCells(floats, target) == floats \o <<Len(target) % VectorLimit>> \o target
BundleCells(rows) == <<Len(rows)>> \o FlattenSeq(rows)

\* FieldConfig
SaveConfig == <<"target">> \o (IF text.dense THEN <<"dense", dense>> ELSE << >>)
RestoreDense(cells) == IF Len(cells) > 1 /\ cells[2] = "dense" THEN cells[3] ELSE 0

Stats == <<longest, lexicon.table.entries>>
OffsetCells == [i \in 1..offsets.buckets |-> offsets.slots[i - 1]]
\* Everything that is mapped, behind the header.
Mapped == <<Region(Stats), Region(SaveConfig), Region(OffsetCells)>>
MappedSize == 1 + direct + Len(FlattenSeq(Mapped))

TableInit ==
  /\ text \in Texts /\ seed \in Seeds
  /\ writer = "open" /\ piece = << >> /\ row = << >> /\ line = 0 /\ dense = 0
  /\ source = << >> /\ bundle = << >>
  /\ offsets = NewTable(TableEntries)
  /\ lexicon = [table |-> NewTable(VocabEntries), words |-> << >>]
  /\ longest = 0 /\ direct = 0
  /\ file = << >> /\ writes = << >>
  /\ table = << >>

Idle == writes = << >>

\* FilePiece f(from)
Open ==
  /\ writer = "open"
  /\ \E partial \in Partials, fails \in BOOLEAN :
       piece' = Initialize(text.bytes, text.start, text.pipe, partial, fails)
  /\ writer' = IF Threw(piece') THEN "threw" ELSE "first"
  /\ UNCHANGED <<text, seed, row, line, dense, source, bundle, offsets, lexicon, longest, direct, file, writes, table>>

\* ~TargetBundleWriter
WriteBundle(rows) ==
  /\ writes' = <<[at |-> HeaderCells + 1 + direct, cells |-> BundleCells(rows)]>>
  /\ direct' = direct + Len(BundleCells(rows))

\* What ReadLine does to find the end of a line.  Where it searches behind the window
\* nothing says what happens next; where the reader throws, a bundle is written on
\* the way out.
ShiftPiece ==
  /\ writer \in {"first", "next"} /\ Idle /\ ~LineReady(piece)
  /\ \E partial \in Partials, fails \in BOOLEAN : piece' = ShiftInLine(text.bytes, piece, partial, fails)
  /\ Astray(piece') => MayGoAstray
  /\ writer' = IF Threw(piece') THEN "threw" ELSE IF Astray(piece') THEN "astray" ELSE writer
  /\ IF Threw(piece') /\ writer = "next" THEN WriteBundle(bundle) ELSE UNCHANGED <<writes, direct>>
  /\ UNCHANGED <<text, seed, row, line, dense, source, bundle, offsets, lexicon, longest, file, table>>

\* SourceHasher
ReadSource(lex, words) ==
  LET learned == Learn(lex, words)
  IN  /\ lexicon' = learned
      /\ source' = Ids(learned, words)
      /\ longest' = Max({longest, Len(words)})

TakeLine(fields) == row' = fields /\ piece' = AfterLine(piece) /\ line' = line + 1

\* "Write an invalid size header to indicate the file is incomplete."
Start ==
  /\ writer = "first" /\ LineReady(piece)
  /\ LET fields == Fields(ReadLine(piece))
     IN  TakeLine(fields) /\ ReadSource(NewLexicon, Source(fields)) /\ dense' = Len(Dense(fields))
  /\ writes' = <<[at |-> 0, cells |-> <<Magic>>], [at |-> 1, cells |-> <<1, 0>>], [at |-> 3, cells |-> <<0>>]>>
  /\ writer' = "bundle"
  /\ UNCHANGED <<text, seed, bundle, offsets, direct, file, table>>

\* Insert would throw if the table were full; here that is a deadlock.
RegionThreshold(t) == (5 * t.buckets) \div 6
BeginBundle ==
  /\ writer = "bundle" /\ Idle
  /\ LET roomy == IF offsets.entries > RegionThreshold(offsets) THEN Double(offsets) ELSE offsets
     IN  /\ ~Full(roomy)
         /\ offsets' = Insert(roomy, [key |-> source, hash |-> PhraseHash(seed, source), value |-> direct])
  /\ bundle' = << >>
  /\ writer' = "row"
  /\ UNCHANGED <<text, seed, readVars, source, lexicon, longest, direct, file, writes, table>>

AddRow ==
  /\ writer = "row" /\ Idle
  /\ Len(Dense(row)) = dense
  /\ lexicon' = Learn(lexicon, Target(row))
  /\ bundle' = Append(bundle, RowCells(Dense(row), Ids(lexicon', Target(row))))
  /\ writer' = "next"
  /\ UNCHANGED <<text, seed, readVars, source, offsets, longest, direct, file, writes, table>>

\* ++line: another row of the bundle, or the first one of the next.
NextLine ==
  /\ writer = "next" /\ Idle /\ LineReady(piece) /\ ~EndOfFile(piece)
  /\ LET fields == Fields(ReadLine(piece))
     IN  Len(fields) = Len(row) /\ TakeLine(fields) /\ ReadSource(lexicon, Source(fields))
  /\ IF source' = source THEN writer' = "row" /\ UNCHANGED <<writes, direct>>
     ELSE writer' = "bundle" /\ WriteBundle(bundle)
  /\ UNCHANGED <<text, seed, dense, bundle, offsets, file, table>>

\* ExtractLine throws; the bundle is written on the way out.
BadLine ==
  /\ writer = "next" /\ Idle /\ LineReady(piece) /\ ~EndOfFile(piece)
  /\ Len(Fields(ReadLine(piece))) # Len(row)
  /\ WriteBundle(bundle)
  /\ writer' = "threw" /\ piece' = << >>
  /\ UNCHANGED <<text, seed, row, line, dense, source, bundle, offsets, lexicon, longest, file, table>>

NoLine ==
  /\ writer = "next" /\ Idle /\ LineReady(piece) /\ EndOfFile(piece)
  /\ WriteBundle(bundle)
  /\ writer' = "stats" /\ piece' = << >> /\ line' = line + 1
  /\ UNCHANGED <<text, seed, row, dense, source, bundle, offsets, lexicon, longest, file, table>>

\* ParseFloats throws, with some of the floats in the row.
ParsedDense == SubSeq(Dense(row) \o [i \in 1..dense |-> "?"], 1, dense)
LeaveRow ==
  /\ writer = "row" /\ Idle
  /\ Len(Dense(row)) # dense
  /\ lexicon' = Learn(lexicon, Target(row))
  /\ WriteBundle(Append(bundle, RowCells(ParsedDense, Ids(lexicon', Target(row)))))
  /\ piece' = << >>
  /\ UNCHANGED <<text, seed, row, line, dense, source, bundle, offsets, longest, file, table>>

\* Mutant: what was opened is also finished on the way out.
FinishBadRow == LeaveRow /\ writer' = "stats"

BadRow == LeaveRow /\ writer' = "threw"

\* FileFormat::Write; the vocabulary is not mapped.
Write ==
  /\ writer = "stats" /\ Idle
  /\ LET regions == Append(Mapped, Region(lexicon.words))
         total == 1 + direct + Len(FlattenSeq(regions))
         start == HeaderCells + 1 + direct
     IN  writes' = <<[at |-> 1, cells |-> <<MappedSize, total>>], [at |-> 3, cells |-> <<direct>>]>>
                     \o [i \in DOMAIN regions |-> [at |-> start + Len(FlattenSeq(SubSeq(regions, 1, i - 1))), cells |-> regions[i]]]
  /\ writer' = "closed"
  /\ UNCHANGED <<text, seed, readVars, source, bundle, offsets, lexicon, longest, direct, file, table>>

WriteOrThrow ==
  /\ ~Idle
  /\ file' = Put(file, Head(writes).at, Head(writes).cells)
  /\ writes' = Tail(writes)
  /\ UNCHANGED <<text, seed, writer, readVars, source, bundle, offsets, lexicon, longest, direct, table>>

Die ==
  /\ ~Idle
  /\ \E n \in 0..(Len(Head(writes).cells) - 1) : file' = Put(file, Head(writes).at, SubSeq(Head(writes).cells, 1, n))
  /\ writer' = "died" /\ writes' = << >> /\ piece' = << >>
  /\ UNCHANGED <<text, seed, row, line, dense, source, bundle, offsets, lexicon, longest, direct, table>>

CreateNext ==
  \/ Open \/ ShiftPiece \/ Start \/ BeginBundle \/ AddRow \/ NextLine \/ BadLine \/ NoLine
  \/ BadRow \/ Write \/ WriteOrThrow \/ Die
WriterStopped == writer \in {"closed", "threw", "died"} /\ Idle

(* pt::Table.                                                              *)
\* Where the k-th region begins; each begins with its size.
RegionAt(k) ==
  LET at[j \in 1..k] == IF j = 1 THEN HeaderCells + 1 ELSE at[j - 1] + 1 + file[at[j - 1]]
  IN  at[k]
Content(k) == SubSeq(file, RegionAt(k) + 1, RegionAt(k) + file[RegionAt(k)])

\* ReadOrThrow fails at the end of the file, Attach at the end of what is mapped.
HeaderFits == Len(file) >= HeaderCells /\ file[1] = Magic /\ file[2] <= file[3]
Accepted ==
  /\ HeaderFits
  /\ Len(file) >= HeaderCells + file[2]
  /\ \A k \in 1..4 : RegionAt(k) + file[RegionAt(k)] <= HeaderCells + file[2]

OpenTable ==
  /\ WriterStopped /\ table = << >> /\ Accepted
  /\ table' = [rows |-> Content(1), longest |-> Content(2)[1], words |-> Content(2)[2],
               dense |-> RestoreDense(Content(3)),
               offsets |-> [buckets |-> Len(Content(4)), entries |-> 0,
                            slots |-> [i \in 0..(Len(Content(4)) - 1) |-> Content(4)[i + 1]]],
               vocab |-> SubSeq(file, RegionAt(4) + file[RegionAt(4)] + 2, Len(file))]
  /\ UNCHANGED writerVars

\* Access::End steps over the features, the end of the vector and the words.
RowEnd(at) == at + table.dense + 1 + table.rows[at + table.dense]
ReadRow(at) ==
  [dense |-> SubSeq(table.rows, at, at + table.dense - 1),
   target |-> SubSeq(table.rows, at + table.dense + 1, RowEnd(at) - 1)]
Lookup(phrase) ==
  IF ~Found(table.offsets, PhraseHash(seed, phrase), phrase) THEN << >>
  ELSE LET base == ValueOf(table.offsets, PhraseHash(seed, phrase), phrase) + 1
           at[j \in 1..table.rows[base]] == IF j = 1 THEN base + 1 ELSE RowEnd(at[j - 1])
       IN  [j \in 1..table.rows[base] |-> ReadRow(at[j])]
=============================================================================
