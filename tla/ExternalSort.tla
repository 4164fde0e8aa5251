---------------------------- MODULE ExternalSort ---------------------------
(***************************************************************************)
(* util::stream::Sort: sorted blocks are spilled to a file whose Offsets   *)
(* log says how long each is; Merge makes passes until what is left can be *)
(* merged lazily; Output reads it, merging once more.  Sizes are in units  *)
(* of a word index, as the memory a user gives is in bytes: a buffer is    *)
(* rounded to whole records.                                               *)
(***************************************************************************)
EXTENDS NGram

(* Offsets: a run-length log of the blocks in the file, 0,0 at its front.  *)
NoRun == [length |-> 0, run |-> 0]
NoOffsets == [log |-> << >>, at |-> 0, cur |-> NoRun, blocks |-> 0, sum |-> 0]

\* Offsets::Append: an empty block leaves no trace.
AppendOffset(o, length) ==
  IF length = 0 THEN o
  ELSE IF length = o.cur.length
    THEN [o EXCEPT !.blocks = @ + 1, !.cur.run = @ + 1]
    ELSE [o EXCEPT !.blocks = @ + 1, !.log = Append(@, o.cur),
                   !.cur = [length |-> length, run |-> 1]]

FinishedAppending(o) ==
  LET log == Append(o.log, o.cur)
  IN  IF o.blocks = 0 THEN [o EXCEPT !.log = log, !.at = 1, !.cur.run = 0]
      ELSE [o EXCEPT !.log = log, !.at = 2, !.cur = log[2]]

\* NextSize returns cur.length and leaves this.
NextOffset(o) ==
  LET left == [o EXCEPT !.sum = @ + o.cur.length, !.blocks = @ - 1, !.cur.run = @ - 1]
  IN  IF left.cur.run = 0 /\ left.blocks > 0
        THEN [left EXCEPT !.at = @ + 1, !.cur = o.log[o.at + 1]]
        ELSE left

(* The sort itself.                                                        *)
SortBlock(compare, block) == SortSeq(block, LAMBDA a, b : Less(compare, a.words, b.words))

\* Spill: BlockSorter and WriteAndRecycle over all blocks of the chain.
Spill(compare, combine, blocks, entry) ==
  [entry |-> entry, combine |-> combine,
   data |-> Flat([b \in DOMAIN blocks |-> SortBlock(compare, blocks[b])]),
   off |-> FinishedAppending(
             FoldLeft(LAMBDA o, b : AppendOffset(o, Len(b) * entry), NoOffsets, blocks)),
   out |-> << >>, outOff |-> NoOffsets, reading |-> 0]

Size(s) == Len(s.data) * s.entry
WholeEntries(memory, s) == memory - (memory % s.entry)

\* The buffer of a block in a group, given what the reader has in all.
PerBuffer(s, buffer, reading) ==
  WholeEntries(Max({buffer, reading \div s.off.blocks}), s)

\* Populate the queue while the next block's buffer fits.
RECURSIVE Populate(_, _, _, _)
Populate(off, per, free, queue) ==
  IF off.blocks = 0 \/ Min({per, off.cur.length}) > free
    THEN [off |-> off, queue |-> queue]
    ELSE Populate(NextOffset(off), per, free - Min({per, off.cur.length}),
                  Append(queue, [offset |-> off.sum, size |-> off.cur.length]))

\* What MergeQueue yields: the least of the heads, again and again.  A sort
\* that combines makes one of the records with the same words.
RECURSIVE MergeRuns(_, _, _, _)
MergeRuns(compare, combine, runs, merged) ==
  LET left == {r \in DOMAIN runs : runs[r] # << >>}
  IN  IF left = {} THEN merged
      ELSE LET top == CHOOSE r \in left : \A q \in left : ~Less(compare, runs[q][1].words, runs[r][1].words)
               gram == runs[top][1]
               rest == [runs EXCEPT ![top] = Tail(@)]
           IN  IF combine /\ merged # << >> /\ Last(merged).words = gram.words
                 THEN MergeRuns(compare, combine, rest,
                                Append(Front(merged), CombineCounts(Last(merged), gram)))
                 ELSE MergeRuns(compare, combine, rest, Append(merged, gram))

Run(s, r) == SubSeq(s.data, r.offset \div s.entry + 1, (r.offset + r.size) \div s.entry)
MergeGroup(compare, s, queue) ==
  MergeRuns(compare, s.combine, [q \in DOMAIN queue |-> Run(s, queue[q])], << >>)

(* Merge(lazy): passes until a lazy merge has memory for what is left.     *)
LazyArity(buffer, lazy) == Max({1, lazy \div buffer})
MustMerge(s, buffer, lazy) == s.off.blocks > LazyArity(buffer, lazy) /\ Size(s) > lazy

BeginPass(s, buffer, memory) == [s EXCEPT !.reading = Min({memory - 2 * buffer, Size(s)})]

\* One turn of MergingReader::Run's loop, writing one block of the next file.
Group(s, buffer, reading) == Populate(s.off, PerBuffer(s, buffer, reading), reading, << >>)
PassGroup(compare, s, group) ==
  LET merged == MergeGroup(compare, s, group.queue)
  IN  [s EXCEPT !.off = group.off, !.out = @ \o merged,
                !.outOff = AppendOffset(@, Len(merged) * s.entry)]

EndPass(s) == [s EXCEPT !.data = s.out, !.off = FinishedAppending(s.outOff),
                        !.out = << >>, !.outOff = NoOffsets, !.reading = 0]

\* What Merge returns: the memory a lazy merge needs.
LazyNeed(s, buffer) == IF s.off.blocks <= 1 THEN 0 ELSE Min({Size(s), s.off.blocks * buffer})
=============================================================================
