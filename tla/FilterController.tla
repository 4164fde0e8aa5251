-------------------------- MODULE FilterController --------------------------
(***************************************************************************)
(* The threaded language model filter: lm::Controller of lm/filter/thread.hh *)
(* with its two thread pools, as DispatchARPAInput, CountFormat and        *)
(* ReadNGrams drive it.                                                    *)
(*                                                                         *)
(*   reader --filter pool--> FilterWorker* --output pool--> OutputWorker   *)
(*      ^                                                        |         *)
(*      +----------------------- to_read_ -----------------------+         *)
(*                                                                         *)
(* The reader fills batches with lines, the workers filter them in any     *)
(* order, and the one output worker puts them back in the order of their   *)
(* sequence numbers and returns them to the reader.                        *)
(*                                                                         *)
(* A batch has the two buffers of lm/filter/format.hh: InputBuffer, which  *)
(* owns the text of the lines, and MultipleOutputBuffer, whose records     *)
(* point into that text (BinaryOutputBuffer is the case in which no filter *)
(* names a system).                                                        *)
(***************************************************************************)
EXTENDS Integers, Sequences, FiniteSets, SequencesExt

CONSTANTS Threads,        \* the filter threads
          Batches,        \* the batches; the queues have room for all of them
          BatchSize,      \* lines in a full batch
          Jobs,           \* the inputs: the last line of each order, whether the
                          \* format is ARPA, which flushes after an order, and of each
                          \* line the filter's verdict and the one that is wanted
          Null,           \* no batch; also the poison of the pools
          All,            \* the verdict that sends a line to every system
          Length(_)

ASSUME ControllerAssumption ==
  /\ IsFiniteSet(Threads) /\ Threads # {}
  /\ IsFiniteSet(Batches) /\ Cardinality(Batches) >= 2 * Cardinality(Threads)
  /\ BatchSize \in Nat \ {0}
  /\ \A j \in Jobs :
       /\ j.ends \in Seq(Nat) /\ j.ends # << >> /\ j.arpa \in BOOLEAN
       /\ \A m, n \in DOMAIN j.ends : m <= n => j.ends[m] <= j.ends[n]
  /\ Null \notin Batches
  /\ All # {}

Writer == "OutputWorker"
QueueSize == Cardinality(Batches)

VARIABLES
  job,         \* the input
  pc,          \* what the reader is about to do
  resume,      \* where the reader goes on after FlushInput
  length,      \* the order the reader is in
  line,        \* the lines read so far
  sequence,    \* sequence_: the number the next batch will get
  localRead,   \* local_read_, the top first
  toRead,      \* to_read_
  number,      \* number[b]: the sequence_ of batch b
  input,       \* input[b]: the InputBuffer of batch b
  buffer,      \* buffer[b]: the OutputBuffer of batch b
  filterIn, filterHeld, filterLive, filterPoisons,   \* filter_
  filtered,    \* filtered[w]: the lines of its batch thread w has filtered
  outputIn, outputHeld, outputLive, outputPoisons,   \* output_
  ordering,    \* ordering_ of the output worker
  base,        \* base_sequence_
  file         \* the real output, in the order it was written

reader == <<job, pc, resume, length, line, sequence, localRead>>
batches == <<number, input, buffer>>
filterPool == <<filterIn, filterHeld, filterLive, filterPoisons, filtered>>
outputPool == <<outputIn, outputHeld, outputLive, outputPoisons>>
writer == <<ordering, base>>
vars == <<reader, toRead, batches, filterPool, outputPool, writer, file>>

Verdict(l) == job.verdict[l]

Filters == INSTANCE ThreadPool
  WITH Workers <- Threads, QueueLength <- QueueSize, Poison <- Null, Idle <- Null,
       in <- filterIn, held <- filterHeld, live <- filterLive, poisons <- filterPoisons

Outputs == INSTANCE ThreadPool
  WITH Workers <- {Writer}, QueueLength <- QueueSize, Poison <- Null, Idle <- Null,
       in <- outputIn, held <- outputHeld, live <- outputLive, poisons <- outputPoisons

Top == Head(localRead)
Ends == job.ends
Arpa == job.arpa

---------------------------------------------------------------------------
\* InputBuffer: lines_ and actual_.  It keeps its strings: a later batch assigns
\* to the string an earlier one used, which frees the text and takes another only
\* when the line outgrows the string's capacity.  A StringPiece is the position of
\* the string it was taken from, the capacity the string had then, and a length.

NoPiece == <<0, 0, 0>>

EmptyInput == [text |-> [i \in 1..BatchSize |-> 0],
               capacity |-> [i \in 1..BatchSize |-> 0],
               actual |-> 0]

Clear(in) == [in EXCEPT !.actual = 0]

\* std::string::assign grows the string only when the line does not fit.
InputAddNGram(in, read) ==
  LET i == in.actual + 1
  IN  [in EXCEPT !.text[i] = read,
                 !.capacity[i] = IF Length(read) > @ THEN Length(read) ELSE @,
                 !.actual = i]

Piece(in, i) == <<i, in.capacity[i], Length(in.text[i])>>

---------------------------------------------------------------------------
\* MultipleOutputBuffer: annotated_ and last_.  "stray" says that
\* annotated_.back() was used on an empty vector.

EmptyOutput == [annotated |-> << >>, last |-> NoPiece, stray |-> FALSE]

AddNGram(output, piece) ==
  [output EXCEPT !.annotated = Append(@, [systems |-> {}, line |-> piece])]

\* What line.data() == last_.data() may say of a line of the batch.  While the text
\* last_ points at is in place, it is true of that string only; once it was freed,
\* the allocator may have given its address to the text of any string.
SameData(in, last, piece) ==
  IF last = NoPiece THEN {FALSE}
  ELSE IF in.capacity[last[1]] = last[2] THEN {piece[1] = last[1]}
  ELSE BOOLEAN

\* Mutant: only the addresses are compared, not the lengths.
SameLengthDropped(last, piece) == TRUE

SameLength(last, piece) == piece[3] = last[3]

\* The calls of SingleAddNGram the filter makes for one line: the first may
\* start a record, the others find last_ equal to the line.
SingleAddNGrams(output, systems, piece, same) ==
  LET n == Len(output.annotated) IN
  IF ~(same /\ SameLength(output.last, piece))
    THEN [output EXCEPT !.annotated = Append(@, [systems |-> systems, line |-> piece]),
                        !.last = piece]
  ELSE IF n = 0
    THEN [output EXCEPT !.stray = TRUE]
  ELSE [output EXCEPT !.annotated[n].systems = @ \cup systems]

FilterLine(output, verdict, piece, same) ==
  IF verdict = All THEN AddNGram(output, piece)
  ELSE IF verdict = {} THEN output
  ELSE SingleAddNGrams(output, verdict, piece, same)

---------------------------------------------------------------------------
\* What a record sends to the real output: the text its piece points at now.
Sent(in, record) ==
  [kind |-> "ngram",
   line |-> in.text[record.line[1]],
   to |-> IF record.systems = {} THEN All ELSE record.systems]

Flushed(in, output) ==
  [k \in DOMAIN output.annotated |-> Sent(in, output.annotated[k])]

AfterFlush(output) == [output EXCEPT !.annotated = << >>]

---------------------------------------------------------------------------
\* The constructor: every batch is with the reader and the top one is filled.
Init ==
  /\ job \in Jobs
  /\ pc = "read" /\ resume = "read"
  /\ length = 1 /\ line = 0
  /\ sequence = 1
  /\ localRead = SetToSeq(Batches)
  /\ toRead = << >>
  /\ number = [b \in Batches |-> 0]
  /\ input = [b \in Batches |-> EmptyInput]
  /\ buffer = [b \in Batches |-> EmptyOutput]
  /\ Filters!Init /\ filtered = [w \in Threads |-> 0]
  /\ Outputs!Init
  /\ ordering = << >> /\ base = 0
  /\ file = << >>

---------------------------------------------------------------------------
\* The reader.

\* AddNGram: a full batch is flushed and another is opened.
ReadLine ==
  /\ pc = "read" /\ line < Ends[length]
  /\ line' = line + 1
  /\ input' = [input EXCEPT ![Top] = InputAddNGram(@, line + 1)]
  /\ IF input'[Top].actual = BatchSize
       THEN pc' = "flush" /\ resume' = "new"
       ELSE UNCHANGED <<pc, resume>>
  /\ UNCHANGED <<job, length, sequence, localRead, toRead, number, buffer,
                 filterPool, outputPool, writer, file>>

\* ReadNGrams ends an order: DispatchARPAInput::EndLength calls Flush.
EndOrder ==
  /\ pc = "read" /\ line = Ends[length]
  /\ IF Arpa
       THEN pc' = "flush" /\ resume' = "collect"
       ELSE pc' = "poisonFilters" /\ UNCHANGED resume
  /\ UNCHANGED <<job, length, line, sequence, localRead, toRead, batches,
                 filterPool, outputPool, writer, file>>

\* FlushInput returns at once when the batch holds no line.
SkipFlush ==
  /\ pc = "flush" /\ input[Top].actual = 0
  /\ pc' = resume
  /\ UNCHANGED <<job, resume, length, line, sequence, localRead, toRead, batches,
                 filterPool, outputPool, writer, file>>

\* Mutant: the batch stays on the reader's stack.
FlushInputNoPop ==
  /\ pc = "flush" /\ input[Top].actual # 0
  /\ Filters!Produce(Top) /\ UNCHANGED filtered
  /\ pc' = IF Tail(localRead) = << >> THEN "move" ELSE resume
  /\ UNCHANGED <<job, resume, length, line, sequence, localRead, toRead, batches,
                 outputPool, writer, file>>

FlushInput ==
  /\ pc = "flush" /\ input[Top].actual # 0
  /\ Filters!Produce(Top) /\ UNCHANGED filtered
  /\ localRead' = Tail(localRead)
  /\ pc' = IF Tail(localRead) = << >> THEN "move" ELSE resume
  /\ UNCHANGED <<job, resume, length, line, sequence, toRead, batches,
                 outputPool, writer, file>>

MoveRead ==
  /\ toRead # << >>
  /\ localRead' = <<Head(toRead)>> \o localRead
  /\ toRead' = Tail(toRead)
  /\ UNCHANGED <<job, resume, length, line, sequence, batches,
                 filterPool, outputPool, writer, file>>

\* FlushInput gave away the last batch the reader had.
AwaitBatch == pc = "move" /\ MoveRead /\ pc' = resume

\* Flush waits until every batch is back.
Collect ==
  /\ pc = "collect" /\ Len(localRead) < QueueSize
  /\ MoveRead
  /\ UNCHANGED pc

\* NewInput: the top batch gets the next number and is emptied.
OpenTop ==
  /\ number' = [number EXCEPT ![Top] = sequence]
  /\ sequence' = sequence + 1
  /\ input' = [input EXCEPT ![Top] = Clear(@)]
  /\ UNCHANGED buffer

NewInput ==
  /\ pc = "new"
  /\ OpenTop
  /\ pc' = "read"
  /\ UNCHANGED <<job, resume, length, line, localRead, toRead,
                 filterPool, outputPool, writer, file>>

\* The end of Flush, and EndLength of the output, which the reader itself
\* writes; then BeginLength of the next order, or Finish.
EndLength ==
  /\ pc = "collect" /\ Len(localRead) = QueueSize
  /\ OpenTop
  /\ file' = Append(file, [kind |-> "end", line |-> length, to |-> All])
  /\ length' = length + 1
  /\ pc' = IF length < Len(Ends) THEN "read" ELSE "poisonFilters"
  /\ UNCHANGED <<job, resume, line, localRead, toRead, filterPool, outputPool, writer>>

---------------------------------------------------------------------------
\* ~Controller destroys filter_ and then output_.

PoisonFilters ==
  /\ pc = "poisonFilters"
  /\ Filters!ProducePoison /\ UNCHANGED filtered
  /\ UNCHANGED <<reader, toRead, batches, outputPool, writer, file>>

JoinFilters ==
  /\ pc = "poisonFilters" /\ Filters!Joined
  /\ pc' = "poisonOutput"
  /\ UNCHANGED <<job, resume, length, line, sequence, localRead, toRead, batches,
                 filterPool, outputPool, writer, file>>

PoisonOutput ==
  /\ pc = "poisonOutput"
  /\ Outputs!ProducePoison
  /\ UNCHANGED <<reader, toRead, batches, filterPool, writer, file>>

JoinOutput ==
  /\ pc = "poisonOutput" /\ Outputs!Joined
  /\ pc' = "done"
  /\ UNCHANGED <<job, resume, length, line, sequence, localRead, toRead, batches,
                 filterPool, outputPool, writer, file>>

Reader ==
  \/ ReadLine \/ EndOrder \/ SkipFlush \/ FlushInput \/ AwaitBatch \/ NewInput
  \/ Collect \/ EndLength
  \/ PoisonFilters \/ JoinFilters \/ PoisonOutput \/ JoinOutput

---------------------------------------------------------------------------
\* The filter threads.

FilterConsume(w) ==
  /\ Filters!Consume(w)
  /\ filtered' = [filtered EXCEPT ![w] = 0]
  /\ UNCHANGED <<reader, toRead, batches, outputPool, writer, file>>

\* One turn of the loop of InputBuffer::CallFilter.
FilterNext(w) ==
  LET b == filterHeld[w]
      i == filtered[w] + 1
      piece == Piece(input[b], i)
  IN  /\ b # Null /\ filtered[w] < input[b].actual
      /\ \E same \in SameData(input[b], buffer[b].last, piece) :
           buffer' = [buffer EXCEPT ![b] = FilterLine(@, Verdict(input[b].text[i]), piece, same)]
      /\ filtered' = [filtered EXCEPT ![w] = i]
      /\ UNCHANGED <<reader, toRead, number, input, filterIn, filterHeld, filterLive, filterPoisons,
                     outputPool, writer, file>>

\* FilterWorker hands the batch on and returns.
FilterDone(w) ==
  /\ filterHeld[w] # Null /\ filtered[w] = input[filterHeld[w]].actual
  /\ Filters!Handled(w) /\ UNCHANGED filtered
  /\ Outputs!Produce(filterHeld[w])
  /\ UNCHANGED <<reader, toRead, batches, writer, file>>

---------------------------------------------------------------------------
\* The output thread.

\* Mutant: batches are lined up as they arrive.
PlacedLast(pos, b) == Append(ordering, b)

\* ordering_.resize(pos + 1, NULL); ordering_[pos] = request
Placed(pos, b) ==
  [i \in 1..(IF pos > Len(ordering) THEN pos ELSE Len(ordering)) |->
     IF i = pos THEN b
     ELSE IF i <= Len(ordering) THEN ordering[i] ELSE Null]

OutputConsume ==
  /\ Outputs!Consume(Writer)
  /\ ordering' = IF Head(outputIn) = Null THEN ordering
                 ELSE Placed(number[Head(outputIn)] - base + 1, Head(outputIn))
  /\ UNCHANGED <<reader, toRead, batches, filterPool, base, file>>

FrontReady == ordering # << >> /\ Head(ordering) # Null

\* One turn of the loop: the front batch is written and goes home.
FlushFront ==
  /\ outputHeld[Writer] # Null /\ FrontReady
  /\ Len(toRead) < QueueSize
  /\ LET b == Head(ordering) IN
       /\ file' = file \o Flushed(input[b], buffer[b])
       /\ buffer' = [buffer EXCEPT ![b] = AfterFlush(@)]
       /\ toRead' = Append(toRead, b)
  /\ ordering' = Tail(ordering)
  /\ base' = base + 1
  /\ UNCHANGED <<reader, number, input, filterPool, outputPool>>

OutputDone ==
  /\ outputHeld[Writer] # Null /\ ~FrontReady
  /\ Outputs!Handled(Writer)
  /\ UNCHANGED <<reader, toRead, batches, filterPool, writer, file>>

---------------------------------------------------------------------------
Finished == pc = "done" /\ UNCHANGED vars

Next ==
  \/ Reader
  \/ \E w \in Threads : FilterConsume(w) \/ FilterNext(w) \/ FilterDone(w)
  \/ OutputConsume \/ FlushFront \/ OutputDone
  \/ Finished

Spec == Init /\ [][Next]_vars

FairSpec ==
  /\ Spec
  /\ WF_vars(Reader)
  /\ \A w \in Threads : WF_vars(FilterConsume(w)) /\ WF_vars(FilterNext(w)) /\ WF_vars(FilterDone(w))
  /\ WF_vars(OutputConsume) /\ WF_vars(FlushFront) /\ WF_vars(OutputDone)

---------------------------------------------------------------------------
\* A batch has one owner: the reader's stack, a queue, a filter thread or the
\* output worker's line; the threads touch its buffers without a lock.
Places(b) ==
  Cardinality({i \in DOMAIN localRead : localRead[i] = b})
  + Cardinality({i \in DOMAIN filterIn : filterIn[i] = b})
  + Cardinality({w \in Threads : filterHeld[w] = b})
  + Cardinality({i \in DOMAIN outputIn : outputIn[i] = b})
  + Cardinality({i \in DOMAIN ordering : ordering[i] = b})
  + Cardinality({i \in DOMAIN toRead : toRead[i] = b})

OneOwner == \A b \in Batches : Places(b) = 1

---------------------------------------------------------------------------
\* What an input has to be so that the file is the one that is wanted.  The filters decide
\* as they are meant to:
VerdictsMeant(j) == \A l \in 1..j.ends[Len(j.ends)] : j.verdict[l] = j.wanted[l]

\* A batch of order n begins behind line c, and has as many lines as fit.
StartOf(j, n) == IF n = 1 THEN 0 ELSE j.ends[n - 1]
Cut(j, n, c) ==
  /\ c \in StartOf(j, n)..j.ends[n]
  /\ \E q \in 0..c : c = StartOf(j, n) + q * BatchSize
BatchOf(j, n, c) == {l \in (c + 1)..(c + BatchSize) : l <= j.ends[n]}

\* a file without sections does not end within a batch, which Controller would drop;
NoneDropped(j) == ~j.arpa => Len(j.ends) = 1 /\ Cut(j, 1, j.ends[1])

\* and the first line of a batch that is for single systems does not have the length of
\* the last one of an earlier batch, where last_ may still point: whatever strings the
\* two are in, their texts may have been given the same address.
Single(j, l) == j.verdict[l] \notin {All, {}}
IsLast(j, n, c, l) ==
  l \in BatchOf(j, n, c) /\ Single(j, l) /\ \A k \in BatchOf(j, n, c) : k > l => ~Single(j, k)
IsFirst(j, n, c, l) ==
  l \in BatchOf(j, n, c) /\ Single(j, l) /\ \A k \in BatchOf(j, n, c) : k < l => ~Single(j, k)
NoneMistaken(j) ==
  \A m, n \in DOMAIN j.ends : \A c \in 0..j.ends[m], d \in 0..j.ends[n] :
    Cut(j, m, c) /\ Cut(j, n, d) /\ c < d =>
      \A k \in BatchOf(j, m, c), l \in BatchOf(j, n, d) :
        IsLast(j, m, c, k) /\ IsFirst(j, n, d, l) => Length(k) # Length(l)

\* What the systems should get: the lines they want, and the end of every order.
Item(kind, n, to) == [kind |-> kind, line |-> n, to |-> to]
Expected ==
  {Item("ngram", l, job.wanted[l]) : l \in {k \in 1..Ends[Len(Ends)] : job.wanted[k] # {}}}
    \cup {Item("end", n, All) : n \in {k \in DOMAIN Ends : Arpa}}

\* The order of the input: an order ends behind its last line.
Place(item) == IF item.kind = "ngram" THEN <<item.line, 0>> ELSE <<Ends[item.line], item.line>>
Before(x, y) ==
  LET p == Place(x) q == Place(y) IN p[1] < q[1] \/ (p[1] = q[1] /\ p[2] < q[2])

\* However the threads interleave, what has been written is what a single
\* thread would have written by then ("Assemble the output in order",
\* thread.hh:76): no line is lost, doubled, overtaken, moved to another order or
\* sent to a system that does not want it; and when the program is done, the
\* whole file is there.
OutputInOrder ==
  /\ Range(file) \subseteq Expected
  /\ \A j, k \in DOMAIN file : j < k => Before(file[j], file[k])
  /\ \A x \in Range(file), y \in Expected : Before(y, x) => y \in Range(file)
  /\ pc = "done" => Range(file) = Expected

\* A record meant for every system keeps no list of systems, and none is
\* written where there is no record: "If this is empty, send to all systems"
\* (format.hh:237).
AnnotationsAreOfTheirLine ==
  \A b \in Batches :
    /\ ~buffer[b].stray
    /\ \A k \in DOMAIN buffer[b].annotated :
         LET record == buffer[b].annotated[k]
         IN  job.wanted[input[b].text[record.line[1]]]
               = IF record.systems = {} THEN All ELSE record.systems

\* Every batch the reader sends comes back and the program ends.
Terminates == <>(pc = "done")
=============================================================================
