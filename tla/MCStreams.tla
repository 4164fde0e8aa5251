----------------------------- MODULE MCStreams ------------------------------
(***************************************************************************)
(* The two clients of a RewindableStream, for TLC: StreamReader, and       *)
(* ContextWriter with instances of its own, of which a behaviour has one.  *)
(***************************************************************************)
EXTENDS Integers, Sequences

CONSTANTS Uses, ReaderBlocks, ReaderBlockSize, Marks, Returns,
          WriterBlocks, WriterBlockSize, Contexts, Vocabulary

VARIABLES client,      \* "reader" or "writer"
          queue, current, state,
          blocks, it, cursor, blockEnd, marked, hitPoison, poisoned,
          memory, sent,
          use, filled, next, mark, rewinds,
          doing, context, words, count, before

streamVars == <<queue, current, state, blocks, it, cursor, blockEnd, marked, hitPoison, poisoned, memory, sent>>
readerVars == <<use, filled, next, mark, rewinds>>
writerVars == <<doing, context, words, count, before>>
vars == <<client, streamVars, readerVars, writerVars>>

\* The stream is in the middle of three positions, or the first of two.
Reader == INSTANCE StreamReader WITH
  Positions <- 3, At <- 2, BlockCount <- ReaderBlocks, BlockSize <- ReaderBlockSize
Writer == INSTANCE ContextWriter WITH
  Positions <- 2, At <- 1, BlockCount <- WriterBlocks, BlockSize <- WriterBlockSize

ASSUME ReaderFits ==
  /\ ReaderBlocks \in Nat /\ ReaderBlockSize \in Nat \ {0}
  /\ Reader!ReaderAssumption
ASSUME WriterFits ==
  /\ WriterBlocks \in Nat /\ WriterBlockSize \in Nat \ {0}
  /\ Writer!WriterAssumption

\* Full and partial blocks, between which the client goes back; and empty ones,
\* where it goes back within the last block.
MCUses == {[fills |-> <<2, 1, 2, 2, 1>>, rewinds |-> 2, limit |-> 3],
           [fills |-> <<2, 0, 1, 0, 2>>, rewinds |-> 0, limit |-> 2]}
MCEmptyBlocks == {[fills |-> <<2, 0, 1, 0, 0, 2>>, rewinds |-> 1, limit |-> 3]}

\* Upstream ends with no empty block, and cuts none but where the client goes back
\* only from the end, and no further than the last block.
UsesFit(uses) ==
  \A u \in uses : LET last == Len(u.fills) IN
    /\ u.fills # << >> => u.fills[last] # 0
    /\ \/ \A k \in 1..last : u.fills[k] # 0
       \/ u.rewinds = 0 /\ u.limit <= u.fills[last]

ASSUME MCUsesFit == UsesFit(MCUses)

ReaderInit ==
  /\ client = "reader" /\ Reader!Init
  /\ doing = "end" /\ context = 0 /\ words = 0 /\ count = 0 /\ before = 0

WriterInit ==
  /\ client = "writer" /\ Writer!Init
  /\ use = [fills |-> << >>, rewinds |-> 0, limit |-> 0] /\ filled = 0
  /\ next = 1 /\ mark = 0 /\ rewinds = 0

Init == ReaderInit \/ WriterInit

Reading(A) == client = "reader" /\ A /\ UNCHANGED <<client, writerVars>>
Writing(A) == client = "writer" /\ A /\ UNCHANGED <<client, readerVars>>

Next == Reading(Reader!Next) \/ Writing(Writer!Next)

\* The reader goes on, marks where it must, and ends the stream in the end.
Spec ==
  /\ Init /\ [][Next]_vars
  /\ WF_vars(Reading(Reader!UpstreamThread)) /\ WF_vars(Reading(Reader!SinkThread))
  /\ WF_vars(Reading(Reader!MustGoOn))
  /\ WF_vars(Writing(Writer!Client)) /\ WF_vars(Writing(Writer!SinkThread))

---------------------------------------------------------------------------
\* The client reads the records in the order of the file, after a Rewind again
\* from the one it has marked, however the blocks are cut and recycled.
ReadsInOrder == client = "reader" => Reader!InOrder

\* What is written is what was read, once and in order.
SentInOrder == client = "reader" => Reader!SentAsRead

\* No record leaves the stream of normalize.cc before its context is
\* normalised, none is doubled or lost.
SentIsNormalized == client = "writer" => Writer!SentNormalized

\* The chain comes to its end: going back holds no block too many, the client does
\* not wait for a block while it holds all others nor ask for one too many, which
\* aborts, the assertions of Poison hold, and the poison goes on ("Careful accounting to
\* ensure RewindableStream can fit the entire vocabulary", pipeline.cc:120).
Terminates == <>(IF client = "reader" THEN Reader!Ended ELSE Writer!Ended)
=============================================================================
