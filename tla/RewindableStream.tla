-------------------------- MODULE RewindableStream --------------------------
(***************************************************************************)
(* util::stream::RewindableStream (util/stream/rewindable_stream.cc) at    *)
(* one position of a chain.  The stream hands out the records of the       *)
(* blocks it consumes one by one; from a mark on it keeps the blocks, so   *)
(* that the client can go back to the mark and write the records again     *)
(* before they are sent on.                                                *)
(*                                                                         *)
(* The blocks are parts of one allocation, as Chain::Start lays them out:  *)
(* an address is a number and block b + 1 begins where block b ends.       *)
(*                                                                         *)
(* The module has the operations of the stream; the modules that extend it *)
(* say what the client does and what the other positions are.              *)
(***************************************************************************)
EXTENDS Link

CONSTANT At            \* the position of the stream

StreamAssumption == At \in 1..(Positions - 1) /\ BlockCount >= 2

Null == 0
Get(block) == (block.mem - 1) * BlockSize + 1
ValidEnd(block) == Get(block) + block.valid

VARIABLES blocks,      \* blocks_: the blocks the stream holds
          it,          \* blocks_it_, counted from 0
          cursor,      \* current_
          blockEnd,    \* block_end_
          marked,      \* marked_
          hitPoison,   \* hit_poison_
          poisoned     \* poisoned_

svars == <<blocks, it, cursor, blockEnd, marked, hitPoison, poisoned>>

StreamInit ==
  /\ blocks = << >> /\ it = 0
  /\ cursor = Null /\ blockEnd = Null /\ marked = Null
  /\ hitPoison = FALSE /\ poisoned = FALSE

\* The stream is between two calls and the thread that uses it runs.
Ready == state[At] = "ready"
Good == Ready /\ ~poisoned
Goto(s) == state' = [state EXCEPT ![At] = s]

\* AppendBlock up to its Consume: it gives up, finds the poison known, or goes
\* on to wait for a block.
AppendBlock(held) ==
  IF Len(held) >= BlockCount THEN Goto("aborted") /\ UNCHANGED poisoned
  ELSE IF hitPoison THEN Goto("ready") /\ poisoned' = TRUE
  ELSE Goto("append") /\ UNCHANGED poisoned

\* The loop of AppendBlock.
AppendConsume ==
  /\ state[At] = "append"
  /\ queue[At - 1] # << >>
  /\ LET get == Head(queue[At - 1]) IN
       IF IsPoison(get)
         THEN /\ hitPoison' = TRUE /\ poisoned' = TRUE
              /\ Goto("ready")
              /\ UNCHANGED <<blocks, it, cursor, blockEnd>>
         ELSE /\ blocks' = Append(blocks, get)
              /\ IF get.valid = 0
                   THEN UNCHANGED <<state, it, cursor, blockEnd>>
                   ELSE /\ Goto("ready")
                        /\ cursor' = Get(get) /\ blockEnd' = ValidEnd(get)
                        /\ it' = Len(blocks)
              /\ UNCHANGED <<hitPoison, poisoned>>
  /\ queue' = [queue EXCEPT ![At - 1] = Tail(@)]
  /\ UNCHANGED <<current, marked>>

\* Init ends with an AppendBlock.
StreamStart ==
  /\ state[At] = "unstarted"
  /\ Goto("append")
  /\ UNCHANGED <<queue, current, svars>>

\* Mutant: the first block is forgotten.
FlushDropsFirst(held, n) ==
  /\ queue' = [queue EXCEPT ![Out(At)] = @ \o SubSeq(held, 2, n)]
  /\ blocks' = SubSeq(held, n + 1, Len(held))

\* Flush(blocks_.begin() + n), with the blocks as they are by then.
Flush(held, n) ==
  /\ queue' = [queue EXCEPT ![Out(At)] = @ \o SubSeq(held, 1, n)]
  /\ blocks' = SubSeq(held, n + 1, Len(held))

\* Mutant: the blocks are sent although there is a mark in them.
ReleaseAlways == Flush(blocks, it + 1) /\ it' = 0

\* Past the last block: without a mark every block is sent.
Release ==
  IF marked = Null THEN Flush(blocks, it + 1) /\ it' = 0
  ELSE UNCHANGED <<queue, blocks>> /\ it' = it + 1

\* operator++ inside a block, into a block that is held, and past the last.
Advance ==
  /\ Good
  /\ UNCHANGED <<current, marked, hitPoison>>
  /\ \/ /\ cursor + 1 # blockEnd
        /\ cursor' = cursor + 1
        /\ UNCHANGED <<queue, state, blocks, it, blockEnd, poisoned>>
     \/ /\ cursor + 1 = blockEnd /\ it + 1 < Len(blocks)
        /\ it' = it + 1
        /\ cursor' = Get(blocks[it + 2]) /\ blockEnd' = ValidEnd(blocks[it + 2])
        /\ UNCHANGED <<queue, state, blocks, poisoned>>
     \/ /\ cursor + 1 = blockEnd /\ it + 1 = Len(blocks)
        /\ cursor' = cursor + 1
        /\ Release
        /\ AppendBlock(blocks')
        /\ UNCHANGED blockEnd

\* Mutant: the blocks before the mark are kept.
MarkKeepsBlocks ==
  /\ Good
  /\ marked' = cursor
  /\ UNCHANGED <<queue, current, state, blocks, it, cursor, blockEnd, hitPoison, poisoned>>

Mark ==
  /\ Good
  /\ marked' = cursor
  /\ Flush(blocks, it)
  /\ it' = 0
  /\ UNCHANGED <<current, state, cursor, blockEnd, hitPoison, poisoned>>

\* Mutant: block_end_ stays that of the block the stream leaves.
RewindKeepsEnd ==
  /\ Ready
  /\ poisoned' = IF cursor # marked THEN FALSE ELSE poisoned
  /\ it' = 0
  /\ cursor' = marked
  /\ UNCHANGED <<queue, current, state, blocks, blockEnd, marked, hitPoison>>

Rewind ==
  /\ Ready
  /\ poisoned' = IF cursor # marked THEN FALSE ELSE poisoned
  /\ it' = 0
  /\ cursor' = marked
  /\ blockEnd' = ValidEnd(blocks[1])
  /\ UNCHANGED <<queue, current, state, blocks, marked, hitPoison>>

\* Poison, which the destructor calls as well: without a block it returns.
PoisonEmpty ==
  /\ Ready /\ blocks = << >>
  /\ Goto("done")
  /\ UNCHANGED <<queue, current, svars>>

\* Otherwise it asserts that the stream is not at its end, and in the last of its
\* blocks; then the blocks are sent, the last one up to the current record.
PoisonFlush ==
  /\ Ready /\ blocks # << >>
  /\ UNCHANGED <<current, cursor, blockEnd, marked, hitPoison, poisoned>>
  /\ IF poisoned \/ it # Len(blocks) - 1
       THEN Goto("aborted") /\ UNCHANGED <<queue, blocks, it>>
       ELSE /\ LET n == Len(blocks) IN
                 Flush([blocks EXCEPT ![n].valid = cursor - Get(blocks[n])], n)
            /\ it' = 0
            /\ Goto("endpoison")

\* Then the poison, in place of a block of its own if none came in.
PoisonProduce ==
  /\ state[At] = "endpoison"
  /\ IF hitPoison
       THEN queue' = [queue EXCEPT ![Out(At)] = Append(@, Poison)]
       ELSE /\ queue[At - 1] # << >>
            /\ queue' = [queue EXCEPT ![At - 1] = Tail(@),
                                      ![Out(At)] = Append(@, SetToPoison(Head(queue[At - 1])))]
  /\ hitPoison' = TRUE /\ poisoned' = TRUE
  /\ Goto("done")
  /\ UNCHANGED <<current, blocks, it, cursor, blockEnd, marked>>

Close == PoisonEmpty \/ PoisonFlush
StreamThread == StreamStart \/ AppendConsume \/ PoisonProduce
=============================================================================
