-------------------------------- MODULE Link --------------------------------
(***************************************************************************)
(* util::stream::Link and the queues of a Chain (util/stream/chain.cc).    *)
(* A chain has positions 1..Positions; the link at position i consumes     *)
(* from queue i - 1 and produces to queue i, and the last position, which  *)
(* closes the loop, produces to queue 0.  A fixed set of blocks goes round,*)
(* and a poison, a block without memory, follows the last of them.         *)
(*                                                                         *)
(* The queues are PCQueues at the level of BoundedQueue.                   *)
(***************************************************************************)
EXTENDS Integers, Sequences, FiniteSets

CONSTANTS Positions,   \* the positions of the chain, the recycler's included
          BlockCount,  \* ChainConfig::block_count
          BlockSize    \* the entries a block has room for

ASSUME LinkAssumption ==
  /\ Positions \in Nat /\ Positions >= 2
  /\ BlockCount \in Nat \ {0}
  /\ BlockSize \in Nat \ {0}

NoMemory == 0
Poison == [mem |-> NoMemory, valid |-> 0]
FullBlock(b) == [mem |-> b, valid |-> BlockSize]

VARIABLES queue,    \* queue[i]: the blocks between position i and position i + 1
          current,  \* current[i]: current_ of the link at position i
          state     \* state[i]: what the thread of position i is about to do

lvars == <<queue, current, state>>

Out(i) == i % Positions    \* the queue position i produces to
IsPoison(block) == block.mem = NoMemory
SetToPoison(block) == [block EXCEPT !.mem = NoMemory]
CanProduce(i) == Len(queue[Out(i)]) < BlockCount

\* Chain::Start puts every block into the lead queue.
Populated == [b \in 1..BlockCount |-> FullBlock(b)]

LinkInit ==
  /\ queue = [i \in 0..(Positions - 1) |-> IF i = 0 THEN Populated ELSE << >>]
  /\ current = [i \in 1..Positions |-> Poison]
  /\ state = [i \in 1..Positions |-> "unstarted"]

Start(i) ==
  /\ state[i] = "unstarted"
  /\ state' = [state EXCEPT ![i] = "consume"]
  /\ UNCHANGED <<queue, current>>

\* Mutant: the block stays in the queue.
ConsumeKeepsHead(i) ==
  /\ state[i] = "consume"
  /\ queue[i - 1] # << >>
  /\ current' = [current EXCEPT ![i] = Head(queue[i - 1])]
  /\ state' = [state EXCEPT ![i] = IF IsPoison(Head(queue[i - 1])) THEN "poison" ELSE "hold"]
  /\ UNCHANGED queue

\* in_->Consume(current_), of Init and of operator++.
Consume(i) ==
  /\ state[i] = "consume"
  /\ queue[i - 1] # << >>
  /\ current' = [current EXCEPT ![i] = Head(queue[i - 1])]
  /\ queue' = [queue EXCEPT ![i - 1] = Tail(@)]
  /\ state' = [state EXCEPT ![i] = IF IsPoison(Head(queue[i - 1])) THEN "poison" ELSE "hold"]

\* The poison goes on, in operator++ or in ~Link.
PassPoison(i) ==
  /\ state[i] = "poison"
  /\ CanProduce(i)
  /\ queue' = [queue EXCEPT ![Out(i)] = Append(@, current[i])]
  /\ state' = [state EXCEPT ![i] = "done"]
  /\ UNCHANGED current

\* The first half of operator++, with the block as the worker leaves it.
Pass(i, block) ==
  /\ state[i] = "hold"
  /\ CanProduce(i)
  /\ queue' = [queue EXCEPT ![Out(i)] = Append(@, block)]
  /\ state' = [state EXCEPT ![i] = "consume"]
  /\ UNCHANGED current

\* Mutant: Poison does not pass the block on.
MakePoisonSilent(i) ==
  /\ state[i] = "hold"
  /\ current' = [current EXCEPT ![i] = SetToPoison(@)]
  /\ state' = [state EXCEPT ![i] = "done"]
  /\ UNCHANGED queue

\* Link::Poison: the block the link holds becomes the poison.
MakePoison(i) ==
  /\ state[i] = "hold"
  /\ CanProduce(i)
  /\ queue' = [queue EXCEPT ![Out(i)] = Append(@, SetToPoison(current[i]))]
  /\ current' = [current EXCEPT ![i] = SetToPoison(@)]
  /\ state' = [state EXCEPT ![i] = "done"]
=============================================================================
