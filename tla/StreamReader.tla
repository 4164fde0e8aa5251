---------------------------- MODULE StreamReader ----------------------------
(***************************************************************************)
(* A RewindableStream in the middle of a chain, as its test uses it        *)
(* (util/stream/rewindable_stream_test.cc): an upstream position fills     *)
(* blocks, the client reads the records, marks some of them, goes back to  *)
(* the mark, and lets the destructor end the stream; WriteAndRecycle is    *)
(* behind it.                                                              *)
(***************************************************************************)
EXTENDS RewindableStream, Functions

CONSTANTS Uses,        \* how many records the blocks from upstream have, how often
                       \* the client goes back before the end, and how far from
                       \* its mark it goes
          Marks,       \* whether it makes sure that there is a mark at the end
          Returns      \* whether it goes back to the mark before it is destroyed

ReaderAssumption ==
  /\ StreamAssumption
  /\ At = 2 /\ Positions = 3
  /\ \A u \in Uses : u.fills \in Seq(0..BlockSize) /\ u.rewinds \in Nat /\ u.limit \in Nat
  /\ Marks \in BOOLEAN /\ Returns \in BOOLEAN

VARIABLES use,         \* the use that is made of the stream
          filled,      \* how many blocks upstream has filled
          memory,      \* memory[a]: the record at address a
          next,        \* the number of the record the client is at
          mark,        \* the number of the record it has marked
          rewinds,     \* how often it has gone back
          sent         \* the records the chain has written out

cvars == <<next, mark, rewinds>>
vars == <<lvars, svars, use, filled, memory, cvars, sent>>

Upstream == 1
Sink == Positions
Fills == use.fills
Before(k) == SumFunctionOnSet(Fills, 1..k)    \* the records of the first k blocks
Total == Before(Len(Fills))

Init ==
  /\ LinkInit
  /\ StreamInit
  /\ use \in Uses
  /\ filled = 0
  /\ memory = [a \in 1..(BlockCount * BlockSize) |-> 0]
  /\ next = 1 /\ mark = 0 /\ rewinds = 0
  /\ sent = << >>

\* Upstream numbers the records; it poisons the chain after the last block.
FillBlock ==
  /\ filled < Len(Fills)
  /\ LET block == current[Upstream]
         got == Fills[filled + 1]
     IN  /\ Pass(Upstream, [block EXCEPT !.valid = got])
         /\ memory' = [a \in DOMAIN memory |->
                         IF a \in Get(block)..(Get(block) + got - 1)
                           THEN Before(filled) + a - Get(block) + 1 ELSE memory[a]]
  /\ filled' = filled + 1
  /\ UNCHANGED <<use, svars, cvars, sent>>

FillEnd ==
  /\ filled = Len(Fills)
  /\ MakePoison(Upstream)
  /\ UNCHANGED <<use, svars, filled, memory, cvars, sent>>

UpstreamThread ==
  \/ FillBlock \/ FillEnd
  \/ /\ Start(Upstream) \/ Consume(Upstream)
     /\ UNCHANGED <<use, svars, filled, memory, cvars, sent>>

\* The client.  It may go back as often as its use allows, and once more where it has
\* come to the end, which it does not leave open again.
ReadOn ==
  /\ mark # 0 => next - mark < use.limit
  /\ Marks /\ mark = 0 => next < Total
  /\ Returns /\ rewinds > use.rewinds => next < Total
  /\ Advance
  /\ next' = next + 1
  /\ UNCHANGED <<use, filled, memory, mark, rewinds, sent>>

MarkHere ==
  /\ Mark
  /\ mark' = next
  /\ UNCHANGED <<use, filled, memory, next, rewinds, sent>>

GoBack ==
  /\ mark # 0
  /\ rewinds < use.rewinds \/ (poisoned /\ rewinds = use.rewinds)
  /\ Rewind
  /\ next' = mark
  /\ rewinds' = rewinds + 1
  /\ UNCHANGED <<use, filled, memory, mark, sent>>

\* The destructor: the input is at its end, and the client has gone back into the last
\* of the blocks it has.
Destroy ==
  /\ hitPoison
  /\ ~poisoned => it = Len(blocks) - 1
  /\ Returns /\ poisoned => blocks = << >>
  /\ Close
  /\ UNCHANGED <<use, filled, memory, cvars, sent>>

Stream == StreamThread /\ UNCHANGED <<use, filled, memory, cvars, sent>>

Client ==
  \/ ReadOn \/ MarkHere \/ GoBack \/ Destroy
  \/ Stream

\* WriteAndRecycle::Run
WriteBlock ==
  /\ Pass(Sink, [current[Sink] EXCEPT !.valid = BlockSize])
  /\ sent' = sent \o [k \in 1..current[Sink].valid |-> memory[Get(current[Sink]) + k - 1]]
  /\ UNCHANGED <<use, svars, filled, memory, cvars>>

SinkThread ==
  \/ WriteBlock
  \/ /\ Start(Sink) \/ Consume(Sink) \/ PassPoison(Sink)
     /\ UNCHANGED <<use, svars, filled, memory, cvars, sent>>

Ended == \A i \in 1..Positions : state[i] = "done"
Finished == Ended /\ UNCHANGED vars

Next == UpstreamThread \/ Client \/ SinkThread \/ Finished

\* What the client does without choosing to: it may mark, but must mark only
\* where it can go no further; and go back, but must only from the end.
MustMark == (mark = 0 /\ next = Total) \/ (mark # 0 /\ next - mark = use.limit)
MustGoOn == ReadOn \/ (MustMark /\ MarkHere) \/ (poisoned /\ GoBack) \/ Destroy \/ Stream

---------------------------------------------------------------------------
\* The record the client is at is the next one, and the end comes when, and only
\* when, it is there.
InOrder ==
  /\ Good => memory[cursor] = next
  /\ Ready => (poisoned <=> next = Total + 1)

\* What is written is what was read, up to where the client left the stream.
SentAsRead ==
  /\ \A k \in DOMAIN sent : sent[k] = k
  /\ Ended => Len(sent) = next - 1
=============================================================================
