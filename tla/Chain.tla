------------------------------- MODULE Chain --------------------------------
(***************************************************************************)
(* util::stream::Chain (util/stream/chain.hh, chain.cc) with the workers   *)
(* of util/stream/io.cc: Read at the first position, workers that keep     *)
(* some of the entries at the positions between, Write at the last but one *)
(* and the Recycler at the last.  The thread that owns the chain adds the  *)
(* positions one by one while the earlier ones already run, waits for them,*)
(* drains the lead queue and may start the chain again.                    *)
(***************************************************************************)
EXTENDS Link, Functions

CONSTANTS Entries,   \* Entries[r]: how many entries the file of run r has
          Kept(_)    \* whether the workers in the middle keep an entry

\* Read, Write and the Recycler are three positions.
ASSUME ChainAssumption == Positions >= 3 /\ Entries \in Seq(Nat) /\ Entries # << >>

VARIABLES owner,     \* what the thread that owns the chain is about to do
          run,       \* the run the chain is in
          offset,    \* how many entries Read has read
          memory,    \* memory[b][k]: entry k of block b, as a number
          taken,     \* taken[i]: the entries of its block worker i has gone over
          dest,      \* dest[i]: those of them it has kept
          drained,   \* the blocks Wait has taken out of the lead queue
          written    \* what Write has written in this run

Reader == 1
Writer == Positions - 1
Recycler == Positions
Filters == 2..(Positions - 2)

fvars == <<taken, dest>>
vars == <<lvars, fvars, owner, run, offset, memory, drained, written>>

Init ==
  /\ LinkInit
  /\ owner = "add"
  /\ run = 1
  /\ offset = 0
  /\ memory = [b \in 1..BlockCount |-> [k \in 1..BlockSize |-> 0]]
  /\ taken = [i \in Filters |-> 0] /\ dest = [i \in Filters |-> 0]
  /\ drained = 0
  /\ written = << >>

---------------------------------------------------------------------------
\* The owner.

\* operator>>: Add gives the position its queues, and its thread starts.
Add(i) ==
  /\ owner = "add"
  /\ \A j \in 1..(i - 1) : state[j] # "unstarted"
  /\ Start(i)
  /\ owner' = IF i = Positions THEN "wait" ELSE "add"
  /\ UNCHANGED <<fvars, run, offset, memory, drained, written>>

\* Wait joins every thread.
Join ==
  /\ owner = "wait"
  /\ \A i \in 1..Positions : state[i] = "done"
  /\ owner' = "drain"
  /\ UNCHANGED <<lvars, fvars, run, offset, memory, drained, written>>

\* Wait empties the lead queue up to the poison.
DrainBlock ==
  /\ owner = "drain"
  /\ queue[0] # << >> /\ ~IsPoison(Head(queue[0]))
  /\ IF drained = BlockCount
       THEN owner' = "aborted" /\ UNCHANGED drained
       ELSE drained' = drained + 1 /\ UNCHANGED owner
  /\ queue' = [queue EXCEPT ![0] = Tail(@)]
  /\ UNCHANGED <<current, state, fvars, run, offset, memory, written>>

\* The poison ends Wait; Start populates the queue again, the memory is kept.
DrainPoison ==
  /\ owner = "drain"
  /\ queue[0] # << >> /\ IsPoison(Head(queue[0]))
  /\ IF run < Len(Entries)
       THEN /\ owner' = "add" /\ run' = run + 1
            /\ queue' = [i \in 0..(Positions - 1) |-> IF i = 0 THEN Populated ELSE << >>]
            /\ state' = [i \in 1..Positions |-> "unstarted"]
            /\ offset' = 0 /\ drained' = 0 /\ written' = << >>
       ELSE /\ owner' = "done"
            /\ queue' = [queue EXCEPT ![0] = Tail(@)]
            /\ UNCHANGED <<state, run, offset, drained, written>>
  /\ UNCHANGED <<current, fvars, memory>>

---------------------------------------------------------------------------
\* The workers.

Link(i) ==
  /\ Consume(i) \/ PassPoison(i)
  /\ UNCHANGED <<fvars, owner, run, offset, memory, drained, written>>

\* Read::Run fills the block, or poisons the chain at the end of the file.
ReadBlock ==
  LET left == Entries[run] - offset
      got == IF left < BlockSize THEN left ELSE BlockSize
      mem == current[Reader].mem
  IN  /\ got > 0
      /\ Pass(Reader, [current[Reader] EXCEPT !.valid = got])
      /\ memory' = [memory EXCEPT ![mem] =
                      [k \in 1..BlockSize |-> IF k <= got THEN offset + k ELSE @[k]]]
      /\ offset' = offset + got
      /\ UNCHANGED <<fvars, owner, run, drained, written>>

ReadEnd ==
  /\ offset = Entries[run]
  /\ MakePoison(Reader)
  /\ UNCHANGED <<fvars, owner, run, offset, memory, drained, written>>

\* operator++ of PruneNGramStream copies an entry it keeps to the place behind those
\* it has kept already, in the same block.
FilterEntry(i) ==
  LET mem == current[i].mem
      entry == memory[mem][taken[i] + 1]
  IN  /\ state[i] = "hold" /\ taken[i] < current[i].valid
      /\ IF Kept(entry)
           THEN /\ memory' = [memory EXCEPT ![mem][dest[i] + 1] = entry]
                /\ dest' = [dest EXCEPT ![i] = @ + 1]
           ELSE UNCHANGED <<memory, dest>>
      /\ taken' = [taken EXCEPT ![i] = @ + 1]
      /\ UNCHANGED <<lvars, owner, run, offset, drained, written>>

\* Mutant: the valid size is not shrunk.
FilterBlockKeepsSize(i) ==
  /\ taken[i] = current[i].valid
  /\ Pass(i, current[i])
  /\ taken' = [taken EXCEPT ![i] = 0] /\ dest' = [dest EXCEPT ![i] = 0]
  /\ UNCHANGED <<owner, run, offset, memory, drained, written>>

\* At the end of the block its valid size shrinks to what was kept, to 0 if that is
\* nothing, and StartBlock goes to the next.
FilterBlock(i) ==
  /\ taken[i] = current[i].valid
  /\ Pass(i, [current[i] EXCEPT !.valid = dest[i]])
  /\ taken' = [taken EXCEPT ![i] = 0] /\ dest' = [dest EXCEPT ![i] = 0]
  /\ UNCHANGED <<owner, run, offset, memory, drained, written>>

\* Write::Run
WriteBlock ==
  /\ Pass(Writer, current[Writer])
  /\ written' = written \o SubSeq(memory[current[Writer].mem], 1, current[Writer].valid)
  /\ UNCHANGED <<fvars, owner, run, offset, memory, drained>>

\* Recycler::Run
RecycleBlock ==
  /\ Pass(Recycler, [current[Recycler] EXCEPT !.valid = BlockSize])
  /\ UNCHANGED <<fvars, owner, run, offset, memory, drained, written>>

Worker(i) ==
  \/ Link(i)
  \/ i = Reader /\ (ReadBlock \/ ReadEnd)
  \/ i \in Filters /\ (FilterEntry(i) \/ FilterBlock(i))
  \/ i = Writer /\ WriteBlock
  \/ i = Recycler /\ RecycleBlock

Owner == (\E i \in 1..Positions : Add(i)) \/ Join \/ DrainBlock \/ DrainPoison

Finished == owner = "done" /\ UNCHANGED vars

Next == Owner \/ (\E i \in 1..Positions : Worker(i)) \/ Finished

Spec == Init /\ [][Next]_vars

FairSpec ==
  /\ Spec
  /\ WF_vars(Owner)
  /\ \A i \in 1..Positions : WF_vars(Worker(i))

---------------------------------------------------------------------------
\* The threads share the blocks' memory without a lock: no block is in two
\* places, be they a place in a queue or the hands of a link.
NoBlockShared ==
  \A b \in 1..BlockCount :
    Cardinality({ik \in (0..(Positions - 1)) \X (1..BlockCount) :
                   ik[2] <= Len(queue[ik[1]]) /\ queue[ik[1]][ik[2]].mem = b})
    + Cardinality({i \in 1..Positions : state[i] = "hold" /\ current[i].mem = b}) <= 1

\* The order of the chain is the order of the file: Write has written, each once and
\* in order, what the middle workers keep of the first entries of the file, nothing of
\* an earlier use of a block or of an earlier run, and of the whole file when the
\* poison has gone round.
KeptBefore(n) == {e \in 1..n : Filters = {} \/ Kept(e)}
WritesTheFile ==
  /\ \A j, k \in DOMAIN written : j < k => written[j] < written[k]
  /\ \E n \in 0..offset : Range(written) = KeptBefore(n)
  /\ owner \in {"drain", "done"} => Range(written) = KeptBefore(Entries[run])

\* The chain comes to its end however often it is started: the poison comes back
\* behind every block, so "Chain ending without poison" (chain.cc:69) does not
\* happen either.
Terminates == <>(owner = "done")
=============================================================================
