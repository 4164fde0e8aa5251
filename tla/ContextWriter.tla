---------------------------- MODULE ContextWriter ---------------------------
(***************************************************************************)
(* The use lm::interpolate makes of a RewindableStream (lm/interpolate/    *)
(* normalize.cc): the stream is the first position of a chain; for every   *)
(* context the client marks, writes the probabilities of the words that    *)
(* follow it while it sums them, rewinds, divides every one of them by the *)
(* sum, and marks again to release them.  A worker writes the blocks out   *)
(* and recycles them.                                                      *)
(***************************************************************************)
EXTENDS RewindableStream

CONSTANTS Contexts,    \* how many contexts there are
          Vocabulary   \* how many words there are, and so may follow a context

\* Pipeline() sizes the blocks so that one record of every word fits into all
\* of them but one.
WriterAssumption ==
  /\ StreamAssumption
  /\ At = 1 /\ Positions = 2
  /\ Contexts \in Nat \ {0}
  /\ Vocabulary \in 1..((BlockCount - 1) * BlockSize)

VARIABLES doing,       \* what the client does next
          context,     \* the context it is in
          words,       \* the words that follow this context
          count,       \* the records of it written, or normalised
          before,      \* the records of the contexts before it
          memory,      \* memory[a]: the record at address a
          sent         \* the records the chain has written out

vars == <<lvars, svars, doing, context, words, count, before, memory, sent>>

Sink == Positions

Init ==
  /\ LinkInit
  /\ StreamInit
  /\ doing = "mark" /\ context = 1 /\ words \in 1..Vocabulary /\ count = 0 /\ before = 0
  /\ memory = [a \in 1..(BlockCount * BlockSize) |-> 0]
  /\ sent = << >>

\* SameContext marks before it writes the first record.
MarkContext ==
  /\ doing = "mark"
  /\ Mark
  /\ doing' = "write"
  /\ UNCHANGED <<context, words, count, before, memory, sent>>

\* The record of an n-gram is its number, negative while it is unnormalised.
WriteRecord ==
  /\ doing = "write" /\ count < words
  /\ Advance
  /\ memory' = [memory EXCEPT ![cursor] = -(before + count + 1)]
  /\ count' = count + 1
  /\ UNCHANGED <<doing, context, words, before, sent>>

RewindContext ==
  /\ doing = "write" /\ count = words
  /\ Rewind
  /\ doing' = "normalize" /\ count' = 0
  /\ UNCHANGED <<context, words, before, memory, sent>>

\* ProbWrite() -= z
NormalizeRecord ==
  /\ doing = "normalize" /\ count < words
  /\ Advance
  /\ memory' = [memory EXCEPT ![cursor] = -@]
  /\ count' = count + 1
  /\ UNCHANGED <<doing, context, words, before, sent>>

\* "This allows the stream to release data."
ReleaseContext ==
  /\ doing = "normalize" /\ count = words
  /\ Mark
  /\ IF context < Contexts
       THEN /\ doing' = "mark" /\ context' = context + 1 /\ count' = 0
            /\ before' = before + words /\ words' \in 1..Vocabulary
       ELSE doing' = "finish" /\ UNCHANGED <<context, words, count, before>>
  /\ UNCHANGED <<memory, sent>>

\* Recurse::Finish, and the unigrams' Poison, which comes without a Mark.
Finish ==
  /\ \/ doing = "finish"
     \/ doing = "normalize" /\ count = words /\ context = Contexts
  /\ PoisonFlush
  /\ doing' = "end"
  /\ UNCHANGED <<context, words, count, before, memory, sent>>

Client ==
  \/ MarkContext \/ WriteRecord \/ RewindContext \/ NormalizeRecord
  \/ ReleaseContext \/ Finish
  \/ /\ StreamThread
     /\ UNCHANGED <<doing, context, words, count, before, memory, sent>>

\* WriteAndRecycle::Run
WriteBlock ==
  /\ Pass(Sink, [current[Sink] EXCEPT !.valid = BlockSize])
  /\ sent' = sent \o [k \in 1..current[Sink].valid |-> memory[Get(current[Sink]) + k - 1]]
  /\ UNCHANGED <<svars, doing, context, words, count, before, memory>>

SinkThread ==
  \/ WriteBlock
  \/ /\ Start(Sink) \/ Consume(Sink) \/ PassPoison(Sink)
     /\ UNCHANGED <<svars, doing, context, words, count, before, memory, sent>>

Ended == state[At] = "done" /\ state[Sink] = "done"
Finished == Ended /\ UNCHANGED vars

Next == Client \/ SinkThread \/ Finished

---------------------------------------------------------------------------
\* No record leaves the stream before its context is normalised, none is
\* doubled or normalised twice, and none is lost when the chain has ended.
SentNormalized ==
  /\ \A k \in DOMAIN sent : sent[k] = k
  /\ Ended => Len(sent) = before + words
=============================================================================
