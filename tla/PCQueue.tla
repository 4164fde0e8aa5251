------------------------------- MODULE PCQueue -------------------------------
(***************************************************************************)
(* util/pcqueue.hh, the producer consumer queue of every multithreaded     *)
(* part: two counting semaphores, one mutex per end, a ring of Size slots. *)
(* A thread's program counter is its place in Produce or Consume; each     *)
(* step is one access to shared state.  The assignment of a value may      *)
(* throw and then leaves the assigned object in any state.                 *)
(***************************************************************************)
EXTENDS Integers, Sequences, FiniteSets

CONSTANTS Producers, Consumers, Values, None, Size

ASSUME ThreadsAssumption ==
  /\ IsFiniteSet(Producers)
  /\ IsFiniteSet(Consumers)
  /\ Producers \cap Consumers = {}
  /\ None \notin Producers \cup Consumers
ASSUME ValuesAssumption == None \notin Values
ASSUME SizeAssumption == Size \in Nat \ {0}

VARIABLES
  empty, used,                    \* the semaphores empty_ and used_
  storage, produceAt, consumeAt,  \* the ring, its write and its read index
  produceLock, consumeLock,       \* the owner of each mutex, or None
  pc,                             \* where each thread is
  val,                            \* val[p]: the argument of p's Produce
  out                             \* out[c]: the object c's Consume assigns to

vars == <<empty, used, storage, produceAt, consumeAt,
          produceLock, consumeLock, pc, val, out>>

Slots == 0 .. Size - 1
Threads == Producers \cup Consumers
\* Mutant: the index is not taken back to the start of the ring.
Next1Stuck(i) == IF i + 1 = Size THEN i ELSE i + 1
Next1(i) == IF i + 1 = Size THEN 0 ELSE i + 1

Init ==
  /\ empty = Size
  /\ used = 0
  /\ storage = [i \in Slots |-> None]
  /\ produceAt = 0
  /\ consumeAt = 0
  /\ produceLock = None
  /\ consumeLock = None
  /\ pc = [t \in Threads |-> "idle"]
  /\ val = [p \in Producers |-> None]
  /\ out = [c \in Consumers |-> None]

At(t, l) == pc[t] = l
Goto(t, l) == pc' = [pc EXCEPT ![t] = l]

------------------------------------------------------------------------------
\* Produce

CallProduce(p) ==
  /\ At(p, "idle")
  /\ \E v \in Values : val' = [val EXCEPT ![p] = v]
  /\ Goto(p, "wait")
  /\ UNCHANGED <<empty, used, storage, produceAt, consumeAt, produceLock, consumeLock, out>>

WaitEmpty(p) ==
  /\ At(p, "wait")
  /\ empty > 0
  /\ empty' = empty - 1
  /\ Goto(p, "lock")
  /\ UNCHANGED <<used, storage, produceAt, consumeAt, produceLock, consumeLock, val, out>>

LockProduce(p) ==
  /\ At(p, "lock")
  /\ produceLock = None
  /\ produceLock' = p
  /\ Goto(p, "assign")
  /\ UNCHANGED <<empty, used, storage, produceAt, consumeAt, consumeLock, val, out>>

AssignSlot(p) ==
  /\ At(p, "assign")
  /\ storage' = [storage EXCEPT ![produceAt] = val[p]]
  /\ Goto(p, "advance")
  /\ UNCHANGED <<empty, used, produceAt, consumeAt, produceLock, consumeLock, val, out>>

\* Mutant: the catch is missing, the index advances past a slot that was not assigned.
AssignSlotThrowsUncaught(p) ==
  /\ At(p, "assign")
  /\ \E junk \in Values \cup {None} : storage' = [storage EXCEPT ![produceAt] = junk]
  /\ Goto(p, "advance")
  /\ UNCHANGED <<empty, used, produceAt, consumeAt, produceLock, consumeLock, val, out>>

AssignSlotThrows(p) ==
  /\ At(p, "assign")
  /\ \E junk \in Values \cup {None} : storage' = [storage EXCEPT ![produceAt] = junk]
  /\ Goto(p, "undo")
  /\ UNCHANGED <<empty, used, produceAt, consumeAt, produceLock, consumeLock, val, out>>

\* catch (...): the space is given back, then the exception releases the lock.
UndoProduce(p) ==
  /\ At(p, "undo")
  /\ empty' = empty + 1
  /\ Goto(p, "unwind")
  /\ UNCHANGED <<used, storage, produceAt, consumeAt, produceLock, consumeLock, val, out>>

UnwindProduce(p) ==
  /\ At(p, "unwind")
  /\ produceLock' = None
  /\ val' = [val EXCEPT ![p] = None]
  /\ Goto(p, "idle")
  /\ UNCHANGED <<empty, used, storage, produceAt, consumeAt, consumeLock, out>>

AdvanceProduce(p) ==
  /\ At(p, "advance")
  /\ produceAt' = Next1(produceAt)
  /\ produceLock' = None
  /\ Goto(p, "post")
  /\ UNCHANGED <<empty, used, storage, consumeAt, consumeLock, val, out>>

PostUsed(p) ==
  /\ At(p, "post")
  /\ used' = used + 1
  /\ val' = [val EXCEPT ![p] = None]
  /\ Goto(p, "idle")
  /\ UNCHANGED <<empty, storage, produceAt, consumeAt, produceLock, consumeLock, out>>

------------------------------------------------------------------------------
\* Consume

CallConsume(c) ==
  /\ At(c, "idle")
  /\ Goto(c, "wait")
  /\ UNCHANGED <<empty, used, storage, produceAt, consumeAt, produceLock, consumeLock, val, out>>

WaitUsed(c) ==
  /\ At(c, "wait")
  /\ used > 0
  /\ used' = used - 1
  /\ Goto(c, "lock")
  /\ UNCHANGED <<empty, storage, produceAt, consumeAt, produceLock, consumeLock, val, out>>

LockConsume(c) ==
  /\ At(c, "lock")
  /\ consumeLock = None
  /\ consumeLock' = c
  /\ Goto(c, "assign")
  /\ UNCHANGED <<empty, used, storage, produceAt, consumeAt, produceLock, val, out>>

AssignOut(c) ==
  /\ At(c, "assign")
  /\ out' = [out EXCEPT ![c] = storage[consumeAt]]
  /\ Goto(c, "advance")
  /\ UNCHANGED <<empty, used, storage, produceAt, consumeAt, produceLock, consumeLock, val>>

AssignOutThrows(c) ==
  /\ At(c, "assign")
  /\ \E junk \in Values \cup {None} : out' = [out EXCEPT ![c] = junk]
  /\ Goto(c, "undo")
  /\ UNCHANGED <<empty, used, storage, produceAt, consumeAt, produceLock, consumeLock, val>>

\* Mutant: the catch gives back a space instead of the value.
UndoConsumePostsEmpty(c) ==
  /\ At(c, "undo")
  /\ empty' = empty + 1
  /\ Goto(c, "unwind")
  /\ UNCHANGED <<used, storage, produceAt, consumeAt, produceLock, consumeLock, val, out>>

\* Mutant: the value is not given back.
UndoConsumePostsNothing(c) ==
  /\ At(c, "undo")
  /\ Goto(c, "unwind")
  /\ UNCHANGED <<empty, used, storage, produceAt, consumeAt, produceLock, consumeLock, val, out>>

UndoConsume(c) ==
  /\ At(c, "undo")
  /\ used' = used + 1
  /\ Goto(c, "unwind")
  /\ UNCHANGED <<empty, storage, produceAt, consumeAt, produceLock, consumeLock, val, out>>

UnwindConsume(c) ==
  /\ At(c, "unwind")
  /\ consumeLock' = None
  /\ out' = [out EXCEPT ![c] = None]
  /\ Goto(c, "idle")
  /\ UNCHANGED <<empty, used, storage, produceAt, consumeAt, produceLock, val>>

AdvanceConsume(c) ==
  /\ At(c, "advance")
  /\ consumeAt' = Next1(consumeAt)
  /\ consumeLock' = None
  /\ Goto(c, "post")
  /\ UNCHANGED <<empty, used, storage, produceAt, produceLock, val, out>>

PostEmpty(c) ==
  /\ At(c, "post")
  /\ empty' = empty + 1
  /\ out' = [out EXCEPT ![c] = None]
  /\ Goto(c, "idle")
  /\ UNCHANGED <<used, storage, produceAt, consumeAt, produceLock, consumeLock, val>>

------------------------------------------------------------------------------
InProduce(p) ==
  \/ WaitEmpty(p) \/ LockProduce(p) \/ AssignSlot(p) \/ AssignSlotThrows(p)
  \/ UndoProduce(p) \/ UnwindProduce(p) \/ AdvanceProduce(p) \/ PostUsed(p)

InConsume(c) ==
  \/ WaitUsed(c) \/ LockConsume(c) \/ AssignOut(c) \/ AssignOutThrows(c)
  \/ UndoConsume(c) \/ UnwindConsume(c) \/ AdvanceConsume(c) \/ PostEmpty(c)

Next ==
  \/ \E p \in Producers : CallProduce(p) \/ InProduce(p)
  \/ \E c \in Consumers : CallConsume(c) \/ InConsume(c)

Spec == Init /\ [][Next]_vars

\* A thread inside a call keeps running unless it is blocked; nothing obliges
\* a thread to call again.  An assignment does not throw for ever.
Fairness ==
  /\ \A p \in Producers : WF_vars(InProduce(p))
  /\ \A c \in Consumers : WF_vars(InConsume(c)) /\ SF_vars(AssignOut(c))

FairSpec == Spec /\ Fairness
------------------------------------------------------------------------------
\* Properties

PLabels == {"idle", "wait", "lock", "assign", "advance", "undo", "unwind", "post"}

TypeOK ==
  /\ empty \in 0 .. Size
  /\ used \in 0 .. Size
  /\ storage \in [Slots -> Values \cup {None}]
  /\ produceAt \in Slots
  /\ consumeAt \in Slots
  /\ produceLock \in Producers \cup {None}
  /\ consumeLock \in Consumers \cup {None}
  /\ pc \in [Threads -> PLabels]
  /\ val \in [Producers -> Values \cup {None}]
  /\ out \in [Consumers -> Values \cup {None}]

Having(T, L) == {t \in T : pc[t] \in L}

\* Producers holding a space they have not filled, and consumers holding a
\* value they have not taken out.
Holding == {"lock", "assign", "advance", "undo"}
Posting == {"post"}
Filling == Having(Producers, Holding)
Emptying == Having(Consumers, Holding)
Filled == Having(Producers, Posting)
Emptied == Having(Consumers, Posting)

\* The values between the read index and the write index.
Occupied == used + Cardinality(Filled) + Cardinality(Emptying)
Slot(k) == LET i == consumeAt + k IN IF i >= Size THEN i - Size ELSE i

\* Every slot is accounted for: free, full, or held by exactly one thread.  A
\* path that posts the wrong semaphore, twice or not at all loses a slot, and
\* after Size such calls the queue is stuck.
TokensConserved ==
  empty + Cardinality(Filling) + Occupied + Cardinality(Emptied) = Size

\* The write index is as far ahead of the read index as there are values.
IndicesAgree == produceAt = Slot(Occupied)

\* A producer's assignment and a consumer's assignment never touch the same
\* slot, although they hold different mutexes.
NoSlotRace ==
  \A p \in Producers, c \in Consumers :
    pc[p] \in {"assign", "advance"} /\ pc[c] \in {"assign", "advance"}
      => produceAt # consumeAt

\* Whatever order threads are interleaved in and whichever assignments throw,
\* the calls behave as instantaneous operations on a bounded FIFO.
Buffer == [k \in 1 .. Occupied |-> storage[Slot(k - 1)]]
Offered ==
  [p \in Producers |->
     IF pc[p] \in {"wait", "lock", "assign", "advance", "undo", "unwind"} THEN val[p] ELSE None]
Taken == [c \in Consumers |-> IF pc[c] = "post" THEN out[c] ELSE None]

Fifo == INSTANCE BoundedQueue WITH buffer <- Buffer, offered <- Offered, taken <- Taken
IsFifo == Fifo!Spec

\* No wake-up is lost: when a consumer is blocked on a queue that holds a value,
\* some consumer gets a value or none is blocked any more.
WaitingConsumerServed ==
  (Occupied > 0 /\ \E c \in Consumers : At(c, "wait"))
     ~> (\E c \in Consumers : At(c, "post")) \/ ~\E c \in Consumers : At(c, "wait")
==============================================================================
