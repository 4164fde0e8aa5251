---------------------------- MODULE BoundedQueue ----------------------------
(***************************************************************************)
(* What util::PCQueue (util/pcqueue.hh) promises its callers: a FIFO of at *)
(* most Size values, to which a call of Produce appends once, at one       *)
(* instant, and from which a call of Consume takes the head once, at one   *)
(* instant.  A call either takes effect or fails without any effect, "the  *)
(* strong exception guarantee" of the header's comment.                    *)
(***************************************************************************)
EXTENDS Integers, Sequences

CONSTANTS Producers,   \* threads that call Produce
          Consumers,   \* threads that call Consume
          Values,      \* the values passed through the queue
          None,        \* no value
          Size         \* the capacity given to the constructor

VARIABLES buffer,      \* the values in the queue, the oldest first
          offered,     \* offered[p]: the value of p's pending Produce, or None
          taken        \* taken[c]: what c's Consume took and is about to return

bvars == <<buffer, offered, taken>>

Init ==
  /\ buffer = << >>
  /\ offered = [p \in Producers |-> None]
  /\ taken = [c \in Consumers |-> None]

Offer(p) ==
  /\ offered[p] = None
  /\ \E v \in Values : offered' = [offered EXCEPT ![p] = v]
  /\ UNCHANGED <<buffer, taken>>

Enqueue(p) ==
  /\ offered[p] # None
  /\ Len(buffer) < Size
  /\ buffer' = Append(buffer, offered[p])
  /\ offered' = [offered EXCEPT ![p] = None]
  /\ UNCHANGED taken

\* A Produce whose assignment throws leaves the queue as it was.
Withdraw(p) ==
  /\ offered[p] # None
  /\ offered' = [offered EXCEPT ![p] = None]
  /\ UNCHANGED <<buffer, taken>>

Dequeue(c) ==
  /\ buffer # << >>
  /\ taken[c] = None
  /\ taken' = [taken EXCEPT ![c] = Head(buffer)]
  /\ buffer' = Tail(buffer)
  /\ UNCHANGED offered

Return(c) ==
  /\ taken[c] # None
  /\ taken' = [taken EXCEPT ![c] = None]
  /\ UNCHANGED <<buffer, offered>>

Next ==
  \/ \E p \in Producers : Offer(p) \/ Enqueue(p) \/ Withdraw(p)
  \/ \E c \in Consumers : Dequeue(c) \/ Return(c)

Spec == Init /\ [][Next]_bvars
=============================================================================
