----------------------------- MODULE ThreadPool -----------------------------
(***************************************************************************)
(* util::ThreadPool of util/thread_pool.hh: one PCQueue of requests, the   *)
(* worker threads that consume it, and the destructor, which produces one  *)
(* poison for every worker and then joins them.                            *)
(*                                                                         *)
(* The queue is taken at the level PCQueue is shown to implement, the one  *)
(* of BoundedQueue: Produce and Consume take effect at one instant and     *)
(* wait while the queue is full or empty.  What the handler does with a    *)
(* request belongs to the modules that instantiate this one.               *)
(***************************************************************************)
EXTENDS Integers, Sequences, FiniteSets

CONSTANTS Workers,     \* the worker threads
          QueueLength, \* queue_length of the constructor, the size of in_
          Poison,      \* the request that makes a worker return
          Idle         \* no request

VARIABLES in,          \* in_: the requests that wait
          held,        \* held[w]: the request w's handler is busy with, or Idle
          live,        \* the workers that have not returned
          poisons      \* how many times the destructor has produced the poison

tpvars == <<in, held, live, poisons>>

Init ==
  /\ in = << >>
  /\ held = [w \in Workers |-> Idle]
  /\ live = Workers
  /\ poisons = 0

\* Room for one more request: a Produce that finds none waits.
CanProduce == Len(in) < QueueLength

Produce(request) ==
  /\ CanProduce
  /\ in' = Append(in, request)
  /\ UNCHANGED <<held, live, poisons>>

\* Worker::operator() takes a request and calls the handler on it, or returns.
Consume(w) ==
  /\ w \in live
  /\ held[w] = Idle
  /\ in # << >>
  /\ in' = Tail(in)
  /\ IF Head(in) = Poison
       THEN live' = live \ {w} /\ UNCHANGED held
       ELSE held' = [held EXCEPT ![w] = Head(in)] /\ UNCHANGED live
  /\ UNCHANGED poisons

\* The handler returns and the worker goes back to Consume.
Handled(w) ==
  /\ held' = [held EXCEPT ![w] = Idle]
  /\ UNCHANGED <<in, live, poisons>>

\* Mutant: one poison for the whole pool.
OnePoison ==
  /\ poisons = 0
  /\ CanProduce
  /\ in' = Append(in, Poison)
  /\ poisons' = Cardinality(Workers)
  /\ UNCHANGED <<held, live>>

\* The first loop of ~ThreadPool.
ProducePoison ==
  /\ poisons < Cardinality(Workers)
  /\ CanProduce
  /\ in' = Append(in, Poison)
  /\ poisons' = poisons + 1
  /\ UNCHANGED <<held, live>>

\* Mutant: the destructor does not wait for the workers.
JoinedEarly == poisons = Cardinality(Workers)

\* The second loop of ~ThreadPool gets past every Join.
Joined ==
  /\ poisons = Cardinality(Workers)
  /\ live = {}
=============================================================================
