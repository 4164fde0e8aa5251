----------------------------- MODULE ChainProofs -----------------------------
(***************************************************************************)
(* No two threads of a chain of util/stream/chain.hh have the same block,  *)
(* and what the chain writes is what its filters keep of the file it reads,*)
(* for any number of positions and blocks, any files and any filters.      *)
(***************************************************************************)
EXTENDS Chain, FiniteSetTheorems, SequenceTheorems, TLAPS

Blocks == [mem : 0 .. BlockCount, valid : 0 .. BlockSize]
Queues == 0 .. Positions - 1

Types ==
  /\ queue \in [Queues -> Seq(Blocks)]
  /\ current \in [1 .. Positions -> Blocks]
  /\ state \in [1 .. Positions -> {"unstarted", "consume", "hold", "poison", "done"}]
  /\ run \in 1 .. Len(Entries) /\ offset \in Nat

\* A link holds the memory of its block until it passes it on.
Holds(i) == state[i] = "hold"
HoldsMemory ==
  /\ \A i \in 1 .. Positions : Holds(i) => ~IsPoison(current[i])
  /\ \A i \in 1 .. Positions : state[i] = "poison" => IsPoison(current[i])

\* The memory in one place of a queue is in no other place of any queue,
QueuedOnce ==
  \A i, j \in Queues : \A k \in 1 .. Len(queue[i]), l \in 1 .. Len(queue[j]) :
    ~IsPoison(queue[i][k]) /\ queue[i][k].mem = queue[j][l].mem => i = j /\ k = l

\* not in the hands of a link,
QueuedOrHeld ==
  \A i \in 1 .. Positions, j \in Queues : \A l \in 1 .. Len(queue[j]) :
    Holds(i) => current[i].mem # queue[j][l].mem

\* and no two links have the same.
HeldOnce ==
  \A i, j \in 1 .. Positions :
    Holds(i) /\ Holds(j) /\ current[i].mem = current[j].mem => i = j

\* While the lead queue is drained, every link has ended.
Joined == owner \in {"drain", "done", "aborted"} => \A i \in 1 .. Positions : state[i] = "done"

IInv == Types /\ HoldsMemory /\ QueuedOnce /\ QueuedOrHeld /\ HeldOnce /\ Joined

---------------------------------------------------------------------------
\* What the places of a chain hold.  The blocks of a run are numbered in the order
\* Read passes them on, the poison is the last of them: c[i] is how many position i
\* has passed on, b[n] the number of entries Read has read up to block n.

\* What has gone past position i.
Lets(i, e) == i = Reader \/ Filters = {} \/ Kept(e)
Chunk(b, n, i) == {e \in (b[n - 1] + 1) .. b[n] : Lets(i, e)}

Increasing(row, places) == \A j, k \in places : j < k => row[j] < row[k]
On(row, places) == {row[k] : k \in places}
Has(b, n, i, row, places) == Increasing(row, places) /\ On(row, places) = Chunk(b, n, i)

\* A filter has kept the first Dest entries and has those behind Taken before it.
Taken(i) == IF i \in Filters THEN taken[i] ELSE 0
Dest(i) == IF i \in Filters THEN dest[i] ELSE 0
Places(s, t, v) == (1 .. s) \cup ((t + 1) .. v)
Live(i) == Places(Dest(i), Taken(i), current[i].valid)
Halfway(b, n, i) ==
  LET row == memory[current[i].mem]
  IN  /\ Increasing(row, Live(i))
      /\ On(row, Live(i)) \subseteq Chunk(b, n, i - 1)
      /\ Chunk(b, n, i) \subseteq On(row, Live(i))
      /\ \A k \in 1 .. Dest(i) : Lets(i, row[k])

Entering ==
  /\ memory \in [1 .. BlockCount -> [1 .. BlockSize -> Nat]]
  /\ written \in Seq(Nat)
  /\ taken \in [Filters -> Nat] /\ dest \in [Filters -> Nat]
  /\ \A i \in Filters : /\ dest[i] <= taken[i]
                        /\ IF Holds(i) THEN taken[i] <= current[i].valid ELSE taken[i] = 0

\* The poison goes round behind the blocks, and Read is the first to end.
Ends ==
  /\ state[Reader] # "poison"
  /\ state[Reader] = "done" => offset = Entries[run]
  /\ \A i \in 2 .. Positions :
       state[i] \in {"poison", "done"} => state[i - 1] = "done" /\ state[Reader] = "done"
  /\ \A i \in 1 .. Positions : \A k \in 1 .. Len(queue[Out(i)]) :
       IsPoison(queue[Out(i)][k]) => state[i] = "done"

Hand(i) == IF state[i] \in {"hold", "poison"} THEN 1 ELSE 0
Lengths(c) == \A i \in 1 .. Writer - 1 : Len(queue[i]) = c[i] - (c[i + 1] + Hand(i + 1))
Passed(c) ==
  /\ \A i \in 1 .. Writer : c[i] <= c[Reader] /\ (state[i] = "done" => c[i] = c[Reader])
  /\ \A i \in 2 .. Writer : state[i] \in {"poison", "done"} => c[i] + Hand(i) = c[i - 1]
HasRead(c, b) ==
  /\ b[0] = 0
  /\ \A m, n \in Nat : m <= n => b[m] <= b[n]
  /\ \A n \in Nat : n >= c[Reader] => b[n] = offset
  /\ state[Reader] = "done" => c[Reader] > 0 /\ b[c[Reader] - 1] = offset
Carried(c, b) ==
  /\ \A i \in 1 .. Writer - 1 : \A k \in 1 .. Len(queue[i]) :
       IF IsPoison(queue[i][k])
         THEN k = Len(queue[i])
         ELSE Has(b, c[i + 1] + Hand(i + 1) + k, i, memory[queue[i][k].mem],
                  1 .. queue[i][k].valid)
  /\ \A i \in 2 .. Writer : Holds(i) => Halfway(b, c[i] + 1, i)
Wrote(c, b) ==
  /\ Increasing(written, 1 .. Len(written))
  /\ On(written, 1 .. Len(written)) = {e \in 1 .. b[c[Writer]] : Lets(Writer, e)}

Flow(c, b) == Lengths(c) /\ Passed(c) /\ HasRead(c, b) /\ Carried(c, b) /\ Wrote(c, b)
Counts(c) == c \in [1 .. Positions -> Nat]
Bounds(b) == b \in [Nat -> Nat]
FInv == Entering /\ Ends /\ \E c, b : Counts(c) /\ Bounds(b) /\ Flow(c, b)

---------------------------------------------------------------------------
\* What a position does to the queues and the links.
Moved(i) ==
  \/ Start(i)
  \/ Consume(i)
  \/ PassPoison(i)
  \/ \E block \in Blocks : block.mem = current[i].mem /\ Pass(i, block)
  \/ MakePoison(i)

LEMMA StartInvariant ==
  ASSUME IInv, NEW i \in 1 .. Positions, Start(i), UNCHANGED <<run, offset>>, Joined'
  PROVE  IInv'
<1>1. /\ queue' = queue /\ current' = current /\ state' = [state EXCEPT ![i] = "consume"]
      /\ state \in [1 .. Positions -> {"unstarted", "consume", "hold", "poison", "done"}]
  BY DEF Start, IInv, Types
<1>2. Types'
  BY <1>1 DEF IInv, Types
<1>3. \A j \in 1 .. Positions : Holds(j)' => Holds(j)
  BY <1>1 DEF Holds
<1>4. HoldsMemory'
  BY <1>1, <1>3 DEF IInv, HoldsMemory, IsPoison
<1>5. QueuedOnce' /\ QueuedOrHeld' /\ HeldOnce'
  BY <1>1, <1>3 DEF IInv, QueuedOnce, QueuedOrHeld, HeldOnce, IsPoison
<1> QED BY <1>2, <1>4, <1>5 DEF IInv

LEMMA ConsumeInvariant ==
  ASSUME IInv, NEW i \in 1 .. Positions, Consume(i), UNCHANGED <<run, offset>>, Joined'
  PROVE  IInv'
<1> USE LinkAssumption
<1> DEFINE b == Head(queue[i - 1])
<1>1. /\ i - 1 \in Queues /\ queue[i - 1] \in Seq(Blocks) /\ queue[i - 1] # << >>
      /\ current' = [current EXCEPT ![i] = b]
      /\ queue' = [queue EXCEPT ![i - 1] = Tail(@)]
      /\ state' = [state EXCEPT ![i] = IF IsPoison(b) THEN "poison" ELSE "hold"]
  BY DEF Consume, IInv, Types, Queues
<1>2. /\ b \in Blocks /\ b = queue[i - 1][1] /\ 1 \in 1 .. Len(queue[i - 1])
      /\ Tail(queue[i - 1]) \in Seq(Blocks)
      /\ Len(Tail(queue[i - 1])) = Len(queue[i - 1]) - 1 /\ Len(queue[i - 1]) \in Nat
      /\ \A k \in 1 .. Len(Tail(queue[i - 1])) : Tail(queue[i - 1])[k] = queue[i - 1][k + 1]
  BY <1>1, HeadTailProperties
<1>3. Types'
  BY <1>1, <1>2 DEF IInv, Types
<1>4. \A j \in Queues : j # i - 1 => queue'[j] = queue[j]
  BY <1>1 DEF IInv, Types
<1>5. queue'[i - 1] = Tail(queue[i - 1])
  BY <1>1 DEF IInv, Types
<1>6. \A j \in 1 .. Positions : j # i => current'[j] = current[j] /\ state'[j] = state[j]
  BY <1>1 DEF IInv, Types
<1>7. current'[i] = b /\ (Holds(i)' => ~IsPoison(b)) /\ (state'[i] = "poison" => IsPoison(b))
  BY <1>1 DEF IInv, Types, Holds
<1> DEFINE shift(j, k) == IF j = i - 1 THEN k + 1 ELSE k
<1>8. ASSUME NEW j \in Queues, NEW k \in 1 .. Len(queue'[j])
      PROVE  /\ shift(j, k) \in 1 .. Len(queue[j]) /\ queue'[j][k] = queue[j][shift(j, k)]
             /\ ~(j = i - 1 /\ shift(j, k) = 1)
  <2>1. CASE j = i - 1
    <3>1. k \in 1 .. Len(Tail(queue[i - 1])) /\ shift(j, k) = k + 1
      BY <1>5, <2>1
    <3>2. k + 1 \in 1 .. Len(queue[i - 1]) /\ k + 1 # 1
      BY <1>2, <3>1
    <3> QED BY <1>2, <1>5, <2>1, <3>1, <3>2
  <2>2. CASE j # i - 1
    BY <1>4, <2>2
  <2> QED BY <2>1, <2>2
<1> HIDE DEF b
<1>9. HoldsMemory'
  BY <1>6, <1>7 DEF IInv, HoldsMemory, Holds, IsPoison
<1>10. QueuedOnce'
  <2> SUFFICES ASSUME NEW j \in Queues, NEW m \in Queues,
                      NEW k \in 1 .. Len(queue'[j]), NEW l \in 1 .. Len(queue'[m]),
                      ~IsPoison(queue'[j][k]), queue'[j][k].mem = queue'[m][l].mem
               PROVE  j = m /\ k = l
    BY DEF QueuedOnce, IsPoison
  <2> DEFINE p == shift(j, k)
             q == shift(m, l)
  <2>1. /\ p \in 1 .. Len(queue[j]) /\ queue'[j][k] = queue[j][p]
        /\ q \in 1 .. Len(queue[m]) /\ queue'[m][l] = queue[m][q]
    BY <1>8
  <2> HIDE DEF p, q
  <2>2. j = m /\ p = q
    BY <2>1 DEF IInv, QueuedOnce, IsPoison
  <2> QED BY <2>2 DEF p, q
<1>11. QueuedOrHeld'
  <2> SUFFICES ASSUME NEW j \in 1 .. Positions, NEW m \in Queues,
                      NEW l \in 1 .. Len(queue'[m]), Holds(j)'
               PROVE  current'[j].mem # queue'[m][l].mem
    BY DEF QueuedOrHeld
  <2> DEFINE q == shift(m, l)
  <2>3. /\ q \in 1 .. Len(queue[m]) /\ queue'[m][l] = queue[m][q] /\ ~(m = i - 1 /\ q = 1)
    BY <1>8
  <2> HIDE DEF q
  <2>1. CASE j = i
    BY <1>1, <1>2, <1>7, <2>1, <2>3 DEF IInv, QueuedOnce, IsPoison
  <2>2. CASE j # i
    BY <1>6, <2>2, <2>3 DEF IInv, QueuedOrHeld, Holds
  <2> QED BY <2>1, <2>2
<1>12. HeldOnce'
  <2>1. ASSUME NEW j \in 1 .. Positions, Holds(j)', j # i PROVE current'[j].mem # b.mem
    BY <1>1, <1>2, <1>6, <2>1 DEF IInv, QueuedOrHeld, Holds
  <2> QED BY <1>6, <1>7, <2>1 DEF IInv, HeldOnce, Holds
<1> QED BY <1>3, <1>9, <1>10, <1>11, <1>12 DEF IInv

\* A position that stops holding appends a block: the memory it had, or none.
LEMMA ProduceInvariant ==
  ASSUME IInv, NEW i \in 1 .. Positions, NEW block \in Blocks,
         queue' = [queue EXCEPT ![Out(i)] = Append(@, block)],
         current' \in [1 .. Positions -> Blocks],
         \A j \in (1 .. Positions) \ {i} : current'[j] = current[j] /\ state'[j] = state[j],
         state' \in [1 .. Positions -> {"unstarted", "consume", "hold", "poison", "done"}],
         state'[i] \notin {"hold", "poison"},
         IsPoison(block) \/ (Holds(i) /\ block.mem = current[i].mem),
         run' \in 1 .. Len(Entries), offset' \in Nat, Joined'
  PROVE  IInv'
<1> USE LinkAssumption
<1> DEFINE o == Out(i)
           n == Len(queue[o]) + 1
<1>1. o \in Queues
  BY DEF Out, Queues
<1>2. /\ queue[o] \in Seq(Blocks) /\ queue'[o] = Append(queue[o], block)
      /\ \A j \in Queues : j # o => queue'[j] = queue[j]
  BY <1>1 DEF IInv, Types
<1>3. /\ queue'[o] \in Seq(Blocks) /\ Len(queue'[o]) = n /\ queue'[o][n] = block
      /\ \A k \in 1 .. Len(queue[o]) : queue'[o][k] = queue[o][k]
  BY <1>2, AppendProperties
<1>4. Types'
  BY <1>1, <1>3 DEF IInv, Types
<1> HIDE DEF o
<1>5. ASSUME NEW j \in Queues, NEW k \in 1 .. Len(queue'[j])
      PROVE  \/ k \in 1 .. Len(queue[j]) /\ queue'[j][k] = queue[j][k]
             \/ j = o /\ k = n /\ queue'[j][k] = block
  BY <1>2, <1>3, <1>5
<1> HIDE DEF n
<1>6. ~Holds(i)' /\ \A j \in 1 .. Positions : j # i => Holds(j)' = Holds(j) /\ current'[j] = current[j]
  BY DEF Holds
<1>7. HoldsMemory'
  BY <1>6 DEF IInv, HoldsMemory, Holds, IsPoison
<1>8. QueuedOnce'
  <2> SUFFICES ASSUME NEW j \in Queues, NEW m \in Queues,
                      NEW k \in 1 .. Len(queue'[j]), NEW l \in 1 .. Len(queue'[m]),
                      ~IsPoison(queue'[j][k]), queue'[j][k].mem = queue'[m][l].mem
               PROVE  j = m /\ k = l
    BY SMTT(30) DEF QueuedOnce, IsPoison
  <2>1. ASSUME NEW p \in Queues, NEW q \in 1 .. Len(queue[p]), ~IsPoison(block)
        PROVE  queue[p][q].mem # block.mem
    BY <2>1 DEF IInv, QueuedOrHeld
  <2> QED BY SMTT(30), <1>5, <2>1 DEF IInv, QueuedOnce, IsPoison
<1>9. QueuedOrHeld'
  <2> SUFFICES ASSUME NEW j \in 1 .. Positions, NEW m \in Queues,
                      NEW l \in 1 .. Len(queue'[m]), Holds(j)'
               PROVE  current'[j].mem # queue'[m][l].mem
    BY DEF QueuedOrHeld
  <2>1. j # i /\ Holds(j) /\ current'[j] = current[j]
    BY <1>6
  <2>2. current[j].mem # block.mem
    BY <2>1 DEF IInv, HoldsMemory, HeldOnce, IsPoison
  <2> QED BY <1>5, <2>1, <2>2 DEF IInv, QueuedOrHeld
<1>10. HeldOnce'
  BY <1>6 DEF IInv, HeldOnce
<1> QED BY <1>4, <1>7, <1>8, <1>9, <1>10 DEF IInv

LEMMA InitInvariant == Init => IInv
<1> SUFFICES ASSUME Init PROVE IInv
  OBVIOUS
<1> USE LinkAssumption, ChainAssumption
<1>1. Populated \in Seq(Blocks) /\ Len(Populated) = BlockCount
      /\ \A k \in 1 .. BlockCount : Populated[k].mem = k
  BY DEF Populated, FullBlock, Blocks
<1>2. /\ \A i \in Queues : queue[i] = IF i = 0 THEN Populated ELSE << >>
      /\ queue \in [Queues -> Seq(Blocks)]
  BY <1>1 DEF Init, LinkInit, Queues
<1>3. \A i \in 1 .. Positions : ~Holds(i) /\ state[i] # "poison"
  BY DEF Init, LinkInit, Holds
<1>4. Types
  <2>1. run \in 1 .. Len(Entries) /\ offset \in Nat
    BY DEF Init
  <2>2. Poison \in Blocks
    BY DEF Poison, NoMemory, Blocks
  <2>3. current \in [1 .. Positions -> Blocks]
    BY <2>2 DEF Init, LinkInit
  <2> QED BY <1>2, <2>1, <2>3 DEF Init, LinkInit, Types
<1>5. QueuedOnce
  BY <1>1, <1>2 DEF QueuedOnce
<1> QED BY <1>3, <1>4, <1>5 DEF Init, IInv, HoldsMemory, QueuedOrHeld, HeldOnce, Joined

LEMMA OwnerInvariant == ASSUME IInv, Owner PROVE IInv'
<1> USE LinkAssumption, ChainAssumption
<1>1. CASE \E i \in 1 .. Positions : Add(i)
  <2>1. PICK i \in 1 .. Positions : Add(i)
    BY <1>1
  <2>2. Joined' /\ Start(i) /\ UNCHANGED <<run, offset>>
    BY <2>1 DEF Add, Joined
  <2> QED BY <2>2, StartInvariant
<1>2. CASE Join
  <2>1. /\ UNCHANGED <<queue, current, state, run, offset>>
        /\ \A i \in 1 .. Positions : state[i] = "done"
    BY <1>2 DEF Join, lvars
  <2> QED BY <2>1 DEF IInv, Types, HoldsMemory, QueuedOnce, QueuedOrHeld, HeldOnce, Joined, Holds
<1>3. ASSUME 0 \in Queues, UNCHANGED <<current, state, run, offset>>, queue[0] # << >>,
             queue' = [queue EXCEPT ![0] = Tail(@)], Joined'
      PROVE  IInv'
  <2>1. /\ queue[0] \in Seq(Blocks) /\ queue'[0] = Tail(queue[0])
        /\ \A j \in Queues : j # 0 => queue'[j] = queue[j]
    BY <1>3 DEF IInv, Types
  <2>2. /\ Tail(queue[0]) \in Seq(Blocks)
        /\ Len(Tail(queue[0])) = Len(queue[0]) - 1 /\ Len(queue[0]) \in Nat
        /\ \A k \in 1 .. Len(Tail(queue[0])) : Tail(queue[0])[k] = queue[0][k + 1]
    BY <1>3, <2>1, HeadTailProperties
  <2>3. Types'
    BY <1>3, <2>1, <2>2 DEF IInv, Types
  <2> DEFINE shift(j, k) == IF j = 0 THEN k + 1 ELSE k
  <2>4. ASSUME NEW j \in Queues, NEW k \in 1 .. Len(queue'[j])
        PROVE  shift(j, k) \in 1 .. Len(queue[j]) /\ queue'[j][k] = queue[j][shift(j, k)]
    <3>1. CASE j = 0
      <4>1. k \in 1 .. Len(Tail(queue[0])) /\ shift(j, k) = k + 1
        BY <2>1, <3>1
      <4>2. k + 1 \in 1 .. Len(queue[0])
        BY <2>2, <4>1
      <4> QED BY <2>1, <2>2, <3>1, <4>1, <4>2
    <3>2. CASE j # 0
      BY <2>1, <3>2
    <3> QED BY <3>1, <3>2
  <2>5. QueuedOnce'
    <3> SUFFICES ASSUME NEW j \in Queues, NEW m \in Queues,
                        NEW k \in 1 .. Len(queue'[j]), NEW l \in 1 .. Len(queue'[m]),
                        ~IsPoison(queue'[j][k]), queue'[j][k].mem = queue'[m][l].mem
                 PROVE  j = m /\ k = l
      BY DEF QueuedOnce, IsPoison
    <3> DEFINE p == shift(j, k)
               q == shift(m, l)
    <3>1. /\ p \in 1 .. Len(queue[j]) /\ queue'[j][k] = queue[j][p]
          /\ q \in 1 .. Len(queue[m]) /\ queue'[m][l] = queue[m][q]
      BY <2>4
    <3> HIDE DEF p, q
    <3>2. j = m /\ p = q
      BY <3>1 DEF IInv, QueuedOnce, IsPoison
    <3> QED BY <3>2 DEF p, q
  <2>6. QueuedOrHeld'
    <3> SUFFICES ASSUME NEW j \in 1 .. Positions, NEW m \in Queues,
                        NEW l \in 1 .. Len(queue'[m]), Holds(j)'
                 PROVE  current'[j].mem # queue'[m][l].mem
      BY DEF QueuedOrHeld
    <3> QED BY <1>3, <2>4 DEF IInv, QueuedOrHeld, Holds
  <2> QED BY <1>3, <2>3, <2>5, <2>6 DEF IInv, HoldsMemory, HeldOnce, Holds, IsPoison
<1>4. 0 \in Queues
  BY DEF Queues
<1>5. CASE DrainBlock
  <2>1. /\ UNCHANGED <<current, state, run, offset>> /\ queue[0] # << >>
        /\ queue' = [queue EXCEPT ![0] = Tail(@)] /\ owner = "drain"
    BY <1>5 DEF DrainBlock
  <2>2. Joined'
    BY <2>1 DEF IInv, Joined, Holds
  <2> QED BY <1>3, <1>4, <2>1, <2>2
<1>6. CASE DrainPoison
  <2>1. CASE run < Len(Entries)
    <3>1. /\ queue' = [i \in 0 .. (Positions - 1) |-> IF i = 0 THEN Populated ELSE << >>]
          /\ state' = [i \in 1 .. Positions |-> "unstarted"]
          /\ current' = current /\ run' = run + 1 /\ offset' = 0 /\ owner' = "add"
      BY <1>6, <2>1 DEF DrainPoison
    <3>2. Populated \in Seq(Blocks) /\ Len(Populated) = BlockCount
          /\ \A k \in 1 .. BlockCount : Populated[k].mem = k
      BY DEF Populated, FullBlock, Blocks
    <3>3. /\ \A i \in Queues : queue'[i] = IF i = 0 THEN Populated ELSE << >>
          /\ queue' \in [Queues -> Seq(Blocks)]
      BY <3>1, <3>2 DEF Queues
    <3>4. \A i \in 1 .. Positions : ~Holds(i)' /\ state'[i] # "poison"
      BY <3>1 DEF Holds
    <3>5. run' \in 1 .. Len(Entries) /\ offset' \in Nat
      BY <2>1, <3>1 DEF IInv, Types
    <3>6. Types'
      BY <3>1, <3>3, <3>5 DEF IInv, Types
    <3>7. QueuedOnce'
      BY <3>2, <3>3 DEF QueuedOnce
    <3> QED BY <3>1, <3>4, <3>6, <3>7 DEF IInv, HoldsMemory, QueuedOrHeld, HeldOnce, Joined
  <2>2. CASE ~(run < Len(Entries))
    <3>1. /\ UNCHANGED <<current, state, run, offset>> /\ queue[0] # << >>
          /\ queue' = [queue EXCEPT ![0] = Tail(@)] /\ owner = "drain"
      BY <1>6, <2>2 DEF DrainPoison
    <3>2. Joined'
      BY <3>1 DEF IInv, Joined, Holds
    <3> QED BY <1>3, <1>4, <3>1, <3>2
  <2> QED BY <2>1, <2>2
<1> QED BY <1>1, <1>2, <1>5, <1>6 DEF Owner

LEMMA WorkerInvariant == ASSUME IInv, Entering, NEW i \in 1 .. Positions, Worker(i) PROVE IInv'
<1> USE LinkAssumption, ChainAssumption
<1>1. Types /\ current[i] \in Blocks
  BY DEF IInv, Types
<1>2. ASSUME owner' = owner, state[i] # "done" PROVE Joined'
  BY <1>2 DEF IInv, Joined
<1>3. CASE Link(i) /\ Consume(i)
  <2>1. Consume(i) /\ UNCHANGED <<owner, run, offset>> /\ state[i] # "done"
    BY <1>3 DEF Link, Consume
  <2> QED BY <1>2, <2>1, ConsumeInvariant
<1>4. CASE Link(i) /\ PassPoison(i)
  <2>1. /\ state[i] = "poison" /\ UNCHANGED <<current, owner, run, offset>>
        /\ queue' = [queue EXCEPT ![Out(i)] = Append(@, current[i])]
        /\ state' = [state EXCEPT ![i] = "done"]
    BY <1>4 DEF Link, PassPoison
  <2>2. IsPoison(current[i])
    BY <2>1 DEF IInv, HoldsMemory
  <2> QED BY <1>2, <2>1, <2>2, ProduceInvariant DEF IInv, Types
<1>5. ASSUME NEW block \in Blocks, Pass(i, block), block.mem = current[i].mem,
             owner' = owner, run' = run, offset' \in Nat
      PROVE  IInv'
  <2>1. /\ Holds(i) /\ current' = current
        /\ queue' = [queue EXCEPT ![Out(i)] = Append(@, block)]
        /\ state' = [state EXCEPT ![i] = "consume"]
    BY <1>5 DEF Pass, Holds
  <2> QED BY <1>2, <1>5, <2>1, ProduceInvariant DEF IInv, Types, Holds
<1>6. ASSUME NEW v \in 0 .. BlockSize
      PROVE  [current[i] EXCEPT !.valid = v] \in Blocks
             /\ [current[i] EXCEPT !.valid = v].mem = current[i].mem
  BY <1>1 DEF Blocks
<1>7. CASE i = Reader /\ ReadBlock
  <2> DEFINE left == Entries[run] - offset
             got == IF left < BlockSize THEN left ELSE BlockSize
  <2>1. got \in 0 .. BlockSize /\ offset + got \in Nat
    <3>1. Entries[run] \in Nat /\ offset \in Nat /\ BlockSize \in Nat
      BY DEF IInv, Types
    <3>2. got > 0
      BY <1>7 DEF ReadBlock
    <3> QED BY SMTT(30), <3>1, <3>2
  <2>2. /\ Pass(i, [current[i] EXCEPT !.valid = got])
        /\ owner' = owner /\ run' = run /\ offset' = offset + got
    BY <1>7 DEF ReadBlock
  <2> QED BY <1>5, <1>6, <2>1, <2>2
<1>8. CASE i = Reader /\ ReadEnd
  <2> DEFINE block == SetToPoison(current[i])
  <2>1. /\ state[i] = "hold" /\ UNCHANGED <<owner, run, offset>>
        /\ queue' = [queue EXCEPT ![Out(i)] = Append(@, block)]
        /\ current' = [current EXCEPT ![i] = block]
        /\ state' = [state EXCEPT ![i] = "done"]
    BY <1>8 DEF ReadEnd, MakePoison
  <2>2. block \in Blocks /\ IsPoison(block)
    <3>1. 0 \in 0 .. BlockCount
      OBVIOUS
    <3> QED BY <1>1, <3>1 DEF SetToPoison, IsPoison, NoMemory, Blocks
  <2> HIDE DEF block
  <2> QED BY <1>2, <2>1, <2>2, ProduceInvariant DEF IInv, Types
<1>9. CASE i \in Filters /\ FilterBlock(i)
  <2>1. /\ Pass(i, [current[i] EXCEPT !.valid = dest[i]]) /\ state[i] = "hold"
        /\ UNCHANGED <<owner, run, offset>>
    BY <1>9 DEF FilterBlock, Pass
  <2>2. current[i].valid \in 0 .. BlockSize /\ dest[i] \in Nat /\ dest[i] <= current[i].valid
    BY SMTT(30), <1>1, <1>9, <2>1 DEF Entering, Holds, Blocks
  <2>3. dest[i] \in 0 .. BlockSize
    BY <2>2
  <2> QED BY <1>5, <1>6, <2>1, <2>3 DEF IInv, Types
<1>13. CASE i \in Filters /\ FilterEntry(i)
  <2>1. UNCHANGED <<queue, current, state, owner, run, offset>>
    BY <1>13 DEF FilterEntry, lvars
  <2> QED BY SMTT(30), <2>1 DEF IInv, Types, HoldsMemory, QueuedOnce, QueuedOrHeld, HeldOnce, Joined,
                      Holds, IsPoison
<1>10. CASE i = Writer /\ WriteBlock
  <2>1. Pass(i, current[i]) /\ UNCHANGED <<owner, run, offset>>
    BY <1>10 DEF WriteBlock
  <2> QED BY <1>1, <1>5, <2>1 DEF IInv, Types
<1>11. CASE i = Recycler /\ RecycleBlock
  <2>1. /\ Pass(i, [current[i] EXCEPT !.valid = BlockSize])
        /\ UNCHANGED <<owner, run, offset>>
    BY <1>11 DEF RecycleBlock
  <2>2. BlockSize \in 0 .. BlockSize /\ offset \in Nat
    BY DEF IInv, Types
  <2> QED BY <1>5, <1>6, <2>1, <2>2
<1>12. Link(i) => Consume(i) \/ PassPoison(i)
  BY DEF Link
<1> QED BY <1>3, <1>4, <1>7, <1>8, <1>9, <1>10, <1>11, <1>12, <1>13 DEF Worker

LEMMA StepInvariant == IInv /\ Entering /\ [Next]_vars => IInv'
<1> SUFFICES ASSUME IInv, Entering, [Next]_vars PROVE IInv'
  OBVIOUS
<1>1. CASE Owner
  BY <1>1, OwnerInvariant
<1>2. CASE \E i \in 1 .. Positions : Worker(i)
  BY <1>2, WorkerInvariant
<1>3. CASE UNCHANGED vars
  BY <1>3 DEF vars, lvars, IInv, Types, HoldsMemory, QueuedOnce, QueuedOrHeld, HeldOnce, Joined,
              Holds, IsPoison
<1> QED BY <1>1, <1>2, <1>3 DEF Next, Finished

LEMMA InvariantIsNoBlockShared == IInv => NoBlockShared
<1> SUFFICES ASSUME IInv, NEW b \in 1 .. BlockCount
             PROVE  Cardinality({ik \in (0..(Positions - 1)) \X (1..BlockCount) :
                                   ik[2] <= Len(queue[ik[1]]) /\ queue[ik[1]][ik[2]].mem = b})
                    + Cardinality({i \in 1..Positions : state[i] = "hold" /\ current[i].mem = b}) <= 1
  BY DEF NoBlockShared
<1> USE LinkAssumption
<1> DEFINE queued == {ik \in (0..(Positions - 1)) \X (1..BlockCount) :
                        ik[2] <= Len(queue[ik[1]]) /\ queue[ik[1]][ik[2]].mem = b}
           held == {i \in 1..Positions : state[i] = "hold" /\ current[i].mem = b}
<1>1. \A x, y \in queued : x = y
  <2> SUFFICES ASSUME NEW x \in queued, NEW y \in queued PROVE x = y
    OBVIOUS
  <2>1. /\ x = <<x[1], x[2]>> /\ y = <<y[1], y[2]>> /\ x[1] \in Queues /\ y[1] \in Queues
        /\ x[2] \in 1 .. Len(queue[x[1]]) /\ y[2] \in 1 .. Len(queue[y[1]])
        /\ queue[x[1]][x[2]].mem = b /\ queue[y[1]][y[2]].mem = b
    BY DEF Queues
  <2>2. x[1] = y[1] /\ x[2] = y[2]
    <3> HIDE DEF queued
    <3>1. PICK i, k, j, l : i = x[1] /\ k = x[2] /\ j = y[1] /\ l = y[2]
      OBVIOUS
    <3>2. /\ i \in Queues /\ j \in Queues /\ k \in 1 .. Len(queue[i]) /\ l \in 1 .. Len(queue[j])
          /\ queue[i][k].mem = b /\ queue[j][l].mem = b /\ ~IsPoison(queue[i][k])
      BY <2>1, <3>1 DEF IsPoison, NoMemory
    <3>3. i = j /\ k = l
      BY <3>2 DEF IInv, QueuedOnce
    <3> QED BY <3>1, <3>3
  <2> QED BY <2>1, <2>2
<1>2. \A x, y \in held : x = y
  BY DEF IInv, HeldOnce, Holds
<1>3. queued = {} \/ held = {}
  <2> SUFFICES ASSUME NEW x \in queued, NEW y \in held PROVE FALSE
    OBVIOUS
  <2>1. x[1] \in Queues /\ x[2] \in 1 .. Len(queue[x[1]]) /\ queue[x[1]][x[2]].mem = b
    BY DEF Queues, IInv, Types
  <2> QED BY <2>1 DEF IInv, QueuedOrHeld, Holds
<1>4. ASSUME NEW S, \A x, y \in S : x = y PROVE Cardinality(S) \in {0, 1} /\ (S = {} => Cardinality(S) = 0)
  <2>1. CASE S = {}
    BY <2>1, FS_EmptySet
  <2>2. CASE S # {}
    <3>1. PICK x : S = {x}
      BY <1>4, <2>2
    <3> QED BY <2>2, <3>1, FS_Singleton
  <2> QED BY <2>1, <2>2
<1> HIDE DEF queued, held
<1>5. Cardinality(queued) + Cardinality(held) <= 1
  BY <1>1, <1>2, <1>3, <1>4
<1> QED BY <1>5 DEF queued, held

---------------------------------------------------------------------------
LEMMA Indices ==
  /\ Writer \in Nat /\ Writer >= 2 /\ Positions = Writer + 1 /\ Recycler = Writer + 1 /\ Reader = 1
  /\ \A i \in 1 .. Writer : Out(i) = i /\ i \in Queues /\ i \in 1 .. Positions
  /\ Out(Positions) = 0 /\ 0 \in Queues
  /\ \A i \in Filters : i \in 2 .. (Writer - 1) /\ i \in 1 .. Writer
<1> USE LinkAssumption, ChainAssumption DEF Writer, Recycler, Reader, Filters, Queues
<1>1. \A i \in 1 .. Writer : i % Positions = i
  OBVIOUS
<1>2. Positions % Positions = 0
  OBVIOUS
<1> QED BY <1>1, <1>2 DEF Out

LEMMA InitFlow == Init => FInv
<1> SUFFICES ASSUME Init PROVE FInv
  OBVIOUS
<1> USE LinkAssumption, ChainAssumption, Indices
<1> DEFINE c == [i \in 1 .. Positions |-> 0]
           b == [n \in Nat |-> 0]
<1>1. /\ \A i \in 1 .. Writer : queue[i] = << >>
      /\ queue[0] = Populated
      /\ \A i \in 1 .. Positions : state[i] = "unstarted"
      /\ offset = 0 /\ written = << >>
  BY DEF Init, LinkInit, Queues
<1>2. Populated \in Seq(Blocks) /\ \A k \in 1 .. Len(Populated) : ~IsPoison(Populated[k])
  BY DEF Populated, FullBlock, Blocks, IsPoison, NoMemory
<1>3. Entering
  BY DEF Init, Entering, LinkInit, Holds
<1>4. Ends
  <2>1. ASSUME NEW i \in 1 .. Positions, NEW k \in 1 .. Len(queue[Out(i)])
        PROVE  ~IsPoison(queue[Out(i)][k])
    <3>1. i = Positions \/ i \in 1 .. Writer
      OBVIOUS
    <3> QED BY <1>1, <1>2, <2>1, <3>1
  <2> QED BY <1>1, <2>1 DEF Ends
<1>5. Counts(c) /\ Bounds(b)
  BY DEF Counts, Bounds
<1>6. Lengths(c) /\ Passed(c) /\ HasRead(c, b)
  BY <1>1 DEF Lengths, Passed, HasRead, Hand
<1>7. Carried(c, b)
  BY <1>1 DEF Carried, Holds
<1>8. Wrote(c, b)
  BY <1>1 DEF Wrote, Increasing, On
<1> HIDE DEF c, b
<1> QED BY <1>3, <1>4, <1>5, <1>6, <1>7, <1>8 DEF FInv, Flow
\* A position passes on the block, or the poison, it holds,
PassesOn(i, block) ==
  /\ state[i] \in {"hold", "poison"} /\ state'[i] \in {"consume", "done"}
  /\ \A j \in (1 .. Positions) \ {i} : current'[j] = current[j] /\ state'[j] = state[j]
  /\ queue' = [queue EXCEPT ![Out(i)] = Append(@, block)]
  /\ \A j \in (1 .. Writer) \ {i} : Taken(j)' = Taken(j) /\ Dest(j)' = Dest(j)

\* and writes to no other memory than that of its block.
WritesItsBlock(i) ==
  \A m \in 1 .. BlockCount : (Holds(i) /\ m = current[i].mem) \/ memory'[m] = memory[m]

\* The block is then the n-th a position has passed on.
IsBlock(b, n, i, block) ==
  ~IsPoison(block) /\ i < Writer => Has(b, n, i, memory'[block.mem], 1 .. block.valid)

CountsOn(c, i, c2) == c2[i] = c[i] + 1 /\ \A j \in (1 .. Positions) \ {i} : c2[j] = c[j]
SameBounds(c, b, b2) == \A n \in 0 .. c[Reader] : b2[n] = b[n]

LEMMA ItemInQueue ==
  ASSUME IInv, NEW c, Counts(c), Lengths(c), Passed(c), NEW j \in 1 .. Writer - 1
  PROVE  /\ j \in Queues /\ j \in 1 .. Positions /\ j + 1 \in 1 .. Positions /\ Out(j) = j
         /\ Len(queue[j]) \in Nat /\ Len(queue[j]) = c[j] - (c[j + 1] + Hand(j + 1))
         /\ c[j] \in Nat /\ c[j + 1] \in Nat /\ Hand(j + 1) \in {0, 1}
         /\ c[j] <= c[Reader] /\ c[Reader] \in Nat
         /\ \A k \in 1 .. Len(queue[j]) :
              queue[j][k] \in Blocks /\ c[j + 1] + Hand(j + 1) + k \in 1 .. c[Reader]
<1>1. Writer \in Nat /\ Writer >= 2 /\ Positions = Writer + 1 /\ Reader = 1
  BY Indices
<1>2. j \in 1 .. Writer /\ j + 1 \in 1 .. Positions /\ Reader \in 1 .. Positions
  BY <1>1
<1>3. j \in Queues /\ j \in 1 .. Positions /\ Out(j) = j
  BY <1>2, Indices
<1>4. queue[j] \in Seq(Blocks)
  BY <1>3 DEF IInv, Types
<1>5. Len(queue[j]) \in Nat /\ \A k \in 1 .. Len(queue[j]) : queue[j][k] \in Blocks
  BY <1>4
<1>6. c[j] <= c[Reader] /\ c[Reader] \in Nat
  BY <1>2 DEF Passed, Counts
<1>7. c[j] \in Nat /\ c[j + 1] \in Nat
  BY <1>2, <1>3 DEF Counts
<1>8. Hand(j + 1) \in {0, 1}
  BY DEF Hand
<1>9. Len(queue[j]) = c[j] - (c[j + 1] + Hand(j + 1))
  BY DEF Lengths
<1>10. \A k \in 1 .. Len(queue[j]) : c[j + 1] + Hand(j + 1) + k \in 1 .. c[Reader]
  <2>1. PICK h, l, p, q, r : h = Hand(j + 1) /\ l = Len(queue[j]) /\ p = c[j] /\ q = c[j + 1]
                             /\ r = c[Reader]
    OBVIOUS
  <2>2. \A k \in 1 .. l : q + h + k \in 1 .. r
    <3>1. l \in Nat /\ l = p - (q + h) /\ p \in Nat /\ q \in Nat /\ h \in {0, 1} /\ p <= r /\ r \in Nat
      BY <1>5, <1>6, <1>7, <1>8, <1>9, <2>1
    <3> QED BY <3>1
  <2> QED BY <2>1, <2>2
<1> QED BY <1>2, <1>3, <1>5, <1>6, <1>7, <1>8, <1>9, <1>10

\* It is the next of those the position has passed on, and what Read reads on moves
\* none of the bounds of the others.
LEMMA ProduceCarries ==
  ASSUME IInv, Ends, NEW c, NEW b, Counts(c), Lengths(c), Passed(c), Carried(c, b),
         NEW i \in 1 .. Writer, NEW block \in Blocks,
         PassesOn(i, block), WritesItsBlock(i),
         NEW c2, NEW b2, CountsOn(c, i, c2), SameBounds(c, b, b2),
         IsBlock(b2, c[i] + 1, i, block)
  PROVE  Lengths(c2)' /\ Carried(c2, b2)'
<1>1. /\ Writer \in Nat /\ Writer >= 2 /\ Positions = Writer + 1 /\ Reader = 1
      /\ Out(i) = i /\ i \in Queues /\ i \in 1 .. Positions
  BY Indices
<1>2. /\ queue[i] \in Seq(Blocks) /\ queue'[i] = Append(queue[i], block)
      /\ \A j \in Queues : j # i => queue'[j] = queue[j]
  BY <1>1 DEF IInv, Types, PassesOn
<1>3. /\ Len(queue'[i]) = Len(queue[i]) + 1 /\ queue'[i][Len(queue[i]) + 1] = block
      /\ \A k \in 1 .. Len(queue[i]) : queue'[i][k] = queue[i][k]
      /\ Len(queue[i]) \in Nat
  BY <1>2, AppendProperties
<1>4. \A j \in 1 .. Positions : Hand(j) \in {0, 1} /\ Hand(j)' = IF j = i THEN 0 ELSE Hand(j)
  BY DEF Hand, PassesOn
<1>5. Hand(i) = 1
  BY DEF Hand, PassesOn
<1>6. ASSUME NEW j \in 1 .. Writer - 1
      PROVE  /\ c2[j + 1] + Hand(j + 1)' = c[j + 1] + Hand(j + 1)
             /\ c2[j] = IF j = i THEN c[j] + 1 ELSE c[j]
             /\ Len(queue'[j]) = IF j = i THEN Len(queue[j]) + 1 ELSE Len(queue[j])
  <2>1. j + 1 \in 1 .. Positions /\ j \in Queues /\ j \in 1 .. Positions
    BY ItemInQueue
  <2>2. PICK p : p = j + 1
    OBVIOUS
  <2>3. c2[p] + Hand(p)' = c[p] + Hand(p)
    <3>1. CASE p = i
      <4>1. c2[i] = c[i] + 1 /\ Hand(i)' = 0 /\ Hand(i) = 1 /\ c[i] \in Nat
        BY <1>1, <1>4, <1>5 DEF CountsOn, Counts
      <4> QED BY <3>1, <4>1
    <3>2. CASE p # i
      BY <1>4, <2>1, <2>2, <3>2 DEF CountsOn
    <3> QED BY <3>1, <3>2
  <2>4. c2[j] = IF j = i THEN c[j] + 1 ELSE c[j]
    BY <2>1 DEF CountsOn
  <2> QED BY <1>2, <1>3, <2>1, <2>2, <2>3, <2>4
<1>7. Lengths(c2)'
  <2> SUFFICES ASSUME NEW j \in 1 .. Writer - 1
               PROVE  Len(queue'[j]) = c2[j] - (c2[j + 1] + Hand(j + 1)')
    BY DEF Lengths
  <2>1. PICK h : h = c[j + 1] + Hand(j + 1)
    OBVIOUS
  <2>2. h \in Nat /\ Len(queue[j]) = c[j] - h /\ Len(queue[j]) \in Nat /\ c[j] \in Nat
    BY <2>1, ItemInQueue
  <2>3. c2[j + 1] + Hand(j + 1)' = h
    BY <1>6, <2>1
  <2>4. Len(queue'[j]) = c2[j] - h
    <3>1. CASE j = i
      <4>1. Len(queue'[j]) = Len(queue[j]) + 1 /\ c2[j] = c[j] + 1
        BY <1>6, <3>1
      <4> QED BY <2>2, <4>1
    <3>2. CASE j # i
      <4>1. Len(queue'[j]) = Len(queue[j]) /\ c2[j] = c[j]
        BY <1>6, <3>2
      <4> QED BY <2>2, <4>1
    <3> QED BY <3>1, <3>2
  <2> QED BY <2>3, <2>4
<1>8. ASSUME NEW n \in 1 .. c[Reader], NEW j PROVE Chunk(b2, n, j) = Chunk(b, n, j)
  <2>1. c[Reader] \in Nat
    BY <1>1 DEF Counts
  <2>2. n \in 0 .. c[Reader] /\ n - 1 \in 0 .. c[Reader]
    BY <2>1
  <2>3. b2[n] = b[n] /\ b2[n - 1] = b[n - 1]
    BY <2>2 DEF SameBounds
  <2> QED BY <2>3 DEF Chunk
<1>9. ASSUME NEW m \in 1 .. BlockCount, Holds(i) => current[i].mem # m
      PROVE  memory'[m] = memory[m]
  BY <1>9 DEF WritesItsBlock
<1>10. ASSUME NEW j \in 1 .. Writer - 1, NEW k \in 1 .. Len(queue[j]), ~IsPoison(queue[j][k])
       PROVE  Has(b2, c[j + 1] + Hand(j + 1) + k, j, memory'[queue[j][k].mem],
                  1 .. queue[j][k].valid)
  <2> DEFINE n == c[j + 1] + Hand(j + 1) + k
             mem == queue[j][k].mem
  <2>1. Has(b, n, j, memory[mem], 1 .. queue[j][k].valid)
    BY <1>10 DEF Carried
  <2>2. n \in 1 .. c[Reader] /\ j \in Queues /\ queue[j][k] \in Blocks
    BY ItemInQueue
  <2>3. memory'[mem] = memory[mem]
    <3>1. mem \in 1 .. BlockCount
      <4>1. mem \in 0 .. BlockCount /\ mem # 0
        BY <1>10, <2>2 DEF Blocks, IsPoison, NoMemory
      <4> HIDE DEF mem
      <4> QED BY <4>1, LinkAssumption
    <3>2. Holds(i) => current[i].mem # mem
      BY <1>1, <2>2 DEF IInv, QueuedOrHeld
    <3> HIDE DEF mem
    <3> QED BY <1>9, <3>1, <3>2
  <2> HIDE DEF n, mem
  <2>4. Has(b2, n, j, memory'[mem], 1 .. queue[j][k].valid)
    BY <1>8, <2>1, <2>2, <2>3 DEF Has
  <2> QED BY <2>4 DEF n, mem
<1>11. ASSUME NEW j \in 1 .. Writer - 1, NEW k \in 1 .. Len(queue'[j])
       PROVE  IF IsPoison(queue'[j][k])
                THEN k = Len(queue'[j])
                ELSE Has(b2, c2[j + 1] + Hand(j + 1)' + k, j, memory'[queue'[j][k].mem],
                         1 .. queue'[j][k].valid)
  <2>1. c2[j + 1] + Hand(j + 1)' = c[j + 1] + Hand(j + 1) /\ j \in Queues /\ Len(queue[j]) \in Nat
    BY <1>6, ItemInQueue
  <2>2. CASE j = i /\ k = Len(queue[j]) + 1
    <3>1. queue'[j][k] = block /\ k = Len(queue'[j])
      BY <1>3, <2>2
    <3>2. c[j + 1] + Hand(j + 1) + k = c[i] + 1
      <4>1. PICK h : h = c[j + 1] + Hand(j + 1)
        OBVIOUS
      <4>2. h \in Nat /\ Len(queue[j]) = c[j] - h /\ Len(queue[j]) \in Nat /\ c[j] \in Nat
        BY SMTT(30), <4>1, ItemInQueue
      <4>3. h + k = c[j] + 1
        BY <2>2, <4>2
      <4> QED BY <2>2, <4>1, <4>3
    <3>3. i < Writer
      BY <1>1, <2>2
    <3>4. ~IsPoison(block) => Has(b2, c[i] + 1, i, memory'[block.mem], 1 .. block.valid)
      BY <3>3 DEF IsBlock
    <3> QED BY <2>1, <2>2, <3>1, <3>2, <3>4
  <2>3. CASE ~(j = i /\ k = Len(queue[j]) + 1)
    <3>1. k \in 1 .. Len(queue[j]) /\ queue'[j][k] = queue[j][k]
      <4>1. CASE j = i
        BY <1>3, <2>3, <4>1
      <4>2. CASE j # i
        BY <1>2, <2>1, <4>2
      <4> QED BY <4>1, <4>2
    <3>2. CASE IsPoison(queue[j][k])
      <4>1. j # i
        <5>1. Out(j) = j /\ j \in 1 .. Positions
          BY ItemInQueue
        <5>2. state[j] = "done"
          BY <3>1, <3>2, <5>1 DEF Ends
        <5> QED BY <5>2 DEF PassesOn
      <4>2. k = Len(queue[j])
        BY <3>1, <3>2 DEF Carried
      <4> QED BY <1>2, <2>1, <3>1, <3>2, <4>1, <4>2
    <3>3. CASE ~IsPoison(queue[j][k])
      BY <1>10, <2>1, <3>1, <3>3
    <3> QED BY <3>2, <3>3
  <2> QED BY <2>2, <2>3
<1>12. ASSUME NEW j \in 2 .. Writer, Holds(j)' PROVE Halfway(b2, c2[j] + 1, j)'
  <2>1. j \in 1 .. Positions /\ j \in 1 .. Writer /\ j - 1 \in 1 .. Writer - 1
    BY <1>1
  <2>2. j # i /\ Holds(j) /\ current'[j] = current[j] /\ c2[j] = c[j]
    BY <1>12, <2>1 DEF Holds, PassesOn, CountsOn
  <2>3. memory'[current[j].mem] = memory[current[j].mem]
    <3>1. current[j].mem \in 1 .. BlockCount
      <4>1. current[j].mem \in 0 .. BlockCount /\ current[j].mem # 0
        BY <2>1, <2>2 DEF IInv, Types, Blocks, HoldsMemory, IsPoison, NoMemory
      <4> QED BY <4>1, LinkAssumption
    <3>2. Holds(i) => current[i].mem # current[j].mem
      BY <1>1, <2>1, <2>2 DEF IInv, HeldOnce
    <3> QED BY <1>9, <3>1, <3>2
  <2>4. c[j] + 1 \in 1 .. c[Reader]
    <3>1. PICK p \in 1 .. Writer - 1 : p = j - 1
      BY <2>1
    <3>2. Hand(j) = 1 /\ p + 1 = j
      BY <2>2, <3>1 DEF Hand, Holds
    <3>3. /\ Len(queue[p]) = c[p] - (c[j] + 1) /\ Len(queue[p]) \in Nat /\ c[p] \in Nat
          /\ c[j] \in Nat /\ c[p] <= c[Reader] /\ c[Reader] \in Nat
      BY <3>2, ItemInQueue
    <3> QED BY <3>3
  <2>5. Live(j)' = Live(j) /\ Dest(j)' = Dest(j)
    <3>1. Taken(j)' = Taken(j) /\ Dest(j)' = Dest(j)
      BY <2>1, <2>2 DEF PassesOn
    <3> QED BY <2>2, <3>1 DEF Live, Places
  <2>6. \A q : Chunk(b2, c[j] + 1, q) = Chunk(b, c[j] + 1, q)
    BY <1>8, <2>4
  <2>7. Halfway(b, c[j] + 1, j)
    BY <2>2 DEF Carried
  <2>8. /\ Increasing(memory'[current'[j].mem], Live(j)')
        /\ On(memory'[current'[j].mem], Live(j)') \subseteq Chunk(b2, c2[j] + 1, j - 1)
        /\ Chunk(b2, c2[j] + 1, j) \subseteq On(memory'[current'[j].mem], Live(j)')
        /\ \A k \in 1 .. Dest(j)' : Lets(j, memory'[current'[j].mem][k])
    BY <2>2, <2>3, <2>5, <2>6, <2>7 DEF Halfway
  <2> QED BY <2>8 DEF Halfway, Increasing, On, Chunk, Lets
<1>13. Carried(c2, b2)'
  BY <1>11, <1>12 DEF Carried, Has, Increasing, On, Chunk, Lets, IsPoison
<1> QED BY <1>7, <1>13
\* What the position has counted goes with it.
LEMMA ProducePasses ==
  ASSUME IInv, Ends, NEW c, Counts(c), Lengths(c), Passed(c),
         NEW i \in 2 .. Writer, NEW block, PassesOn(i, block),
         state[i] = "poison" <=> state'[i] = "done",
         NEW c2, CountsOn(c, i, c2)
  PROVE  Passed(c2)'
<1>1. /\ Writer \in Nat /\ Writer >= 2 /\ Positions = Writer + 1 /\ Reader = 1
      /\ i \in 1 .. Positions /\ i # Reader /\ i - 1 \in 1 .. Writer - 1 /\ Reader \in 1 .. Positions
  BY Indices
<1>2. PICK p \in 1 .. Writer - 1 : p = i - 1
  BY <1>1
<1>3. c[Reader] \in Nat /\ c[i] \in Nat /\ c[p] \in Nat /\ c[i] + 1 <= c[p] /\ c[p] <= c[Reader]
  <2>1. Hand(i) = 1 /\ p + 1 = i
    BY <1>2 DEF Hand, PassesOn
  <2>2. /\ Len(queue[p]) = c[p] - (c[i] + 1) /\ Len(queue[p]) \in Nat /\ c[p] \in Nat
        /\ c[i] \in Nat /\ c[p] <= c[Reader] /\ c[Reader] \in Nat
    BY <2>1, ItemInQueue
  <2> QED BY <2>2
<1>4. c2[i] = c[i] + 1 /\ c2[Reader] = c[Reader] /\ c2[p] = c[p] /\ p # i
  <2>1. p # i /\ p \in 1 .. Positions
    BY <1>1, <1>2
  <2> QED BY <1>1, <2>1 DEF CountsOn
<1>5. state'[i] = "done" => c2[i] = c[p] /\ c[p] = c[Reader] /\ state[p] = "done"
  <2> SUFFICES ASSUME state'[i] = "done" PROVE c2[i] = c[p] /\ c[p] = c[Reader] /\ state[p] = "done"
    OBVIOUS
  <2>1. state[i] = "poison" /\ Hand(i) = 1
    BY DEF PassesOn, Hand
  <2>2. c[i] + Hand(i) = c[i - 1]
    BY <2>1 DEF Passed
  <2>3. i \in 2 .. Positions /\ p \in 1 .. Writer
    BY <1>1
  <2>4. state[i - 1] = "done"
    BY <2>1, <2>3 DEF Ends
  <2>5. c[p] = c[Reader]
    BY <1>2, <2>3, <2>4 DEF Passed
  <2> QED BY <1>2, <1>4, <2>1, <2>2, <2>4, <2>5
<1>6. ASSUME NEW j \in 1 .. Writer
      PROVE  c2[j] <= c2[Reader] /\ (state'[j] = "done" => c2[j] = c2[Reader])
  <2>1. CASE j = i
    BY <1>3, <1>4, <1>5, <2>1
  <2>2. CASE j # i
    <3>1. j \in 1 .. Positions
      BY <1>1
    <3>2. c2[j] = c[j] /\ state'[j] = state[j]
      BY <2>2, <3>1 DEF CountsOn, PassesOn
    <3> QED BY <1>4, <3>2 DEF Passed
  <2> QED BY <2>1, <2>2
<1>7. ASSUME NEW j \in 2 .. Writer, state'[j] \in {"poison", "done"}
      PROVE  c2[j] + Hand(j)' = c2[j - 1]
  <2>1. CASE j = i
    <3>1. state'[i] = "done" /\ Hand(i)' = 0
      BY <1>7, <2>1 DEF PassesOn, Hand
    <3>2. c2[i] = c[p] /\ c2[i] + 0 = c2[i]
      BY <1>3, <1>4, <1>5, <3>1
    <3> QED BY <1>2, <1>4, <2>1, <3>1, <3>2
  <2>2. CASE j # i
    <3>1. j \in 1 .. Positions /\ j \in 2 .. Positions /\ j - 1 \in 1 .. Positions
      BY <1>1
    <3>2. c2[j] = c[j] /\ state'[j] = state[j] /\ Hand(j)' = Hand(j)
      BY <2>2, <3>1 DEF CountsOn, PassesOn, Hand
    <3>3. state[j - 1] = "done"
      BY <1>7, <3>1, <3>2 DEF Ends
    <3>4. j - 1 # i
      BY <3>3 DEF PassesOn
    <3>5. c2[j - 1] = c[j - 1]
      BY <3>1, <3>4 DEF CountsOn
    <3>6. c[j] + Hand(j) = c[j - 1]
      BY <1>7, <3>2 DEF Passed
    <3> QED BY <3>2, <3>5, <3>6
  <2> QED BY <2>1, <2>2
<1> QED BY <1>6, <1>7 DEF Passed

\* The poison goes on from position to position.
LEMMA ProduceEnds ==
  ASSUME IInv, Ends, NEW i \in 1 .. Positions, NEW block \in Blocks,
         queue' = [queue EXCEPT ![Out(i)] = Append(@, block)],
         \A j \in (1 .. Positions) \ {i} : state'[j] = state[j],
         state[i] \in {"hold", "poison"},
         IF IsPoison(block)
           THEN /\ state'[i] = "done"
                /\ IF i = Reader THEN offset' = Entries[run'] ELSE state[i] = "poison"
           ELSE state'[i] = "consume",
         i = Reader \/ (offset' = offset /\ run' = run)
  PROVE  Ends'
<1>1. /\ Writer \in Nat /\ Writer >= 2 /\ Positions = Writer + 1 /\ Reader = 1
      /\ Reader \in 1 .. Positions
  BY Indices
<1>2. \A j \in 1 .. Positions : Out(j) \in Queues
  <2> SUFFICES ASSUME NEW j \in 1 .. Positions PROVE Out(j) \in Queues
    OBVIOUS
  <2>1. j = Positions \/ j \in 1 .. Writer
    BY <1>1
  <2> QED BY <2>1, Indices
<1>3. /\ queue[Out(i)] \in Seq(Blocks) /\ queue'[Out(i)] = Append(queue[Out(i)], block)
      /\ \A j \in Queues : j # Out(i) => queue'[j] = queue[j]
  BY <1>2 DEF IInv, Types
<1>4. /\ Len(queue'[Out(i)]) = Len(queue[Out(i)]) + 1 /\ queue'[Out(i)][Len(queue[Out(i)]) + 1] = block
      /\ \A k \in 1 .. Len(queue[Out(i)]) : queue'[Out(i)][k] = queue[Out(i)][k]
      /\ Len(queue[Out(i)]) \in Nat
  BY <1>3, AppendProperties
<1>5. \A j \in 1 .. Positions : Out(j) = Out(i) => j = i
  <2> SUFFICES ASSUME NEW j \in 1 .. Positions, Out(j) = Out(i) PROVE j = i
    OBVIOUS
  <2>1. (j = Positions \/ j \in 1 .. Writer) /\ (i = Positions \/ i \in 1 .. Writer)
    BY <1>1
  <2>2. \A m \in 1 .. Writer : m # 0
    BY <1>1
  <2> QED BY <2>1, <2>2, Indices
<1>6. state'[Reader] # "poison"
  BY <1>1 DEF Ends
<1>7. state'[Reader] = "done" => offset' = Entries[run']
  BY <1>1 DEF Ends
<1>8. ASSUME NEW j \in 2 .. Positions, state'[j] \in {"poison", "done"}
      PROVE  state'[j - 1] = "done" /\ state'[Reader] = "done"
  <2>1. j \in 1 .. Positions /\ j - 1 \in 1 .. Positions /\ j # Reader
    BY <1>1
  <2>2. state[j] \in {"poison", "done"}
    BY <1>8, <2>1
  <2>3. state[j - 1] = "done" /\ state[Reader] = "done"
    BY <2>2 DEF Ends
  <2> QED BY <1>1, <2>1, <2>3
<1>9. ASSUME NEW j \in 1 .. Positions, NEW k \in 1 .. Len(queue'[Out(j)]),
             IsPoison(queue'[Out(j)][k])
      PROVE  state'[j] = "done"
  <2>1. CASE j = i /\ k = Len(queue[Out(i)]) + 1
    BY <1>4, <1>9, <2>1
  <2>2. CASE ~(j = i /\ k = Len(queue[Out(i)]) + 1)
    <3>1. k \in 1 .. Len(queue[Out(j)]) /\ queue'[Out(j)][k] = queue[Out(j)][k]
      <4>1. CASE j = i
        BY <1>4, <2>2, <4>1
      <4>2. CASE j # i
        BY <1>2, <1>3, <1>5, <4>2
      <4> QED BY <4>1, <4>2
    <3>2. state[j] = "done"
      BY <1>9, <3>1 DEF Ends
    <3> QED BY <3>2
  <2> QED BY <2>1, <2>2
<1> QED BY <1>6, <1>7, <1>8, <1>9 DEF Ends, IsPoison
\* A position takes the next block, or the poison, from the queue behind it.
Takes(i) ==
  /\ state[i] = "consume" /\ queue[i - 1] # << >>
  /\ queue' = [queue EXCEPT ![i - 1] = Tail(@)]
  /\ current' = [current EXCEPT ![i] = Head(queue[i - 1])]
  /\ state' = [state EXCEPT ![i] = IF IsPoison(Head(queue[i - 1])) THEN "poison" ELSE "hold"]

LEMMA Taking ==
  ASSUME IInv, NEW i \in 1 .. Positions, Takes(i)
  PROVE  /\ i - 1 \in Queues
         /\ \A j \in Queues : j # i - 1 => queue'[j] = queue[j]
         /\ Len(queue[i - 1]) \in Nat /\ 1 \in 1 .. Len(queue[i - 1])
         /\ Len(queue'[i - 1]) = Len(queue[i - 1]) - 1
         /\ \A k \in 1 .. Len(queue'[i - 1]) :
              k + 1 \in 1 .. Len(queue[i - 1]) /\ queue'[i - 1][k] = queue[i - 1][k + 1]
         /\ queue[i - 1][1] \in Blocks
         /\ current'[i] = queue[i - 1][1]
         /\ state'[i] = IF IsPoison(queue[i - 1][1]) THEN "poison" ELSE "hold"
         /\ \A j \in (1 .. Positions) \ {i} : current'[j] = current[j] /\ state'[j] = state[j]
<1>1. i - 1 \in Queues
  BY LinkAssumption DEF Queues
<1>2. PICK q \in Queues : q = i - 1
  BY <1>1
<1>3. queue[q] \in Seq(Blocks) /\ queue[q] # << >>
  BY <1>2 DEF IInv, Types, Takes
<1>4. /\ Head(queue[q]) = queue[q][1] /\ queue[q][1] \in Blocks /\ 1 \in 1 .. Len(queue[q])
      /\ Len(Tail(queue[q])) = Len(queue[q]) - 1 /\ Len(queue[q]) \in Nat
      /\ \A k \in 1 .. Len(Tail(queue[q])) : Tail(queue[q])[k] = queue[q][k + 1]
  BY <1>3, HeadTailProperties
<1>5. queue'[q] = Tail(queue[q]) /\ \A j \in Queues : j # q => queue'[j] = queue[j]
  BY <1>2 DEF IInv, Types, Takes
<1>6. \A k \in 1 .. Len(Tail(queue[q])) : k + 1 \in 1 .. Len(queue[q])
  BY <1>4
<1>7. /\ current'[i] = queue[q][1] /\ state'[i] = IF IsPoison(queue[q][1]) THEN "poison" ELSE "hold"
      /\ \A j \in (1 .. Positions) \ {i} : current'[j] = current[j] /\ state'[j] = state[j]
  BY <1>2, <1>4 DEF IInv, Types, Takes
<1> QED BY <1>2, <1>4, <1>5, <1>6, <1>7

LEMMA TakeEnds ==
  ASSUME IInv, Ends, NEW i \in 1 .. Positions, Takes(i), offset' = offset, run' = run
  PROVE  Ends'
<1>1. /\ Writer \in Nat /\ Writer >= 2 /\ Positions = Writer + 1 /\ Reader = 1
      /\ Out(Positions) = 0 /\ Positions \in 1 .. Positions /\ Reader \in 1 .. Positions
  BY Indices
<1>2. state[i] = "consume"
  BY DEF Takes
<1>3. ASSUME NEW j \in 1 .. Positions, NEW k \in 1 .. Len(queue[Out(j)]),
             IsPoison(queue[Out(j)][k])
      PROVE  state[j] = "done" /\ (j = Reader \/ state[Reader] = "done")
  <2>1. state[j] = "done"
    BY <1>3 DEF Ends
  <2>2. j = Reader \/ j \in 2 .. Positions
    BY <1>1
  <2> QED BY <2>1, <2>2 DEF Ends
<1>4. ASSUME state'[i] = "poison"
      PROVE  i # Reader /\ state[i - 1] = "done" /\ state[Reader] = "done"
  <2>1. IsPoison(queue[i - 1][1]) /\ 1 \in 1 .. Len(queue[i - 1])
    BY <1>4, Taking
  <2>2. CASE i = Reader
    <3>1. i - 1 = 0
      BY <1>1, <2>2
    <3>2. state[Reader] = "done"
      BY <1>1, <1>3, <2>1, <3>1
    <3> QED BY <1>2, <2>2, <3>2
  <2>3. CASE i # Reader
    <3>1. i - 1 \in 1 .. Writer
      BY <1>1, <2>3
    <3>2. Out(i - 1) = i - 1 /\ i - 1 \in 1 .. Positions
      BY <3>1, Indices
    <3> QED BY <1>3, <2>1, <2>3, <3>2
  <2> QED BY <2>2, <2>3
<1>5. \A j \in (1 .. Positions) \ {i} : state'[j] = state[j]
  BY Taking
<1>6. state'[i] \in {"poison", "hold"}
  BY Taking
<1>7. state'[Reader] # "poison"
  BY <1>1, <1>4, <1>5 DEF Ends
<1>8. state'[Reader] = "done" => offset' = Entries[run']
  BY <1>1, <1>5, <1>6 DEF Ends
<1>9. ASSUME NEW j \in 2 .. Positions, state'[j] \in {"poison", "done"}
      PROVE  state'[j - 1] = "done" /\ state'[Reader] = "done"
  <2>1. j \in 1 .. Positions /\ j - 1 \in 1 .. Positions
    BY <1>1
  <2>2. state[j - 1] = "done" /\ state[Reader] = "done"
    <3>1. CASE j = i
      BY <1>4, <1>6, <1>9, <3>1
    <3>2. CASE j # i
      <4>1. state[j] \in {"poison", "done"}
        BY <1>5, <1>9, <2>1, <3>2
      <4> QED BY <4>1 DEF Ends
    <3> QED BY <3>1, <3>2
  <2> QED BY <1>1, <1>2, <1>5, <2>1, <2>2
<1>10. ASSUME NEW j \in 1 .. Positions, NEW k \in 1 .. Len(queue'[Out(j)]),
              IsPoison(queue'[Out(j)][k])
       PROVE  state'[j] = "done"
  <2>1. Out(j) \in Queues
    <3>1. j = Positions \/ j \in 1 .. Writer
      BY <1>1
    <3> QED BY <3>1, Indices
  <2>2. PICK l \in 1 .. Len(queue[Out(j)]) : queue'[Out(j)][k] = queue[Out(j)][l]
    <3>1. CASE Out(j) = i - 1
      <4>1. k + 1 \in 1 .. Len(queue[Out(j)]) /\ queue'[Out(j)][k] = queue[Out(j)][k + 1]
        BY <3>1, Taking
      <4> QED BY <4>1
    <3>2. CASE Out(j) # i - 1
      BY <2>1, <3>2, Taking
    <3> QED BY <3>1, <3>2
  <2>3. state[j] = "done"
    BY <1>3, <1>10, <2>2
  <2> QED BY <1>2, <1>5, <2>3
<1> QED BY <1>7, <1>8, <1>9, <1>10 DEF Ends, IsPoison

LEMMA TakeCarries ==
  ASSUME IInv, Ends, Entering, NEW c, NEW b, Counts(c), Lengths(c), Passed(c), Carried(c, b),
         NEW i \in 1 .. Positions, Takes(i), UNCHANGED <<memory, taken, dest>>
  PROVE  Lengths(c)' /\ Passed(c)' /\ Carried(c, b)'
<1>1. /\ Writer \in Nat /\ Writer >= 2 /\ Positions = Writer + 1 /\ Reader = 1
  BY Indices
<1>2. state[i] = "consume"
  BY DEF Takes
<1>3. \A j \in (1 .. Positions) \ {i} : current'[j] = current[j] /\ state'[j] = state[j]
  BY Taking
<1>4. state'[i] \in {"poison", "hold"}
  BY Taking
<1>5. \A j \in 1 .. Positions : Hand(j)' = IF j = i THEN Hand(j) + 1 ELSE Hand(j)
  BY <1>2, <1>3, <1>4 DEF Hand
<1>6. Hand(i) = 0
  BY <1>2 DEF Hand
<1>7. ASSUME NEW j \in 1 .. Writer - 1
      PROVE  IF j + 1 = i
               THEN /\ Hand(j + 1)' = 1 /\ Hand(j + 1) = 0
                    /\ Len(queue'[j]) = Len(queue[j]) - 1
                    /\ \A k \in 1 .. Len(queue'[j]) :
                         k + 1 \in 1 .. Len(queue[j]) /\ queue'[j][k] = queue[j][k + 1]
               ELSE Hand(j + 1)' = Hand(j + 1) /\ queue'[j] = queue[j]
  <2>1. j \in Queues /\ j + 1 \in 1 .. Positions
    BY ItemInQueue
  <2>2. CASE j + 1 = i
    <3>1. j = i - 1
      BY <1>1, <2>2
    <3>2. Hand(i)' = 1
      BY <1>4 DEF Hand
    <3> QED BY <1>6, <2>2, <3>1, <3>2, Taking
  <2>3. CASE j + 1 # i
    <3>1. j # i - 1
      BY <1>1, <2>3
    <3> QED BY <1>5, <2>1, <2>3, <3>1, Taking
  <2> QED BY <2>2, <2>3
<1>8. Lengths(c)'
  <2> SUFFICES ASSUME NEW j \in 1 .. Writer - 1
               PROVE  Len(queue'[j]) = c[j] - (c[j + 1] + Hand(j + 1)')
    BY DEF Lengths
  <2>1. /\ Len(queue[j]) = c[j] - (c[j + 1] + Hand(j + 1))
        /\ Len(queue[j]) \in Nat /\ c[j] \in Nat /\ c[j + 1] \in Nat
    BY ItemInQueue
  <2>2. CASE j + 1 = i
    <3>1. Hand(j + 1)' = 1 /\ Hand(j + 1) = 0 /\ Len(queue'[j]) = Len(queue[j]) - 1
      BY <1>7, <2>2
    <3>2. PICK l, p, q : l = Len(queue[j]) /\ p = c[j] /\ q = c[j + 1]
      OBVIOUS
    <3>3. l - 1 = p - (q + 1)
      BY <2>1, <3>1, <3>2
    <3> QED BY <3>1, <3>2, <3>3
  <2>3. CASE j + 1 # i
    BY <1>7, <2>1, <2>3
  <2> QED BY <2>2, <2>3
<1>9. ASSUME NEW j \in 1 .. Writer - 1, NEW k \in 1 .. Len(queue'[j])
      PROVE  IF IsPoison(queue'[j][k])
               THEN k = Len(queue'[j])
               ELSE Has(b, c[j + 1] + Hand(j + 1)' + k, j, memory[queue'[j][k].mem],
                        1 .. queue'[j][k].valid)
  <2>1. Len(queue[j]) \in Nat /\ c[j + 1] \in Nat
    BY ItemInQueue
  <2>2. CASE j + 1 = i
    <3>1. /\ k + 1 \in 1 .. Len(queue[j]) /\ queue'[j][k] = queue[j][k + 1]
          /\ Hand(j + 1)' = 1 /\ Hand(j + 1) = 0 /\ Len(queue'[j]) = Len(queue[j]) - 1
      BY <1>7, <2>2
    <3>2. c[j + 1] + Hand(j + 1) + (k + 1) = c[j + 1] + Hand(j + 1)' + k
      <4>1. PICK q \in Nat : q = c[j + 1]
        BY <2>1
      <4>2. k \in Nat /\ q + 0 + (k + 1) = q + 1 + k
        BY <2>1, <3>1
      <4> QED BY <3>1, <4>1, <4>2
    <3>3. k + 1 = Len(queue[j]) => k = Len(queue'[j])
      BY <2>1, <3>1
    <3>4. IF IsPoison(queue[j][k + 1])
            THEN k + 1 = Len(queue[j])
            ELSE Has(b, c[j + 1] + Hand(j + 1) + (k + 1), j, memory[queue[j][k + 1].mem],
                     1 .. queue[j][k + 1].valid)
      BY <3>1 DEF Carried
    <3> QED BY <3>1, <3>2, <3>3, <3>4
  <2>3. CASE j + 1 # i
    BY <1>7, <2>3 DEF Carried
  <2> QED BY <2>2, <2>3
<1>10. ASSUME NEW j \in 2 .. Writer, Holds(j)' PROVE Halfway(b, c[j] + 1, j)'
  <2>1. j \in 1 .. Positions /\ j - 1 \in 1 .. Writer - 1
    BY <1>1
  <2>2. Taken(j)' = Taken(j) /\ Dest(j)' = Dest(j)
    BY DEF Taken, Dest
  <2>3. CASE j # i
    <3>1. current'[j] = current[j] /\ Holds(j)
      BY <1>3, <1>10, <2>1, <2>3 DEF Holds
    <3>2. Live(j)' = Live(j)
      BY <2>2, <3>1 DEF Live, Places
    <3>3. Halfway(b, c[j] + 1, j)
      BY <3>1 DEF Carried
    <3>4. /\ Increasing(memory[current'[j].mem], Live(j)')
          /\ On(memory[current'[j].mem], Live(j)') \subseteq Chunk(b, c[j] + 1, j - 1)
          /\ Chunk(b, c[j] + 1, j) \subseteq On(memory[current'[j].mem], Live(j)')
          /\ \A k \in 1 .. Dest(j)' : Lets(j, memory[current'[j].mem][k])
      BY <2>2, <3>1, <3>2, <3>3 DEF Halfway
    <3> QED BY <3>4 DEF Halfway, Increasing, On, Chunk, Lets
  <2>4. CASE j = i
    <3>1. PICK q \in 1 .. Writer - 1 : q = j - 1
      BY <2>1
    <3>2. current'[i] = queue[q][1] /\ ~IsPoison(queue[q][1]) /\ 1 \in 1 .. Len(queue[q])
      BY <1>10, <2>4, <3>1, Taking DEF Holds
    <3>3. q + 1 = i
      BY <2>4, <3>1
    <3>4. c[q + 1] + Hand(q + 1) + 1 = c[j] + 1
      <4>1. c[q + 1] \in Nat
        BY ItemInQueue
      <4> QED BY <1>6, <2>4, <3>3, <4>1
    <3>5. Has(b, c[j] + 1, q, memory[queue[q][1].mem], 1 .. queue[q][1].valid)
      BY <3>2, <3>4 DEF Carried
    <3>6. Dest(j) = 0 /\ Taken(j) = 0
      <4>1. j \in Filters => taken[j] = 0 /\ dest[j] \in Nat /\ dest[j] <= 0
        BY <1>2, <2>4 DEF Entering, Holds
      <4> QED BY <4>1 DEF Dest, Taken
    <3>7. Live(j)' = 1 .. queue[q][1].valid
      <4>1. Live(j)' = (1 .. 0) \cup ((0 + 1) .. current'[j].valid)
        BY <2>2, <3>6 DEF Live, Places
      <4> QED BY <2>4, <3>2, <4>1
    <3>8. Chunk(b, c[j] + 1, j) \subseteq Chunk(b, c[j] + 1, q)
      BY <1>1, <3>1 DEF Chunk, Lets
    <3>9. /\ Increasing(memory[current'[j].mem], Live(j)')
          /\ On(memory[current'[j].mem], Live(j)') \subseteq Chunk(b, c[j] + 1, j - 1)
          /\ Chunk(b, c[j] + 1, j) \subseteq On(memory[current'[j].mem], Live(j)')
          /\ \A k \in 1 .. Dest(j)' : Lets(j, memory[current'[j].mem][k])
      BY <2>2, <2>4, <3>1, <3>2, <3>5, <3>6, <3>7, <3>8 DEF Has
    <3> QED BY <3>9 DEF Halfway, Increasing, On, Chunk, Lets
  <2> QED BY <2>3, <2>4
<1>11. Carried(c, b)'
  BY <1>9, <1>10 DEF Carried, Has, Increasing, On, Chunk, Lets, IsPoison
<1>12. ASSUME NEW j \in 1 .. Writer
       PROVE  c[j] <= c[Reader] /\ (state'[j] = "done" => c[j] = c[Reader])
  <2>1. j \in 1 .. Positions
    BY <1>1
  <2>2. state'[j] = "done" => state[j] = "done"
    BY <1>3, <1>4, <2>1
  <2> QED BY <2>2 DEF Passed
<1>13. ASSUME NEW j \in 2 .. Writer, state'[j] \in {"poison", "done"}
       PROVE  c[j] + Hand(j)' = c[j - 1]
  <2>1. j \in 1 .. Positions
    BY <1>1
  <2>2. CASE j # i
    BY <1>3, <1>5, <1>13, <2>1, <2>2 DEF Passed
  <2>3. CASE j = i
    <3>1. PICK q \in 1 .. Writer - 1 : q = j - 1 /\ q + 1 = j
      BY <1>1
    <3>2. IsPoison(queue[q][1]) /\ 1 \in 1 .. Len(queue[q])
      BY <1>13, <2>3, <3>1, Taking
    <3>3. Len(queue[q]) = 1
      BY <3>2 DEF Carried
    <3>4. Len(queue[q]) = c[q] - (c[j] + 0) /\ c[q] \in Nat /\ c[j] \in Nat
      BY <1>6, <2>3, <3>1, ItemInQueue
    <3>5. c[j] + 1 = c[q]
      <4>1. PICK x \in Nat, y \in Nat : x = c[j] /\ y = c[q]
        BY <3>4
      <4>2. 1 = y - (x + 0)
        BY <3>3, <3>4, <4>1
      <4> QED BY <4>1, <4>2
    <3>6. Hand(j)' = 1
      BY <1>4, <2>3 DEF Hand
    <3> QED BY <3>1, <3>5, <3>6
  <2> QED BY <2>2, <2>3
<1>14. Passed(c)'
  BY <1>12, <1>13 DEF Passed
<1> QED BY <1>8, <1>11, <1>14
---------------------------------------------------------------------------
\* What operator++ of PruneNGramStream does to the entries of a block.
Copied(row, row2, s, t) ==
  row2[s + 1] = row[t + 1] /\ \A k \in (1 .. BlockSize) \ {s + 1} : row2[k] = row[k]

LEMMA EntryKept ==
  ASSUME NEW row \in [1 .. BlockSize -> Nat], NEW s \in Nat, NEW t \in Nat, NEW v \in Nat,
         s <= t, t < v, v <= BlockSize, Increasing(row, Places(s, t, v)),
         NEW row2, Copied(row, row2, s, t)
  PROVE  /\ Increasing(row2, Places(s + 1, t + 1, v))
         /\ On(row2, Places(s + 1, t + 1, v)) = On(row, Places(s, t, v))
<1> DEFINE old == Places(s, t, v)
           new == Places(s + 1, t + 1, v)
           g(k) == IF k = s + 1 THEN t + 1 ELSE k
           h(k) == IF k = t + 1 THEN s + 1 ELSE k
<1>1. ASSUME NEW k \in new PROVE g(k) \in old /\ row2[k] = row[g(k)] /\ k \in Int
  <2>1. k \in 1 .. BlockSize /\ g(k) \in old
    BY LinkAssumption DEF Places
  <2> QED BY <2>1 DEF Copied
<1>2. ASSUME NEW k \in old PROVE h(k) \in new /\ row2[h(k)] = row[k]
  <2>1. h(k) \in new /\ k \in Int
    BY DEF Places
  <2>2. g(h(k)) = k
    <3>1. k = s + 1 => k = t + 1
      BY <2>1 DEF Places
    <3> QED BY <3>1
  <2> QED BY <1>1, <2>1, <2>2
<1>3. ASSUME NEW j \in new, NEW k \in new, j < k PROVE g(j) < g(k)
  BY <1>3 DEF Places
<1> HIDE DEF old, new, g, h
<1>4. Increasing(row2, new)
  <2>1. Increasing(row, old)
    BY DEF old
  <2> SUFFICES ASSUME NEW j \in new, NEW k \in new, j < k PROVE row2[j] < row2[k]
    BY DEF Increasing
  <2>2. row[g(j)] < row[g(k)]
    BY <1>1, <1>3, <2>1 DEF Increasing
  <2> QED BY <1>1, <2>2
<1>5. On(row2, new) = On(row, old)
  <2>1. \A x \in On(row2, new) : x \in On(row, old)
    BY <1>1 DEF On
  <2>2. \A x \in On(row, old) : x \in On(row2, new)
    BY <1>2 DEF On
  <2> QED BY <2>1, <2>2
<1> QED BY <1>4, <1>5 DEF old, new

LEMMA EntryDropped ==
  ASSUME NEW row, NEW s \in Nat, NEW t \in Nat, NEW v \in Nat, s <= t, t < v,
         Increasing(row, Places(s, t, v))
  PROVE  /\ Increasing(row, Places(s, t + 1, v))
         /\ On(row, Places(s, t + 1, v)) \subseteq On(row, Places(s, t, v))
         /\ \A x \in On(row, Places(s, t, v)) :
              x = row[t + 1] \/ x \in On(row, Places(s, t + 1, v))
<1> DEFINE old == Places(s, t, v)
           new == Places(s, t + 1, v)
<1>1. new \subseteq old /\ \A k \in old : k = t + 1 \/ k \in new
  BY DEF Places
<1> HIDE DEF old, new
<1>2. Increasing(row, old)
  BY DEF old
<1>3. Increasing(row, new)
  BY <1>1, <1>2 DEF Increasing
<1>4. On(row, new) \subseteq On(row, old)
  BY <1>1 DEF On
<1>5. \A x \in On(row, old) : x = row[t + 1] \/ x \in On(row, new)
  BY <1>1 DEF On
<1> QED BY <1>3, <1>4, <1>5 DEF old, new

LEMMA EntryCarries ==
  ASSUME IInv, Entering, NEW c, NEW b, Carried(c, b), NEW i \in Filters, FilterEntry(i)
  PROVE  Entering' /\ Carried(c, b)'
<1> DEFINE s == dest[i]
           t == taken[i]
           v == current[i].valid
           mem == current[i].mem
           row == memory[mem]
           n == c[i] + 1
<1>1. /\ Writer \in Nat /\ Writer >= 2 /\ Positions = Writer + 1 /\ Reader = 1
      /\ i \in 1 .. Positions /\ i \in 2 .. Writer /\ i # Reader /\ Filters # {}
  BY Indices
<1>2. /\ queue' = queue /\ current' = current /\ state' = state /\ written' = written
      /\ Holds(i) /\ t < v
  BY DEF FilterEntry, lvars, Holds
<1>3. mem \in 1 .. BlockCount /\ v \in 0 .. BlockSize
  <2>1. mem \in 0 .. BlockCount /\ mem # 0 /\ v \in 0 .. BlockSize
    BY <1>1, <1>2 DEF IInv, Types, Blocks, HoldsMemory, IsPoison, NoMemory
  <2> HIDE DEF mem
  <2> QED BY <2>1, LinkAssumption
<1>4. /\ row \in [1 .. BlockSize -> Nat] /\ s \in Nat /\ t \in Nat /\ v \in Nat
      /\ s <= t /\ t < v /\ v <= BlockSize /\ t + 1 \in 1 .. BlockSize /\ s + 1 \in 1 .. BlockSize
      /\ BlockSize \in Nat
  <2>1. row \in [1 .. BlockSize -> Nat] /\ s \in Nat /\ t \in Nat /\ s <= t
    BY <1>3 DEF Entering
  <2>2. PICK x, y, z : x = s /\ y = t /\ z = v
    OBVIOUS
  <2>3. x \in Nat /\ y \in Nat /\ x <= y /\ y < z /\ z \in 0 .. BlockSize /\ BlockSize \in Nat
    BY <1>2, <1>3, <2>1, <2>2, LinkAssumption
  <2>4. z \in Nat /\ z <= BlockSize /\ y + 1 \in 1 .. BlockSize /\ x + 1 \in 1 .. BlockSize
    BY <2>3
  <2> QED BY <2>1, <2>2, <2>3, <2>4
<1>5. /\ memory' = IF Kept(row[t + 1]) THEN [memory EXCEPT ![mem][s + 1] = row[t + 1]] ELSE memory
      /\ dest' = IF Kept(row[t + 1]) THEN [dest EXCEPT ![i] = s + 1] ELSE dest
      /\ taken' = [taken EXCEPT ![i] = t + 1]
  BY DEF FilterEntry
<1>6. /\ dest'[i] = IF Kept(row[t + 1]) THEN s + 1 ELSE s
      /\ taken'[i] = t + 1
      /\ \A j \in Filters : j # i => dest'[j] = dest[j] /\ taken'[j] = taken[j]
      /\ dest' \in [Filters -> Nat] /\ taken' \in [Filters -> Nat]
  <2>1. dest \in [Filters -> Nat] /\ taken \in [Filters -> Nat]
    BY DEF Entering
  <2>2. s + 1 \in Nat /\ t + 1 \in Nat
    BY SMTT(30), <1>4
  <2> HIDE DEF s, t, row
  <2>3. /\ taken'[i] = t + 1 /\ taken' \in [Filters -> Nat]
        /\ \A j \in Filters : j # i => taken'[j] = taken[j]
    BY <1>5, <2>1, <2>2
  <2>4. CASE Kept(row[t + 1])
    BY <1>5, <2>1, <2>2, <2>3, <2>4
  <2>5. CASE ~Kept(row[t + 1])
    <3>1. dest' = dest
      BY <1>5, <2>5
    <3> QED BY <2>1, <2>3, <2>5, <3>1 DEF s
  <2> QED BY <2>4, <2>5
<1>7. /\ \A m \in 1 .. BlockCount : m # mem => memory'[m] = memory[m]
      /\ memory'[mem] = IF Kept(row[t + 1]) THEN [row EXCEPT ![s + 1] = row[t + 1]] ELSE row
      /\ memory' \in [1 .. BlockCount -> [1 .. BlockSize -> Nat]]
  <2>1. memory \in [1 .. BlockCount -> [1 .. BlockSize -> Nat]]
    BY DEF Entering
  <2>2. row[t + 1] \in Nat
    BY <1>4
  <2> HIDE DEF mem, s, t
  <2> QED BY <1>3, <1>4, <1>5, <2>1, <2>2
<1> HIDE DEF s, t, v, mem, row, n
<1>8. Entering'
  <2> SUFFICES ASSUME NEW j \in Filters
               PROVE  /\ dest'[j] <= taken'[j]
                      /\ IF Holds(j) THEN taken'[j] <= current[j].valid ELSE taken'[j] = 0
    BY <1>2, <1>6, <1>7 DEF Entering, Holds
  <2>1. CASE j = i
    <3>1. s + 1 <= t + 1 /\ s <= t + 1 /\ t + 1 <= v
      BY <1>4
    <3> QED BY <1>2, <1>6, <2>1, <3>1 DEF v
  <2>2. CASE j # i
    BY <1>6, <2>2 DEF Entering
  <2> QED BY <2>1, <2>2
<1>9. Dest(i) = s /\ Taken(i) = t /\ Dest(i)' = dest'[i] /\ Taken(i)' = t + 1
  BY <1>6 DEF Dest, Taken, s, t
<1>10. Live(i) = Places(s, t, v) /\ Live(i)' = Places(dest'[i], t + 1, v)
  <2>1. Live(i)' = Places(Dest(i)', Taken(i)', current'[i].valid)
    BY DEF Live, Places
  <2> QED BY <1>2, <1>9, <2>1 DEF Live, v
<1>11. /\ Increasing(row, Live(i))
       /\ On(row, Live(i)) \subseteq Chunk(b, n, i - 1)
       /\ Chunk(b, n, i) \subseteq On(row, Live(i))
       /\ \A k \in 1 .. s : Lets(i, row[k])
  BY <1>1, <1>2, <1>9 DEF Carried, Halfway, row, mem, n
<1>12. \A e : Lets(i, e) <=> Kept(e)
  BY <1>1 DEF Lets
<1>13. /\ Increasing(memory'[mem], Live(i)')
       /\ On(memory'[mem], Live(i)') \subseteq Chunk(b, n, i - 1)
       /\ Chunk(b, n, i) \subseteq On(memory'[mem], Live(i)')
       /\ \A k \in 1 .. dest'[i] : Lets(i, memory'[mem][k])
  <2>1. CASE Kept(row[t + 1])
    <3>1. memory'[mem] = [row EXCEPT ![s + 1] = row[t + 1]] /\ dest'[i] = s + 1
      BY <1>6, <1>7, <2>1
    <3>2. /\ Increasing(memory'[mem], Live(i)')
          /\ On(memory'[mem], Live(i)') = On(row, Live(i))
      <4>1. Increasing(row, Places(s, t, v))
        BY <1>10, <1>11
      <4>2. PICK row2 : row2 = memory'[mem]
        OBVIOUS
      <4>3. Copied(row, row2, s, t)
        BY <1>4, <3>1, <4>2 DEF Copied
      <4>4. /\ Increasing(row2, Places(s + 1, t + 1, v))
            /\ On(row2, Places(s + 1, t + 1, v)) = On(row, Places(s, t, v))
        BY <1>4, <4>1, <4>3, EntryKept
      <4> QED BY <1>10, <3>1, <4>2, <4>4
    <3>3. ASSUME NEW k \in 1 .. (s + 1) PROVE Lets(i, memory'[mem][k])
      <4>1. CASE k = s + 1
        <5>1. memory'[mem][k] = row[t + 1]
          BY <1>4, <3>1, <4>1
        <5> QED BY <1>12, <2>1, <5>1
      <4>2. CASE k # s + 1
        <5>1. k \in 1 .. s
          BY <1>4, <4>2
        <5>2. k \in 1 .. BlockSize
          BY <1>4, <5>1
        <5>3. memory'[mem][k] = row[k]
          BY <1>4, <3>1, <4>2, <5>2
        <5> QED BY <1>11, <5>1, <5>3
      <4> QED BY <4>1, <4>2
    <3> QED BY <1>11, <3>1, <3>2, <3>3
  <2>2. CASE ~Kept(row[t + 1])
    <3>1. memory'[mem] = row /\ dest'[i] = s
      BY <1>6, <1>7, <2>2
    <3>2. /\ Increasing(row, Live(i)')
          /\ On(row, Live(i)') \subseteq On(row, Live(i))
          /\ \A x \in On(row, Live(i)) : x = row[t + 1] \/ x \in On(row, Live(i)')
      <4>1. Increasing(row, Places(s, t, v))
        BY <1>10, <1>11
      <4>2. /\ Increasing(row, Places(s, t + 1, v))
            /\ On(row, Places(s, t + 1, v)) \subseteq On(row, Places(s, t, v))
            /\ \A x \in On(row, Places(s, t, v)) :
                 x = row[t + 1] \/ x \in On(row, Places(s, t + 1, v))
        BY <1>4, <4>1, EntryDropped
      <4> QED BY <1>10, <3>1, <4>2
    <3>3. row[t + 1] \notin Chunk(b, n, i)
      BY <1>12, <2>2 DEF Chunk
    <3> QED BY <1>11, <3>1, <3>2, <3>3
  <2> QED BY <2>1, <2>2
<1>14. ASSUME NEW j \in 1 .. Writer - 1, NEW k \in 1 .. Len(queue[j]), ~IsPoison(queue[j][k])
       PROVE  memory'[queue[j][k].mem] = memory[queue[j][k].mem]
  <2>1. j \in Queues /\ queue[j][k] \in Blocks
    <3>1. j \in 1 .. Writer
      BY <1>1
    <3>2. j \in Queues
      BY <3>1, Indices
    <3>3. queue[j] \in Seq(Blocks)
      BY <3>2 DEF IInv, Types
    <3> QED BY <3>2, <3>3
  <2>2. PICK m : m = queue[j][k].mem
    OBVIOUS
  <2>3. m \in 0 .. BlockCount /\ m # 0
    BY <1>14, <2>1, <2>2 DEF Blocks, IsPoison, NoMemory
  <2>4. m \in 1 .. BlockCount
    BY <2>3, LinkAssumption
  <2>5. m # mem
    BY <1>1, <1>2, <2>1, <2>2 DEF IInv, QueuedOrHeld, mem
  <2> QED BY <1>7, <2>2, <2>4, <2>5
<1>15. ASSUME NEW j \in 1 .. Writer - 1, NEW k \in 1 .. Len(queue[j])
       PROVE  IF IsPoison(queue[j][k])
                THEN k = Len(queue[j])
                ELSE Has(b, c[j + 1] + Hand(j + 1) + k, j, memory'[queue[j][k].mem],
                         1 .. queue[j][k].valid)
  BY <1>14 DEF Carried
<1>16. ASSUME NEW j \in 2 .. Writer, Holds(j) PROVE Halfway(b, c[j] + 1, j)'
  <2>1. CASE j = i
    <3>1. Dest(j)' = dest'[i] /\ current'[j].mem = mem /\ c[j] + 1 = n
      BY <1>2, <1>9, <2>1 DEF mem, n
    <3>2. /\ Increasing(memory'[current'[j].mem], Live(j)')
          /\ On(memory'[current'[j].mem], Live(j)') \subseteq Chunk(b, c[j] + 1, j - 1)
          /\ Chunk(b, c[j] + 1, j) \subseteq On(memory'[current'[j].mem], Live(j)')
          /\ \A k \in 1 .. Dest(j)' : Lets(j, memory'[current'[j].mem][k])
      BY <1>13, <2>1, <3>1
    <3> QED BY <3>2 DEF Halfway, Increasing, On, Chunk, Lets
  <2>2. CASE j # i
    <3>1. j \in 1 .. Positions
      BY <1>1
    <3>2. Dest(j)' = Dest(j) /\ Taken(j)' = Taken(j)
      BY <1>6, <2>2 DEF Dest, Taken
    <3>3. Live(j)' = Live(j)
      BY <1>2, <3>2 DEF Live, Places
    <3>4. memory'[current[j].mem] = memory[current[j].mem]
      <4>1. PICK m : m = current[j].mem
        OBVIOUS
      <4>2. m \in 0 .. BlockCount /\ m # 0
        BY <1>16, <3>1, <4>1 DEF IInv, Types, Blocks, HoldsMemory, IsPoison, NoMemory
      <4>3. m \in 1 .. BlockCount
        BY <4>2, LinkAssumption
      <4>4. m # mem
        BY <1>1, <1>2, <1>16, <2>2, <3>1, <4>1 DEF IInv, HeldOnce, mem
      <4> QED BY <1>7, <4>1, <4>3, <4>4
    <3>5. Halfway(b, c[j] + 1, j)
      BY <1>16 DEF Carried
    <3>6. /\ Increasing(memory'[current'[j].mem], Live(j)')
          /\ On(memory'[current'[j].mem], Live(j)') \subseteq Chunk(b, c[j] + 1, j - 1)
          /\ Chunk(b, c[j] + 1, j) \subseteq On(memory'[current'[j].mem], Live(j)')
          /\ \A k \in 1 .. Dest(j)' : Lets(j, memory'[current'[j].mem][k])
      BY <1>2, <3>2, <3>3, <3>4, <3>5 DEF Halfway
    <3> QED BY <3>6 DEF Halfway, Increasing, On, Chunk, Lets
  <2> QED BY <2>1, <2>2
<1>17. \A j \in 2 .. Writer : Holds(j)' => Holds(j)
  BY <1>2 DEF Holds
<1>18. \A j \in 1 .. Writer - 1 : Hand(j + 1)' = Hand(j + 1)
  BY <1>2 DEF Hand
<1>19. Carried(c, b)'
  <2>1. ASSUME NEW j \in 1 .. Writer - 1, NEW k \in 1 .. Len(queue'[j])
        PROVE  IF IsPoison(queue'[j][k])
                 THEN k = Len(queue'[j])
                 ELSE Has(b, c[j + 1] + Hand(j + 1)' + k, j, memory'[queue'[j][k].mem],
                          1 .. queue'[j][k].valid)
    BY <1>2, <1>15, <1>18
  <2>2. ASSUME NEW j \in 2 .. Writer, Holds(j)' PROVE Halfway(b, c[j] + 1, j)'
    BY <1>16, <1>17, <2>2
  <2> QED BY <2>1, <2>2 DEF Carried, Has, Increasing, On, Chunk, Lets, IsPoison
<1> QED BY <1>8, <1>19
---------------------------------------------------------------------------
\* What does not touch the positions from Read to Write, and what they hold.
LEMMA AsideFlow ==
  ASSUME Entering, NEW c, NEW b, Flow(c, b),
         \A j \in 1 .. Writer - 1 : queue'[j] = queue[j],
         \A j \in 1 .. Writer : /\ current'[j] = current[j]
                                /\ \/ state'[j] = state[j]
                                   \/ state[j] = "unstarted" /\ state'[j] = "consume",
         UNCHANGED <<memory, taken, dest, written, offset>>
  PROVE  Entering' /\ Flow(c, b)'
<1>1. /\ Writer \in Nat /\ Writer >= 2 /\ Reader = 1 /\ Reader \in 1 .. Writer
      /\ \A j \in Filters : j \in 1 .. Writer
  BY Indices
<1>2. \A j \in 1 .. Writer : Holds(j)' = Holds(j) /\ Hand(j)' = Hand(j)
  BY DEF Holds, Hand
<1>3. \A j \in 1 .. Writer - 1 : j + 1 \in 1 .. Writer /\ Hand(j + 1)' = Hand(j + 1)
  <2> SUFFICES ASSUME NEW j \in 1 .. Writer - 1 PROVE j + 1 \in 1 .. Writer
    BY <1>2
  <2> QED BY <1>1
<1>4. \A j \in 2 .. Writer : j \in 1 .. Writer
  BY <1>1
<1>5. Entering'
  BY <1>1, <1>2 DEF Entering
<1>6. Lengths(c)'
  BY <1>3 DEF Flow, Lengths
<1>7. Passed(c)'
  <2>1. ASSUME NEW j \in 1 .. Writer
        PROVE  c[j] <= c[Reader] /\ (state'[j] = "done" => c[j] = c[Reader])
    BY DEF Flow, Passed
  <2>2. ASSUME NEW j \in 2 .. Writer, state'[j] \in {"poison", "done"}
        PROVE  c[j] + Hand(j)' = c[j - 1]
    BY <1>2, <1>4, <2>2 DEF Flow, Passed
  <2> QED BY <2>1, <2>2 DEF Passed
<1>8. HasRead(c, b)'
  <2>1. state'[Reader] = "done" => state[Reader] = "done"
    BY <1>1
  <2>2. \A n \in Nat : n >= c[Reader] => b[n] = offset'
    BY DEF Flow, HasRead
  <2>3. state'[Reader] = "done" => c[Reader] > 0 /\ b[c[Reader] - 1] = offset'
    BY <2>1 DEF Flow, HasRead
  <2> QED BY <2>2, <2>3 DEF Flow, HasRead
<1>9. Wrote(c, b)'
  BY DEF Flow, Wrote, Increasing, On, Lets
<1>10. ASSUME NEW j \in 2 .. Writer, Holds(j)' PROVE Halfway(b, c[j] + 1, j)'
  <2>1. Holds(j) /\ current'[j] = current[j]
    BY <1>2, <1>4, <1>10
  <2>2. Dest(j)' = Dest(j) /\ Taken(j)' = Taken(j)
    BY DEF Dest, Taken
  <2>3. Live(j)' = Live(j)
    BY <2>1, <2>2 DEF Live, Places
  <2>4. Halfway(b, c[j] + 1, j)
    BY <2>1 DEF Flow, Carried
  <2>5. /\ Increasing(memory[current'[j].mem], Live(j)')
        /\ On(memory[current'[j].mem], Live(j)') \subseteq Chunk(b, c[j] + 1, j - 1)
        /\ Chunk(b, c[j] + 1, j) \subseteq On(memory[current'[j].mem], Live(j)')
        /\ \A k \in 1 .. Dest(j)' : Lets(j, memory[current'[j].mem][k])
    BY <2>1, <2>2, <2>3, <2>4 DEF Halfway
  <2> QED BY <2>5 DEF Halfway, Increasing, On, Chunk, Lets
<1>11. Carried(c, b)'
  <2>1. ASSUME NEW j \in 1 .. Writer - 1, NEW k \in 1 .. Len(queue'[j])
        PROVE  IF IsPoison(queue'[j][k])
                 THEN k = Len(queue'[j])
                 ELSE Has(b, c[j + 1] + Hand(j + 1)' + k, j, memory'[queue'[j][k].mem],
                          1 .. queue'[j][k].valid)
    BY <1>3 DEF Flow, Carried
  <2> QED BY <1>10, <2>1 DEF Carried, Has, Increasing, On, Chunk, Lets, IsPoison
<1> QED BY <1>5, <1>6, <1>7, <1>8, <1>9, <1>11 DEF Flow

LEMMA TakeFlow ==
  ASSUME IInv, Ends, Entering, NEW c, NEW b, Counts(c), Flow(c, b),
         NEW i \in 1 .. Positions, Takes(i), UNCHANGED <<memory, taken, dest, written, offset>>
  PROVE  Entering' /\ Flow(c, b)'
<1>1. Lengths(c)' /\ Passed(c)' /\ Carried(c, b)'
  BY TakeCarries DEF Flow
<1>2. \A j \in (1 .. Positions) \ {i} : current'[j] = current[j] /\ state'[j] = state[j]
  BY Taking
<1>3. state[i] = "consume" /\ state'[i] \in {"poison", "hold"}
  BY Taking DEF Takes
<1>4. HasRead(c, b)'
  <2>1. Reader \in 1 .. Positions
    BY Indices
  <2>2. state'[Reader] = "done" => state[Reader] = "done"
    BY <1>2, <1>3, <2>1
  <2>3. \A n \in Nat : n >= c[Reader] => b[n] = offset'
    BY DEF Flow, HasRead
  <2>4. state'[Reader] = "done" => c[Reader] > 0 /\ b[c[Reader] - 1] = offset'
    BY <2>2 DEF Flow, HasRead
  <2> QED BY <2>3, <2>4 DEF Flow, HasRead
<1>5. Wrote(c, b)'
  BY DEF Flow, Wrote, Increasing, On, Lets
<1>6. Entering'
  <2> SUFFICES ASSUME NEW j \in Filters
               PROVE  /\ dest[j] <= taken[j]
                      /\ IF Holds(j)' THEN taken[j] <= current'[j].valid ELSE taken[j] = 0
    BY DEF Entering
  <2>1. j \in 1 .. Positions
    BY Indices
  <2>2. dest[j] <= taken[j] /\ IF Holds(j) THEN taken[j] <= current[j].valid ELSE taken[j] = 0
    BY DEF Entering
  <2>3. CASE j = i
    <3>1. taken[j] = 0
      BY <1>3, <2>2, <2>3 DEF Holds
    <3>2. i - 1 \in Queues /\ queue[i - 1][1] \in Blocks /\ current'[i] = queue[i - 1][1]
      BY Taking
    <3>3. current'[i].valid \in 0 .. BlockSize
      BY <3>2 DEF Blocks
    <3>4. 0 <= current'[i].valid
      BY <3>3
    <3> QED BY <2>2, <2>3, <3>1, <3>4
  <2>4. CASE j # i
    BY <1>2, <2>1, <2>2, <2>4 DEF Holds
  <2> QED BY <2>3, <2>4
<1> QED BY <1>1, <1>4, <1>5, <1>6 DEF Flow

\* A position behind Read passes on what it holds.
LEMMA ProduceFlow ==
  ASSUME IInv, Ends, NEW c, NEW b, Counts(c), Flow(c, b), NEW i \in 2 .. Writer,
         NEW block \in Blocks, PassesOn(i, block), state[i] = "poison" <=> state'[i] = "done",
         UNCHANGED <<memory, offset>>, IsBlock(b, c[i] + 1, i, block),
         NEW c2, CountsOn(c, i, c2), Wrote(c2, b)'
  PROVE  Flow(c2, b)'
<1>1. /\ i \in 1 .. Writer /\ i # Reader /\ Reader \in 1 .. Positions
      /\ Writer \in Nat /\ Reader = 1
  BY Indices
<1>2. WritesItsBlock(i)
  BY DEF WritesItsBlock
<1>3. SameBounds(c, b, b)
  BY DEF SameBounds
<1>4. Lengths(c2)' /\ Carried(c2, b)'
  BY <1>1, <1>2, <1>3, ProduceCarries DEF Flow
<1>5. Passed(c2)'
  BY ProducePasses DEF Flow
<1>6. HasRead(c2, b)'
  <2>1. c2[Reader] = c[Reader] /\ state'[Reader] = state[Reader]
    BY <1>1 DEF CountsOn, PassesOn
  <2>2. \A n \in Nat : n >= c2[Reader] => b[n] = offset'
    BY <2>1 DEF Flow, HasRead
  <2>3. state'[Reader] = "done" => c2[Reader] > 0 /\ b[c2[Reader] - 1] = offset'
    BY <2>1 DEF Flow, HasRead
  <2> QED BY <2>2, <2>3 DEF Flow, HasRead
<1> QED BY <1>4, <1>5, <1>6 DEF Flow
---------------------------------------------------------------------------
\* The workers.
LEMMA CountingOn ==
  ASSUME NEW c, Counts(c), NEW i \in 1 .. Positions
  PROVE  \E c2 : Counts(c2) /\ CountsOn(c, i, c2)
<1> DEFINE c2 == [c EXCEPT ![i] = @ + 1]
<1>1. Counts(c2) /\ CountsOn(c, i, c2)
  BY DEF Counts, CountsOn
<1> HIDE DEF c2
<1> QED BY <1>1

LEMMA StillEntering ==
  ASSUME Entering,
         memory' \in [1 .. BlockCount -> [1 .. BlockSize -> Nat]], written' \in Seq(Nat),
         taken' \in [Filters -> Nat], dest' \in [Filters -> Nat],
         \A j \in Filters :
           \/ /\ taken'[j] = taken[j] /\ dest'[j] = dest[j]
              /\ state'[j] = state[j] /\ current'[j] = current[j]
           \/ taken'[j] = 0 /\ dest'[j] = 0 /\ state'[j] # "hold"
  PROVE  Entering'
<1> SUFFICES ASSUME NEW j \in Filters
             PROVE  /\ dest'[j] <= taken'[j]
                    /\ IF state'[j] = "hold" THEN taken'[j] <= current'[j].valid ELSE taken'[j] = 0
  BY DEF Entering, Holds
<1>1. CASE /\ taken'[j] = taken[j] /\ dest'[j] = dest[j]
           /\ state'[j] = state[j] /\ current'[j] = current[j]
  BY <1>1 DEF Entering, Holds
<1>2. CASE taken'[j] = 0 /\ dest'[j] = 0 /\ state'[j] # "hold"
  BY <1>2
<1> QED BY <1>1, <1>2

LEMMA NoneEnded ==
  ASSUME Ends, state[Reader] = "hold"
  PROVE  \A j \in 1 .. Positions : state[j] \notin {"poison", "done"}
<1> SUFFICES ASSUME NEW j \in 1 .. Positions PROVE state[j] \notin {"poison", "done"}
  OBVIOUS
<1>1. j = Reader \/ j \in 2 .. Positions
  BY LinkAssumption DEF Reader
<1> QED BY <1>1 DEF Ends

\* Read passes on a block, or the poison: no position has ended before it.
LEMMA ReaderPasses ==
  ASSUME Ends, NEW c, Counts(c), Passed(c), state[Reader] = "hold",
         NEW block, PassesOn(Reader, block), NEW c2, CountsOn(c, Reader, c2)
  PROVE  Passed(c2)'
<1>1. /\ Writer \in Nat /\ Writer >= 2 /\ Positions = Writer + 1 /\ Reader = 1
      /\ Reader \in 1 .. Positions /\ \A j \in 1 .. Writer : j \in 1 .. Positions
  BY Indices
<1>2. \A j \in (1 .. Positions) \ {Reader} : state'[j] \notin {"poison", "done"} /\ c2[j] = c[j]
  BY NoneEnded DEF PassesOn, CountsOn
<1>3. c2[Reader] = c[Reader] + 1 /\ c[Reader] \in Nat
  BY <1>1 DEF CountsOn, Counts
<1>4. ASSUME NEW j \in 1 .. Writer
      PROVE  c2[j] <= c2[Reader] /\ (state'[j] = "done" => c2[j] = c2[Reader])
  <2>1. CASE j = Reader
    BY <1>3, <2>1
  <2>2. CASE j # Reader
    <3>1. c2[j] = c[j] /\ state'[j] # "done" /\ c[j] \in Nat /\ c[j] <= c[Reader]
      BY <1>1, <1>2, <2>2 DEF Counts, Passed
    <3>2. c[j] <= c[Reader] + 1
      BY <1>3, <3>1
    <3> QED BY <1>3, <3>1, <3>2
  <2> QED BY <2>1, <2>2
<1>5. ASSUME NEW j \in 2 .. Writer PROVE state'[j] \notin {"poison", "done"}
  <2>1. j \in (1 .. Positions) \ {Reader}
    BY <1>1
  <2> QED BY <1>2, <2>1
<1> QED BY <1>4, <1>5 DEF Passed

LEMMA ReadBlockFlow == ASSUME IInv, FInv, ReadBlock PROVE FInv'
<1> DEFINE left == Entries[run] - offset
           got == IF left < BlockSize THEN left ELSE BlockSize
           mem == current[Reader].mem
           block == [current[Reader] EXCEPT !.valid = got]
<1>1. /\ Writer \in Nat /\ Writer >= 2 /\ Positions = Writer + 1 /\ Reader = 1
      /\ Reader \in 1 .. Positions /\ Reader \in 1 .. Writer /\ Writer \in 1 .. Positions
      /\ Writer \in 1 .. Writer /\ Writer # Reader /\ Out(Reader) = Reader
      /\ \A j \in Filters : j \in 1 .. Positions /\ j # Reader
  BY Indices
<1>2. PICK c, b : Counts(c) /\ Bounds(b) /\ Flow(c, b)
  BY DEF FInv
<1>3. /\ state[Reader] = "hold" /\ got > 0
      /\ queue' = [queue EXCEPT ![Out(Reader)] = Append(@, block)]
      /\ state' = [state EXCEPT ![Reader] = "consume"]
      /\ memory' = [memory EXCEPT ![mem] =
                      [k \in 1 .. BlockSize |-> IF k <= got THEN offset + k ELSE @[k]]]
      /\ offset' = offset + got
      /\ UNCHANGED <<current, taken, dest, run, written>>
  BY DEF ReadBlock, Pass, fvars
<1>4. got \in 1 .. BlockSize /\ got \in Nat /\ offset \in Nat /\ BlockSize \in Nat
  <2>1. Entries[run] \in Nat /\ offset \in Nat /\ BlockSize \in Nat
    BY ChainAssumption, LinkAssumption DEF IInv, Types
  <2> QED BY <1>3, <2>1
<1> HIDE DEF got
<1>5. mem \in 1 .. BlockCount /\ block \in Blocks /\ block.mem = mem /\ block.valid = got
      /\ ~IsPoison(block)
  <2>1. current[Reader] \in Blocks /\ mem # 0
    BY <1>1, <1>3 DEF IInv, Types, HoldsMemory, Holds, IsPoison, NoMemory
  <2>2. mem \in 0 .. BlockCount /\ got \in 0 .. BlockSize
    BY <1>4, <2>1 DEF Blocks
  <2>3. block \in Blocks /\ block.mem = mem /\ block.valid = got
    BY <2>1, <2>2 DEF Blocks
  <2> HIDE DEF mem, block
  <2>4. mem \in 1 .. BlockCount
    BY <2>1, <2>2, LinkAssumption
  <2> QED BY <2>1, <2>3, <2>4 DEF IsPoison, NoMemory
<1>6. /\ \A m \in 1 .. BlockCount : m # mem => memory'[m] = memory[m]
      /\ memory'[mem] \in [1 .. BlockSize -> Nat]
      /\ \A k \in 1 .. got : memory'[mem][k] = offset + k
      /\ memory' \in [1 .. BlockCount -> [1 .. BlockSize -> Nat]]
  <2>1. memory \in [1 .. BlockCount -> [1 .. BlockSize -> Nat]]
    BY DEF FInv, Entering
  <2> HIDE DEF mem
  <2> DEFINE row == [k \in 1 .. BlockSize |-> IF k <= got THEN offset + k ELSE memory[mem][k]]
  <2>2. row \in [1 .. BlockSize -> Nat]
    BY <1>4, <1>5, <2>1
  <2>3. \A k \in 1 .. got : row[k] = offset + k
    BY <1>4
  <2>4. memory' = [memory EXCEPT ![mem] = row]
    BY <1>3
  <2> HIDE DEF row
  <2> QED BY <1>5, <2>1, <2>2, <2>3, <2>4
<1>7. PICK c2 : Counts(c2) /\ CountsOn(c, Reader, c2)
  BY <1>1, <1>2, CountingOn
<1>23. PICK b2 : b2 = [n \in Nat |-> IF n <= c[Reader] THEN b[n] ELSE offset + got]
  OBVIOUS
<1>24. Ends /\ Entering /\ Lengths(c) /\ Passed(c) /\ HasRead(c, b) /\ Carried(c, b) /\ Wrote(c, b)
  BY <1>2 DEF FInv, Flow
<1>8. c[Reader] \in Nat /\ c2[Reader] = c[Reader] + 1 /\ c2[Writer] = c[Writer]
      /\ c[Writer] \in Nat /\ c[Writer] <= c[Reader]
  BY <1>1, <1>2, <1>7 DEF Counts, CountsOn, Flow, Passed
<1>9. /\ \A n \in Nat : n <= c[Reader] => b2[n] = b[n]
      /\ \A n \in Nat : n > c[Reader] => b2[n] = offset'
  BY <1>3, <1>8, <1>23
<1>10. Bounds(b2)
  BY <1>2, <1>4, <1>23 DEF Bounds
<1>11. /\ b[0] = 0 /\ b[c[Reader]] = offset
       /\ \A m, n \in Nat : m <= n => b[m] <= b[n]
  BY <1>2, <1>8 DEF Flow, HasRead
<1> HIDE DEF mem, block
<1>12. SameBounds(c, b, b2)
  BY <1>8, <1>9 DEF SameBounds
<1>13. PassesOn(Reader, block)
  <2>1. /\ state'[Reader] = "consume"
        /\ \A j \in (1 .. Positions) \ {Reader} : state'[j] = state[j]
    BY <1>1, <1>3 DEF IInv, Types
  <2> QED BY <1>3, <2>1 DEF PassesOn, Taken, Dest
<1>14. WritesItsBlock(Reader)
  BY <1>3, <1>6 DEF WritesItsBlock, Holds, mem
<1>15. IsBlock(b2, c[Reader] + 1, Reader, block)
  <2> DEFINE row == memory'[mem]
             n == c[Reader] + 1
  <2>1. n \in Nat /\ n - 1 = c[Reader] /\ n > c[Reader]
    BY <1>8
  <2>2. b2[n] = offset + got /\ b2[n - 1] = offset
    <3>1. b2[n] = offset'
      BY <1>9, <2>1
    <3>2. b2[c[Reader]] = offset
      BY <1>8, <1>9, <1>11
    <3> QED BY <1>3, <2>1, <3>1, <3>2
  <2> HIDE DEF row, n
  <2>3. Chunk(b2, n, Reader) = (offset + 1) .. (offset + got)
    BY <2>2 DEF Chunk, Lets
  <2>4. \A k \in 1 .. got : row[k] = offset + k
    BY <1>6 DEF row
  <2>5. Increasing(row, 1 .. got)
    BY <1>4, <2>4 DEF Increasing
  <2>6. On(row, 1 .. got) = (offset + 1) .. (offset + got)
    <3>1. \A x \in On(row, 1 .. got) : x \in (offset + 1) .. (offset + got)
      BY <1>4, <2>4 DEF On
    <3>2. ASSUME NEW x \in (offset + 1) .. (offset + got) PROVE x \in On(row, 1 .. got)
      <4>1. x - offset \in 1 .. got /\ offset + (x - offset) = x
        BY <1>4
      <4> QED BY <2>4, <4>1 DEF On
    <3> QED BY <3>1, <3>2
  <2> QED BY <1>5, <2>3, <2>5, <2>6 DEF IsBlock, Has, row, n
<1>16. Lengths(c2)' /\ Carried(c2, b2)'
  BY <1>1, <1>2, <1>5, <1>7, <1>12, <1>13, <1>14, <1>15, <1>24, ProduceCarries
<1>17. Passed(c2)'
  BY <1>2, <1>3, <1>7, <1>13, <1>24, ReaderPasses
<1>18. HasRead(c2, b2)'
  <2>1. b2[0] = 0
    BY <1>8, <1>9, <1>11
  <2>2. ASSUME NEW m \in Nat, NEW n \in Nat, m <= n PROVE b2[m] <= b2[n]
    <3>1. CASE n <= c[Reader]
      BY <1>8, <1>9, <1>11, <2>2, <3>1
    <3>2. CASE n > c[Reader] /\ m <= c[Reader]
      <4>1. b2[m] = b[m] /\ b[m] <= offset /\ b2[n] = offset + got
        BY <1>3, <1>8, <1>9, <1>11, <3>2
      <4>2. b[m] \in Nat
        BY <1>2 DEF Bounds
      <4> QED BY <1>4, <4>1, <4>2
    <3>3. CASE m > c[Reader]
      <4>1. n > c[Reader]
        BY <1>8, <2>2, <3>3
      <4>2. b2[m] = offset + got /\ b2[n] = offset + got
        BY <1>3, <1>9, <3>3, <4>1
      <4>3. offset + got \in Nat
        BY <1>4
      <4> QED BY <4>2, <4>3
    <3> QED BY <1>8, <3>1, <3>2, <3>3
  <2>3. \A n \in Nat : n >= c2[Reader] => b2[n] = offset'
    BY <1>8, <1>9
  <2>4. state'[Reader] # "done"
    BY <1>1, <1>3 DEF IInv, Types
  <2> QED BY <2>1, <2>2, <2>3, <2>4 DEF HasRead
<1>19. Wrote(c2, b2)'
  <2>1. b2[c2[Writer]] = b[c[Writer]]
    BY <1>8, <1>9
  <2>2. Wrote(c, b)
    BY <1>2 DEF Flow
  <2> QED BY <1>3, <2>1, <2>2 DEF Wrote, Increasing, On, Lets
<1>20. Ends'
  <2>1. \A j \in (1 .. Positions) \ {Reader} : state'[j] = state[j]
    BY <1>13 DEF PassesOn
  <2>2. state'[Reader] = "consume"
    BY <1>1, <1>3 DEF IInv, Types
  <2> QED BY <1>1, <1>3, <1>5, <2>1, <2>2, ProduceEnds DEF FInv
<1>21. Entering'
  <2>1. \A j \in Filters : state'[j] = state[j] /\ current'[j] = current[j]
    BY <1>1, <1>13 DEF PassesOn
  <2> QED BY <1>3, <1>6, <2>1, StillEntering DEF FInv, Entering
<1>22. Flow(c2, b2)'
  BY <1>16, <1>17, <1>18, <1>19 DEF Flow
<1> QED BY <1>7, <1>10, <1>20, <1>21, <1>22 DEF FInv
LEMMA ReadEndFlow == ASSUME IInv, FInv, ReadEnd PROVE FInv'
<1> DEFINE block == SetToPoison(current[Reader])
<1>1. /\ Writer \in Nat /\ Writer >= 2 /\ Positions = Writer + 1 /\ Reader = 1
      /\ Reader \in 1 .. Positions /\ Reader \in 1 .. Writer /\ Writer \in 1 .. Positions
      /\ Writer # Reader /\ \A j \in Filters : j \in 1 .. Positions /\ j # Reader
  BY Indices
<1>2. PICK c, b : Counts(c) /\ Bounds(b) /\ Flow(c, b)
  BY DEF FInv
<1>3. Ends /\ Entering /\ Lengths(c) /\ Passed(c) /\ HasRead(c, b) /\ Carried(c, b) /\ Wrote(c, b)
  BY <1>2 DEF FInv, Flow
<1>4. /\ state[Reader] = "hold" /\ offset = Entries[run]
      /\ queue' = [queue EXCEPT ![Out(Reader)] = Append(@, block)]
      /\ current' = [current EXCEPT ![Reader] = block]
      /\ state' = [state EXCEPT ![Reader] = "done"]
      /\ UNCHANGED <<taken, dest, run, offset, memory, written>>
  BY DEF ReadEnd, MakePoison, fvars
<1>5. block \in Blocks /\ IsPoison(block)
  <2>1. 0 \in 0 .. BlockCount /\ current[Reader] \in Blocks
    BY <1>1, LinkAssumption DEF IInv, Types
  <2> QED BY <2>1 DEF SetToPoison, IsPoison, NoMemory, Blocks
<1> HIDE DEF block
<1>6. PICK c2 : Counts(c2) /\ CountsOn(c, Reader, c2)
  BY <1>1, <1>2, CountingOn
<1>7. PassesOn(Reader, block)
  <2>1. /\ state'[Reader] = "done"
        /\ \A j \in (1 .. Positions) \ {Reader} : state'[j] = state[j] /\ current'[j] = current[j]
    BY <1>1, <1>4 DEF IInv, Types
  <2> QED BY <1>4, <2>1 DEF PassesOn, Taken, Dest
<1>8. WritesItsBlock(Reader) /\ SameBounds(c, b, b) /\ IsBlock(b, c[Reader] + 1, Reader, block)
  BY <1>4, <1>5 DEF WritesItsBlock, SameBounds, IsBlock
<1>9. Lengths(c2)' /\ Carried(c2, b)'
  BY <1>1, <1>2, <1>3, <1>5, <1>6, <1>7, <1>8, ProduceCarries
<1>10. Passed(c2)'
  BY <1>2, <1>3, <1>4, <1>6, <1>7, ReaderPasses
<1>11. c[Reader] \in Nat /\ c2[Reader] = c[Reader] + 1 /\ c2[Writer] = c[Writer]
  BY <1>1, <1>2, <1>6 DEF Counts, CountsOn
<1>12. HasRead(c2, b)'
  <2>1. \A n \in Nat : n >= c2[Reader] => b[n] = offset'
    BY <1>3, <1>4, <1>11 DEF HasRead
  <2>2. c2[Reader] > 0 /\ b[c2[Reader] - 1] = offset'
    <3>1. c2[Reader] > 0 /\ c2[Reader] - 1 = c[Reader]
      BY <1>11
    <3>2. b[c[Reader]] = offset
      BY <1>3, <1>11 DEF HasRead
    <3> QED BY <1>4, <3>1, <3>2
  <2> QED BY <1>3, <2>1, <2>2 DEF HasRead
<1>13. Wrote(c2, b)'
  BY <1>3, <1>4, <1>11 DEF Wrote, Increasing, On, Lets
<1>14. Ends'
  <2>1. \A j \in (1 .. Positions) \ {Reader} : state'[j] = state[j]
    BY <1>7 DEF PassesOn
  <2>2. state'[Reader] = "done" /\ offset' = Entries[run']
    BY <1>1, <1>4 DEF IInv, Types
  <2> QED BY <1>1, <1>3, <1>4, <1>5, <2>1, <2>2, ProduceEnds
<1>15. Entering'
  <2>1. \A j \in Filters : state'[j] = state[j] /\ current'[j] = current[j]
    BY <1>1, <1>7 DEF PassesOn
  <2> QED BY <1>3, <1>4, <2>1, StillEntering DEF Entering
<1>16. Flow(c2, b)'
  BY <1>9, <1>10, <1>12, <1>13 DEF Flow
<1> QED BY <1>2, <1>6, <1>14, <1>15, <1>16 DEF FInv

LEMMA FilterBlockFlow ==
  ASSUME IInv, FInv, NEW i \in Filters, FilterBlock(i) PROVE FInv'
<1> DEFINE block == [current[i] EXCEPT !.valid = dest[i]]
<1>1. /\ Writer \in Nat /\ Writer >= 2 /\ Positions = Writer + 1 /\ Reader = 1
      /\ i \in 1 .. Positions /\ i \in 2 .. Writer /\ i \in 1 .. Writer /\ i # Reader
      /\ i # Writer /\ Writer \in 1 .. Positions /\ Filters # {}
      /\ \A j \in Filters : j \in 1 .. Positions
  BY Indices
<1>2. PICK c, b : Counts(c) /\ Bounds(b) /\ Flow(c, b)
  BY DEF FInv
<1>3. Ends /\ Entering /\ Lengths(c) /\ Passed(c) /\ HasRead(c, b) /\ Carried(c, b) /\ Wrote(c, b)
  BY <1>2 DEF FInv, Flow
<1>4. /\ state[i] = "hold" /\ taken[i] = current[i].valid
      /\ queue' = [queue EXCEPT ![Out(i)] = Append(@, block)]
      /\ state' = [state EXCEPT ![i] = "consume"]
      /\ taken' = [taken EXCEPT ![i] = 0] /\ dest' = [dest EXCEPT ![i] = 0]
      /\ UNCHANGED <<current, run, offset, memory, written>>
  BY DEF FilterBlock, Pass
<1>5. /\ block \in Blocks /\ block.mem = current[i].mem /\ block.valid = dest[i]
      /\ ~IsPoison(block) /\ current[i].valid \in Nat /\ dest[i] \in Nat
  <2>1. current[i] \in Blocks /\ ~IsPoison(current[i])
    BY <1>1, <1>4 DEF IInv, Types, HoldsMemory, Holds
  <2>2. current[i].valid \in 0 .. BlockSize /\ dest[i] \in Nat /\ dest[i] <= current[i].valid
    BY <1>3, <1>4, <2>1 DEF Entering, Blocks
  <2>3. dest[i] \in 0 .. BlockSize
    BY <2>2, LinkAssumption
  <2> QED BY <2>1, <2>2, <2>3 DEF Blocks, IsPoison
<1> HIDE DEF block
<1>6. PICK c2 : Counts(c2) /\ CountsOn(c, i, c2)
  BY <1>1, <1>2, CountingOn
<1>7. /\ state'[i] = "consume" /\ taken'[i] = 0 /\ dest'[i] = 0
      /\ \A j \in (1 .. Positions) \ {i} : state'[j] = state[j]
      /\ \A j \in Filters \ {i} : taken'[j] = taken[j] /\ dest'[j] = dest[j]
      /\ taken' \in [Filters -> Nat] /\ dest' \in [Filters -> Nat]
  BY <1>1, <1>3, <1>4 DEF IInv, Types, Entering
<1>8. PassesOn(i, block)
  BY <1>4, <1>7 DEF PassesOn, Taken, Dest
<1>9. IsBlock(b, c[i] + 1, i, block)
  <2> DEFINE row == memory[current[i].mem]
             n == c[i] + 1
  <2>1. Halfway(b, n, i)
    BY <1>1, <1>3, <1>4 DEF Carried, Holds
  <2>2. Dest(i) = dest[i] /\ Taken(i) = current[i].valid
    BY <1>4 DEF Dest, Taken
  <2>3. Live(i) = 1 .. dest[i]
    <3>1. Live(i) = (1 .. dest[i]) \cup ((current[i].valid + 1) .. current[i].valid)
      BY <2>2 DEF Live, Places
    <3>2. (current[i].valid + 1) .. current[i].valid = {}
      BY <1>5
    <3> QED BY <3>1, <3>2
  <2> HIDE DEF n, row
  <2>4. /\ Increasing(row, 1 .. dest[i])
        /\ On(row, 1 .. dest[i]) \subseteq Chunk(b, n, i - 1)
        /\ Chunk(b, n, i) \subseteq On(row, 1 .. dest[i])
        /\ \A k \in 1 .. dest[i] : Lets(i, row[k])
    BY <2>1, <2>2, <2>3 DEF Halfway, row
  <2>5. \A x \in On(row, 1 .. dest[i]) : Lets(i, x)
    BY <2>4 DEF On
  <2>6. On(row, 1 .. dest[i]) = Chunk(b, n, i)
    <3>1. \A x \in On(row, 1 .. dest[i]) : x \in Chunk(b, n, i)
      BY <2>4, <2>5 DEF Chunk
    <3> QED BY <2>4, <3>1
  <2>7. memory'[block.mem] = row
    BY <1>4, <1>5 DEF row
  <2> QED BY <1>5, <2>4, <2>6, <2>7 DEF IsBlock, Has, n
<1>10. Wrote(c2, b)'
  <2>1. c2[Writer] = c[Writer]
    BY <1>1, <1>6 DEF CountsOn
  <2> QED BY <1>3, <1>4, <2>1 DEF Wrote, Increasing, On, Lets
<1>11. Flow(c2, b)'
  BY <1>1, <1>2, <1>3, <1>4, <1>5, <1>6, <1>7, <1>8, <1>9, <1>10, ProduceFlow
<1>12. Ends'
  BY <1>1, <1>3, <1>4, <1>5, <1>7, ProduceEnds
<1>13. Entering'
  <2>1. \A j \in Filters \ {i} : state'[j] = state[j] /\ current'[j] = current[j]
    BY <1>1, <1>4, <1>7
  <2>2. ASSUME NEW j \in Filters
        PROVE  \/ /\ taken'[j] = taken[j] /\ dest'[j] = dest[j]
                  /\ state'[j] = state[j] /\ current'[j] = current[j]
               \/ taken'[j] = 0 /\ dest'[j] = 0 /\ state'[j] # "hold"
    BY <1>7, <2>1
  <2> QED BY <1>3, <1>4, <1>7, <2>2, StillEntering DEF Entering
<1> QED BY <1>2, <1>6, <1>11, <1>12, <1>13 DEF FInv
LEMMA WrittenOn ==
  ASSUME NEW w \in Seq(Nat), NEW u \in Seq(Nat), NEW x \in Nat,
         Increasing(w, 1 .. Len(w)), Increasing(u, 1 .. Len(u)),
         \A e \in On(w, 1 .. Len(w)) : e <= x, \A e \in On(u, 1 .. Len(u)) : e > x
  PROVE  /\ w \o u \in Seq(Nat)
         /\ Increasing(w \o u, 1 .. Len(w \o u))
         /\ On(w \o u, 1 .. Len(w \o u)) = On(w, 1 .. Len(w)) \cup On(u, 1 .. Len(u))
<1>1. PICK z, m, l : z = w \o u /\ m = Len(w) /\ l = Len(u)
  OBVIOUS
<1>2. z \in Seq(Nat) /\ Len(z) = m + l
      /\ \A k \in 1 .. (m + l) : z[k] = IF k <= m THEN w[k] ELSE u[k - m]
  BY <1>1, ConcatProperties
<1>3. m \in Nat /\ l \in Nat
  BY <1>1
<1>4. ASSUME NEW k \in 1 .. (m + l)
      PROVE  \/ k \in 1 .. m /\ z[k] = w[k] /\ w[k] \in Nat /\ w[k] <= x
             \/ k - m \in 1 .. l /\ z[k] = u[k - m] /\ u[k - m] \in Nat /\ u[k - m] > x
  <2>1. CASE k <= m
    <3>1. k \in 1 .. m
      BY <1>3, <2>1
    <3>2. w[k] \in On(w, 1 .. Len(w)) /\ w[k] \in Nat
      BY <1>1, <3>1 DEF On
    <3> QED BY <1>2, <2>1, <3>1, <3>2
  <2>2. CASE ~(k <= m)
    <3>1. k - m \in 1 .. l
      BY <1>3, <2>2
    <3>2. u[k - m] \in On(u, 1 .. Len(u)) /\ u[k - m] \in Nat
      BY <1>1, <3>1 DEF On
    <3> QED BY <1>2, <2>2, <3>1, <3>2
  <2> QED BY <2>1, <2>2
<1>5. Increasing(z, 1 .. (m + l))
  <2> SUFFICES ASSUME NEW j \in 1 .. (m + l), NEW k \in 1 .. (m + l), j < k PROVE z[j] < z[k]
    BY DEF Increasing
  <2>1. CASE k \in 1 .. m
    <3>1. j \in 1 .. m
      BY <1>3, <2>1
    <3>2. z[j] = w[j] /\ z[k] = w[k] /\ w[j] < w[k]
      BY <1>1, <1>2, <2>1, <3>1 DEF Increasing
    <3> QED BY <3>2
  <2>2. CASE j - m \in 1 .. l
    <3>1. k - m \in 1 .. l /\ j - m < k - m /\ ~(j <= m) /\ ~(k <= m)
      BY <1>3, <2>2
    <3>2. z[j] = u[j - m] /\ z[k] = u[k - m] /\ u[j - m] < u[k - m]
      BY <1>1, <1>2, <2>2, <3>1 DEF Increasing
    <3> QED BY <3>2
  <2>3. CASE k \notin 1 .. m /\ j - m \notin 1 .. l
    <3>1. z[j] \in Nat /\ z[j] <= x /\ z[k] \in Nat /\ z[k] > x
      BY <1>4, <2>3
    <3> QED BY <3>1
  <2> QED BY <2>1, <2>2, <2>3
<1>6. On(z, 1 .. (m + l)) = On(w, 1 .. m) \cup On(u, 1 .. l)
  <2>1. ASSUME NEW k \in 1 .. (m + l) PROVE z[k] \in On(w, 1 .. m) \cup On(u, 1 .. l)
    BY <1>4 DEF On
  <2>2. ASSUME NEW k \in 1 .. m PROVE w[k] \in On(z, 1 .. (m + l))
    <3>1. k \in 1 .. (m + l) /\ k <= m
      BY <1>3
    <3>2. z[k] = w[k]
      BY <1>2, <3>1
    <3> QED BY <3>1, <3>2 DEF On
  <2>3. ASSUME NEW k \in 1 .. l PROVE u[k] \in On(z, 1 .. (m + l))
    <3>1. PICK j : j = m + k
      OBVIOUS
    <3>2. j \in 1 .. (m + l) /\ ~(j <= m) /\ j - m = k
      BY <1>3, <3>1
    <3>3. z[j] = u[k]
      BY <1>2, <3>2
    <3> QED BY <3>2, <3>3 DEF On
  <2> QED BY <2>1, <2>2, <2>3 DEF On
<1> QED BY <1>1, <1>2, <1>5, <1>6

LEMMA WriteBlockFlow == ASSUME IInv, FInv, WriteBlock PROVE FInv'
<1> DEFINE block == current[Writer]
           v == block.valid
           row == memory[block.mem]
<1>1. /\ Writer \in Nat /\ Writer >= 2 /\ Positions = Writer + 1 /\ Reader = 1
      /\ Writer \in 1 .. Positions /\ Writer \in 2 .. Writer /\ Writer \in 1 .. Writer
      /\ Writer # Reader /\ Writer - 1 \in 1 .. Writer - 1
      /\ \A j \in Filters : j \in 1 .. Positions /\ j # Writer
  BY Indices
<1>2. PICK c, b : Counts(c) /\ Bounds(b) /\ Flow(c, b)
  BY DEF FInv
<1>3. Ends /\ Entering /\ Lengths(c) /\ Passed(c) /\ HasRead(c, b) /\ Carried(c, b) /\ Wrote(c, b)
  BY <1>2 DEF FInv, Flow
<1>4. /\ state[Writer] = "hold"
      /\ queue' = [queue EXCEPT ![Out(Writer)] = Append(@, block)]
      /\ state' = [state EXCEPT ![Writer] = "consume"]
      /\ written' = written \o SubSeq(row, 1, v)
      /\ UNCHANGED <<current, taken, dest, run, offset, memory>>
  BY DEF WriteBlock, Pass, fvars
<1>5. /\ block \in Blocks /\ ~IsPoison(block) /\ block.mem \in 1 .. BlockCount
      /\ v \in Nat /\ v \in 0 .. BlockSize
  <2>1. block \in Blocks /\ ~IsPoison(block)
    BY <1>1, <1>4 DEF IInv, Types, HoldsMemory, Holds
  <2>2. block.mem \in 0 .. BlockCount /\ block.mem # 0 /\ v \in 0 .. BlockSize
    BY <2>1 DEF Blocks, IsPoison, NoMemory
  <2> HIDE DEF block
  <2> QED BY <2>1, <2>2, LinkAssumption
<1> HIDE DEF block
<1>6. PICK c2 : Counts(c2) /\ CountsOn(c, Writer, c2)
  BY <1>1, <1>2, CountingOn
<1>7. state'[Writer] = "consume" /\ \A j \in (1 .. Positions) \ {Writer} : state'[j] = state[j]
  BY <1>1, <1>4 DEF IInv, Types
<1>8. PassesOn(Writer, block)
  BY <1>4, <1>7 DEF PassesOn, Taken, Dest
<1>9. IsBlock(b, c[Writer] + 1, Writer, block)
  BY <1>1 DEF IsBlock
<1>10. PICK n : n = c[Writer] + 1
  OBVIOUS
<1>11. c[Writer] \in Nat /\ n \in Nat /\ n - 1 = c[Writer] /\ c[Writer] <= n /\ c2[Writer] = n
  BY <1>1, <1>2, <1>6, <1>10 DEF Counts, CountsOn
<1>12. b[n] \in Nat /\ b[n - 1] \in Nat /\ b[n - 1] <= b[n]
  BY <1>2, <1>3, <1>11 DEF Bounds, HasRead
<1>13. Increasing(row, 1 .. v) /\ On(row, 1 .. v) = Chunk(b, n, Writer)
  <2>1. Halfway(b, n, Writer)
    BY <1>1, <1>3, <1>4, <1>10 DEF Carried, Holds
  <2>2. Dest(Writer) = 0 /\ Taken(Writer) = 0
    BY <1>1 DEF Dest, Taken
  <2>3. Live(Writer) = 1 .. v
    <3>1. Live(Writer) = (1 .. 0) \cup ((0 + 1) .. v)
      BY <2>2 DEF Live, Places, block
    <3> HIDE DEF v
    <3> QED BY <3>1
  <2> HIDE DEF v, row
  <2>4. /\ Increasing(row, 1 .. v)
        /\ On(row, 1 .. v) \subseteq Chunk(b, n, Writer - 1)
        /\ Chunk(b, n, Writer) \subseteq On(row, 1 .. v)
    BY <2>1, <2>3 DEF Halfway, row, block
  <2>5. ASSUME NEW e, Lets(Writer - 1, e) PROVE Lets(Writer, e)
    <3>1. Writer - 1 = Reader => Filters = {}
      BY <1>1 DEF Filters
    <3> QED BY <2>5, <3>1 DEF Lets
  <2>6. Chunk(b, n, Writer - 1) \subseteq Chunk(b, n, Writer)
    BY <2>5 DEF Chunk
  <2> QED BY <2>4, <2>6
<1>14. PICK u : u = SubSeq(row, 1, v)
  OBVIOUS
<1>15. u \in Seq(Nat) /\ Len(u) = v /\ \A k \in 1 .. v : u[k] = row[k]
  <2>1. row \in [1 .. BlockSize -> Nat]
    BY <1>3, <1>5 DEF Entering
  <2> HIDE DEF v, row
  <2>2. \A k \in 1 .. v : row[k] \in Nat
    BY <1>5, <2>1, LinkAssumption
  <2>3. u \in Seq(Nat) /\ Len(u) = (IF 1 <= v THEN v - 1 + 1 ELSE 0)
        /\ \A k \in 1 .. v - 1 + 1 : u[k] = row[1 + k - 1]
    BY <1>5, <1>14, <2>2, SubSeqProperties
  <2>4. Len(u) = v /\ v - 1 + 1 = v
    BY <1>5, <2>3
  <2>5. \A k \in 1 .. v : u[k] = row[k]
    <3> SUFFICES ASSUME NEW k \in 1 .. v PROVE u[k] = row[k]
      OBVIOUS
    <3>1. 1 + k - 1 = k
      BY <1>5
    <3> QED BY <2>3, <2>4, <3>1
  <2> QED BY <2>3, <2>4, <2>5
<1> HIDE DEF v, row
<1>16. Increasing(u, 1 .. Len(u)) /\ On(u, 1 .. Len(u)) = Chunk(b, n, Writer)
  <2>1. Increasing(u, 1 .. v)
    BY <1>13, <1>15 DEF Increasing
  <2>2. On(u, 1 .. v) = On(row, 1 .. v)
    BY <1>15 DEF On
  <2> QED BY <1>13, <1>15, <2>1, <2>2
<1>17. /\ written' = written \o u /\ written \in Seq(Nat)
       /\ Increasing(written, 1 .. Len(written))
       /\ On(written, 1 .. Len(written)) = {e \in 1 .. b[n - 1] : Lets(Writer, e)}
  BY <1>3, <1>4, <1>11, <1>14 DEF Wrote, Entering
<1>18. PICK x \in Nat : x = b[n - 1]
  BY <1>12
<1>19. /\ \A e \in On(written, 1 .. Len(written)) : e <= x
       /\ \A e \in On(u, 1 .. Len(u)) : e > x
  <2>1. \A e \in 1 .. x : e <= x
    OBVIOUS
  <2>2. \A e \in (x + 1) .. b[n] : e > x
    BY <1>12
  <2> QED BY <1>16, <1>17, <1>18, <2>1, <2>2 DEF Chunk
<1>20. /\ written' \in Seq(Nat)
       /\ Increasing(written', 1 .. Len(written'))
       /\ On(written', 1 .. Len(written'))
            = {e \in 1 .. x : Lets(Writer, e)} \cup Chunk(b, n, Writer)
  BY <1>15, <1>16, <1>17, <1>18, <1>19, WrittenOn
<1>21. {e \in 1 .. x : Lets(Writer, e)} \cup Chunk(b, n, Writer) = {e \in 1 .. b[n] : Lets(Writer, e)}
  <2>1. \A e : e \in 1 .. b[n] <=> e \in 1 .. x \/ e \in (x + 1) .. b[n]
    BY <1>12, <1>18
  <2>2. Chunk(b, n, Writer) = {e \in (x + 1) .. b[n] : Lets(Writer, e)}
    BY <1>18 DEF Chunk
  <2> QED BY <2>1, <2>2
<1>22. Wrote(c2, b)'
  <2>1. On(written', 1 .. Len(written')) = {e \in 1 .. b[c2[Writer]] : Lets(Writer, e)}
    BY <1>11, <1>20, <1>21
  <2> QED BY <1>20, <2>1 DEF Wrote, Increasing, On, Lets
<1>23. Flow(c2, b)'
  BY <1>1, <1>2, <1>3, <1>4, <1>5, <1>6, <1>7, <1>8, <1>9, <1>22, ProduceFlow
<1>24. Ends'
  BY <1>1, <1>3, <1>4, <1>5, <1>7, ProduceEnds
<1>25. Entering'
  <2>1. \A j \in Filters : state'[j] = state[j] /\ current'[j] = current[j]
    BY <1>1, <1>4, <1>7
  <2> QED BY <1>3, <1>4, <1>20, <2>1, StillEntering DEF Entering
<1> QED BY <1>2, <1>6, <1>23, <1>24, <1>25 DEF FInv
LEMMA PassPoisonFlow ==
  ASSUME IInv, FInv, NEW i \in 1 .. Positions, Link(i), PassPoison(i) PROVE FInv'
<1>1. /\ Writer \in Nat /\ Writer >= 2 /\ Positions = Writer + 1 /\ Reader = 1
      /\ Reader \in 1 .. Positions /\ Writer \in 1 .. Positions /\ Writer \in 1 .. Writer
      /\ \A j \in Filters : j \in 1 .. Positions /\ j \in 1 .. Writer
      /\ \A j \in 1 .. Writer : j \in 1 .. Positions
  BY Indices
<1>2. PICK c, b : Counts(c) /\ Bounds(b) /\ Flow(c, b)
  BY DEF FInv
<1>3. Ends /\ Entering /\ Lengths(c) /\ Passed(c) /\ HasRead(c, b) /\ Carried(c, b) /\ Wrote(c, b)
  BY <1>2 DEF FInv, Flow
<1>4. /\ state[i] = "poison"
      /\ queue' = [queue EXCEPT ![Out(i)] = Append(@, current[i])]
      /\ state' = [state EXCEPT ![i] = "done"]
      /\ UNCHANGED <<current, taken, dest, run, offset, memory, written>>
  BY DEF Link, PassPoison, fvars
<1>5. current[i] \in Blocks /\ IsPoison(current[i])
  BY <1>4 DEF IInv, Types, HoldsMemory
<1>6. state'[i] = "done" /\ \A j \in (1 .. Positions) \ {i} : state'[j] = state[j]
  BY <1>4 DEF IInv, Types
<1>7. i # Reader
  BY <1>3, <1>4 DEF Ends
<1>8. Ends'
  BY <1>3, <1>4, <1>5, <1>6, <1>7, ProduceEnds
<1>9. Entering'
  <2>1. ASSUME NEW j \in Filters
        PROVE  \/ /\ taken'[j] = taken[j] /\ dest'[j] = dest[j]
                  /\ state'[j] = state[j] /\ current'[j] = current[j]
               \/ taken'[j] = 0 /\ dest'[j] = 0 /\ state'[j] # "hold"
    <3>1. CASE j = i
      <4>1. taken[j] = 0 /\ dest[j] \in Nat /\ dest[j] <= 0
        BY <1>3, <1>4, <3>1 DEF Entering, Holds
      <4> QED BY <1>4, <1>6, <3>1, <4>1
    <3>2. CASE j # i
      BY <1>1, <1>4, <1>6, <3>2
    <3> QED BY <3>1, <3>2
  <2> QED BY <1>3, <1>4, <2>1, StillEntering DEF Entering
<1>10. CASE i = Positions
  <2>1. \A j \in 1 .. Writer - 1 : queue'[j] = queue[j]
    <3> SUFFICES ASSUME NEW j \in 1 .. Writer - 1 PROVE queue'[j] = queue[j]
      OBVIOUS
    <3>1. Out(i) = 0 /\ j \in Queues /\ j # 0
      <4>1. j \in 1 .. Writer /\ j # 0
        BY <1>1
      <4> QED BY <1>10, <4>1, Indices
    <3> QED BY <1>4, <3>1 DEF IInv, Types
  <2>2. \A j \in 1 .. Writer : state'[j] = state[j]
    <3> SUFFICES ASSUME NEW j \in 1 .. Writer PROVE state'[j] = state[j]
      OBVIOUS
    <3>1. j \in (1 .. Positions) \ {i}
      BY <1>1, <1>10
    <3> QED BY <1>6, <3>1
  <2>3. Flow(c, b)'
    BY <1>2, <1>3, <1>4, <2>1, <2>2, AsideFlow
  <2> QED BY <1>2, <1>8, <1>9, <2>3 DEF FInv
<1>11. CASE i \in 2 .. Writer
  <2>1. PICK c2 : Counts(c2) /\ CountsOn(c, i, c2)
    BY <1>2, CountingOn
  <2>2. PassesOn(i, current[i])
    BY <1>4, <1>6 DEF PassesOn, Taken, Dest
  <2>3. IsBlock(b, c[i] + 1, i, current[i])
    BY <1>5 DEF IsBlock
  <2>4. b[c2[Writer]] = b[c[Writer]]
    <3>1. CASE i = Writer
      <4>1. PICK p \in 1 .. Writer : p = Writer - 1 /\ p + 1 = Writer
        BY <1>1
      <4>2. Hand(Writer) = 1
        BY <1>4, <3>1 DEF Hand
      <4>3. c[Writer] + 1 = c[p]
        BY <1>3, <1>4, <1>11, <3>1, <4>1, <4>2 DEF Passed
      <4>4. state[p] = "done" /\ state[Reader] = "done"
        <5>1. Writer \in 2 .. Positions
          BY <1>1
        <5> QED BY <1>3, <1>4, <3>1, <4>1, <5>1 DEF Ends
      <4>5. c[p] = c[Reader]
        BY <1>3, <4>1, <4>4 DEF Passed
      <4>6. c2[Writer] = c[Reader] /\ c[Reader] \in Nat /\ c[Writer] \in Nat
        BY <1>1, <1>2, <2>1, <3>1, <4>3, <4>5 DEF CountsOn, Counts
      <4>7. c[Writer] = c[Reader] - 1
        BY <4>3, <4>5, <4>6
      <4>8. b[c[Reader]] = offset /\ b[c[Reader] - 1] = offset
        BY <1>3, <4>4, <4>6 DEF HasRead
      <4> QED BY <4>6, <4>7, <4>8
    <3>2. CASE i # Writer
      BY <1>1, <2>1, <3>2 DEF CountsOn
    <3> QED BY <3>1, <3>2
  <2>5. Wrote(c2, b)'
    BY <1>3, <1>4, <2>4 DEF Wrote, Increasing, On, Lets
  <2>6. Flow(c2, b)'
    BY <1>2, <1>3, <1>4, <1>5, <1>6, <1>11, <2>1, <2>2, <2>3, <2>5, ProduceFlow
  <2> QED BY <1>2, <1>8, <1>9, <2>1, <2>6 DEF FInv
<1>12. i = Positions \/ i \in 2 .. Writer
  BY <1>1, <1>7
<1> QED BY <1>10, <1>11, <1>12

LEMMA RecycleBlockFlow == ASSUME IInv, FInv, RecycleBlock PROVE FInv'
<1> DEFINE block == [current[Recycler] EXCEPT !.valid = BlockSize]
<1>1. /\ Writer \in Nat /\ Writer >= 2 /\ Positions = Writer + 1 /\ Reader = 1
      /\ Recycler = Positions /\ Recycler \in 1 .. Positions /\ Recycler # Reader
      /\ Out(Recycler) = 0
  BY Indices
<1>2. PICK c, b : Counts(c) /\ Bounds(b) /\ Flow(c, b)
  BY DEF FInv
<1>3. Ends /\ Entering
  BY DEF FInv
<1>4. /\ state[Recycler] = "hold"
      /\ queue' = [queue EXCEPT ![Out(Recycler)] = Append(@, block)]
      /\ state' = [state EXCEPT ![Recycler] = "consume"]
      /\ UNCHANGED <<current, taken, dest, run, offset, memory, written>>
  BY DEF RecycleBlock, Pass, fvars
<1>5. block \in Blocks /\ ~IsPoison(block)
  <2>1. current[Recycler] \in Blocks /\ ~IsPoison(current[Recycler])
    BY <1>1, <1>4 DEF IInv, Types, HoldsMemory, Holds
  <2>2. BlockSize \in 0 .. BlockSize
    BY LinkAssumption
  <2> QED BY <2>1, <2>2 DEF Blocks, IsPoison
<1> HIDE DEF block
<1>6. state'[Recycler] = "consume" /\ \A j \in (1 .. Positions) \ {Recycler} : state'[j] = state[j]
  BY <1>1, <1>4 DEF IInv, Types
<1>7. Ends'
  BY <1>1, <1>3, <1>4, <1>5, <1>6, ProduceEnds
<1>8. \A j \in 1 .. Writer - 1 : queue'[j] = queue[j]
  <2> SUFFICES ASSUME NEW j \in 1 .. Writer - 1 PROVE queue'[j] = queue[j]
    OBVIOUS
  <2>1. j \in Queues /\ j # 0
    <3>1. j \in 1 .. Writer /\ j # 0
      BY <1>1
    <3> QED BY <3>1, Indices
  <2> QED BY <1>1, <1>4, <2>1 DEF IInv, Types
<1>9. \A j \in 1 .. Writer : state'[j] = state[j]
  <2> SUFFICES ASSUME NEW j \in 1 .. Writer PROVE state'[j] = state[j]
    OBVIOUS
  <2>1. j \in (1 .. Positions) \ {Recycler}
    BY <1>1
  <2> QED BY <1>6, <2>1
<1>10. Entering' /\ Flow(c, b)'
  BY <1>2, <1>3, <1>4, <1>8, <1>9, AsideFlow
<1> QED BY <1>2, <1>7, <1>10 DEF FInv

LEMMA WorkerFlow == ASSUME IInv, FInv, NEW i \in 1 .. Positions, Worker(i) PROVE FInv'
<1>1. PICK c, b : Counts(c) /\ Bounds(b) /\ Flow(c, b)
  BY DEF FInv
<1>2. Ends /\ Entering
  BY DEF FInv
<1>3. CASE Link(i) /\ Consume(i)
  <2>1. Takes(i) /\ UNCHANGED <<memory, taken, dest, written, offset, run>>
    BY <1>3 DEF Link, Consume, Takes, fvars
  <2>2. Ends'
    BY <1>2, <2>1, TakeEnds
  <2>3. Entering' /\ Flow(c, b)'
    BY <1>1, <1>2, <2>1, TakeFlow
  <2> QED BY <1>1, <2>2, <2>3 DEF FInv
<1>4. CASE Link(i) /\ PassPoison(i)
  BY <1>4, PassPoisonFlow
<1>5. CASE i \in Filters /\ FilterEntry(i)
  <2>1. Entering' /\ Carried(c, b)'
    BY <1>1, <1>2, <1>5, EntryCarries DEF Flow
  <2>2. UNCHANGED <<queue, current, state, run, offset, written>>
    BY <1>5 DEF FilterEntry, lvars
  <2>3. Lengths(c)' /\ Passed(c)' /\ HasRead(c, b)' /\ Wrote(c, b)'
    BY <1>1, <2>2 DEF Flow, Lengths, Passed, HasRead, Wrote, Hand, Increasing, On, Lets
  <2>4. Ends'
    BY <1>2, <2>2 DEF Ends, IsPoison
  <2> QED BY <1>1, <2>1, <2>3, <2>4 DEF FInv, Flow
<1>6. Link(i) => Consume(i) \/ PassPoison(i)
  BY DEF Link
<1> QED BY <1>3, <1>4, <1>5, <1>6, ReadBlockFlow, ReadEndFlow, FilterBlockFlow, WriteBlockFlow,
           RecycleBlockFlow DEF Worker

---------------------------------------------------------------------------
\* The owner.
LEMMA OwnerFlow == ASSUME IInv, FInv, Owner PROVE FInv'
<1>1. /\ Writer \in Nat /\ Writer >= 2 /\ Positions = Writer + 1 /\ Reader = 1
      /\ Reader \in 1 .. Positions
      /\ \A j \in 1 .. Writer : Out(j) = j /\ j \in Queues /\ j \in 1 .. Positions
      /\ Out(Positions) = 0 /\ 0 \in Queues
      /\ \A j \in Filters : j \in 1 .. Positions
  BY Indices
<1>2. PICK c, b : Counts(c) /\ Bounds(b) /\ Flow(c, b)
  BY DEF FInv
<1>3. Ends /\ Entering
  BY DEF FInv
<1>4. CASE \E i \in 1 .. Positions : Add(i)
  <2>1. PICK i \in 1 .. Positions : Add(i)
    BY <1>4
  <2>2. /\ state[i] = "unstarted" /\ state' = [state EXCEPT ![i] = "consume"]
        /\ UNCHANGED <<queue, current, taken, dest, run, offset, memory, written>>
    BY <2>1 DEF Add, Start, fvars
  <2>3. state'[i] = "consume" /\ \A j \in (1 .. Positions) \ {i} : state'[j] = state[j]
    BY <2>2 DEF IInv, Types
  <2>4. \A j \in 1 .. Writer : state'[j] = state[j] \/ (state[j] = "unstarted" /\ state'[j] = "consume")
    BY <1>1, <2>2, <2>3
  <2>5. Entering' /\ Flow(c, b)'
    BY <1>2, <1>3, <2>2, <2>4, AsideFlow
  <2>6. Ends'
    <3>1. \A j \in 1 .. Positions : state'[j] \in {"poison", "done"} => state[j] = state'[j]
      BY <2>3
    <3>2. \A j \in 1 .. Positions : state[j] \in {"poison", "done"} => state'[j] = state[j]
      BY <2>2, <2>3
    <3>3. ASSUME NEW j \in 2 .. Positions, state'[j] \in {"poison", "done"}
          PROVE  state'[j - 1] = "done" /\ state'[Reader] = "done"
      <4>1. j \in 1 .. Positions /\ j - 1 \in 1 .. Positions
        BY <1>1
      <4>2. state[j - 1] = "done" /\ state[Reader] = "done"
        BY <1>3, <3>1, <3>3, <4>1 DEF Ends
      <4> QED BY <1>1, <3>2, <4>1, <4>2
    <3>4. ASSUME NEW j \in 1 .. Positions, NEW k \in 1 .. Len(queue[Out(j)]),
                 IsPoison(queue[Out(j)][k])
          PROVE  state'[j] = "done"
      BY <1>3, <3>2, <3>4 DEF Ends
    <3>5. state'[Reader] # "poison" /\ (state'[Reader] = "done" => offset' = Entries[run'])
      BY <1>1, <1>3, <2>2, <3>1 DEF Ends
    <3> QED BY <2>2, <3>3, <3>4, <3>5 DEF Ends, IsPoison
  <2> QED BY <1>2, <2>5, <2>6 DEF FInv
<1>5. CASE Join
  <2>1. UNCHANGED <<queue, current, state, taken, dest, run, offset, memory, written>>
    BY <1>5 DEF Join, lvars, fvars
  <2>2. Entering' /\ Flow(c, b)'
    BY <1>2, <1>3, <2>1, AsideFlow
  <2>3. Ends'
    BY <1>3, <2>1 DEF Ends, IsPoison
  <2> QED BY <1>2, <2>2, <2>3 DEF FInv
<1>6. ASSUME owner = "drain", queue' = [queue EXCEPT ![0] = Tail(@)],
             UNCHANGED <<current, state, taken, dest, run, offset, memory, written>>
      PROVE  FInv'
  <2>1. \A j \in Queues : j # 0 => queue'[j] = queue[j]
    BY <1>6 DEF IInv, Types
  <2>2. \A j \in 1 .. Writer - 1 : queue'[j] = queue[j]
    <3> SUFFICES ASSUME NEW j \in 1 .. Writer - 1 PROVE queue'[j] = queue[j]
      OBVIOUS
    <3>1. j \in 1 .. Writer /\ j # 0
      BY <1>1
    <3> QED BY <1>1, <2>1, <3>1
  <2>3. Entering' /\ Flow(c, b)'
    BY <1>2, <1>3, <1>6, <2>2, AsideFlow
  <2>4. \A j \in 1 .. Positions : state'[j] = "done"
    BY <1>6 DEF IInv, Joined
  <2>5. \A j \in 2 .. Positions : j - 1 \in 1 .. Positions
    BY <1>1
  <2>6. state'[Reader] # "poison" /\ offset' = Entries[run']
    BY <1>1, <1>3, <1>6, <2>4 DEF Ends
  <2>7. Ends'
    BY <1>1, <2>4, <2>5, <2>6 DEF Ends
  <2> QED BY <1>2, <2>3, <2>7 DEF FInv
<1>7. CASE DrainBlock
  <2>1. /\ owner = "drain" /\ queue' = [queue EXCEPT ![0] = Tail(@)]
        /\ UNCHANGED <<current, state, taken, dest, run, offset, memory, written>>
    BY <1>7 DEF DrainBlock, fvars
  <2> QED BY <1>6, <2>1
<1>8. CASE DrainPoison /\ ~(run < Len(Entries))
  <2>1. /\ owner = "drain" /\ queue' = [queue EXCEPT ![0] = Tail(@)]
        /\ UNCHANGED <<current, state, taken, dest, run, offset, memory, written>>
    BY <1>8 DEF DrainPoison, fvars
  <2> QED BY <1>6, <2>1
<1>9. CASE DrainPoison /\ run < Len(Entries)
  <2>1. PICK z, y : z = [i \in 1 .. Positions |-> 0] /\ y = [n \in Nat |-> 0]
    OBVIOUS
  <2>2. /\ owner = "drain" /\ offset' = 0 /\ written' = << >>
        /\ queue' = [i \in 0 .. (Positions - 1) |-> IF i = 0 THEN Populated ELSE << >>]
        /\ state' = [i \in 1 .. Positions |-> "unstarted"]
        /\ UNCHANGED <<current, taken, dest, memory>>
    BY <1>9 DEF DrainPoison, fvars
  <2>3. /\ \A i \in 1 .. Writer : queue'[i] = << >>
        /\ queue'[0] = Populated
        /\ \A i \in 1 .. Positions : state'[i] = "unstarted"
    <3>1. \A i \in 1 .. Writer : i # 0
      BY <1>1
    <3> QED BY <1>1, <2>2, <3>1 DEF Queues
  <2>4. \A k \in 1 .. Len(Populated) : ~IsPoison(Populated[k])
    BY LinkAssumption DEF Populated, FullBlock, IsPoison, NoMemory
  <2>5. Entering'
    <3>1. ASSUME NEW j \in Filters PROVE taken'[j] = 0 /\ dest'[j] = 0 /\ state'[j] # "hold"
      <4>1. state[j] = "done" /\ state'[j] = "unstarted"
        BY <1>1, <2>2, <2>3 DEF IInv, Joined
      <4>2. taken[j] = 0 /\ dest[j] \in Nat /\ dest[j] <= 0
        BY <1>3, <4>1 DEF Entering, Holds
      <4> QED BY <2>2, <4>1, <4>2
    <3>2. written' \in Seq(Nat)
      BY <2>2
    <3> QED BY <1>3, <2>2, <3>1, <3>2, StillEntering DEF Entering
  <2>6. Ends'
    <3>1. ASSUME NEW i \in 1 .. Positions, NEW k \in 1 .. Len(queue'[Out(i)])
          PROVE  ~IsPoison(queue'[Out(i)][k])
      <4>1. i = Positions \/ i \in 1 .. Writer
        BY <1>1
      <4> QED BY <1>1, <2>3, <2>4, <3>1, <4>1
    <3> QED BY <1>1, <2>3, <3>1 DEF Ends, IsPoison
  <2>7. Counts(z) /\ Bounds(y)
    BY <2>1 DEF Counts, Bounds
  <2>8. \A j \in 1 .. Writer - 1 : queue'[j] = << >> /\ z[j] = 0 /\ z[j + 1] = 0 /\ j + 1 \in 1 .. Positions
    <3> SUFFICES ASSUME NEW j \in 1 .. Writer - 1
                 PROVE  queue'[j] = << >> /\ z[j] = 0 /\ z[j + 1] = 0 /\ j + 1 \in 1 .. Positions
      OBVIOUS
    <3>1. j \in 1 .. Writer /\ j + 1 \in 1 .. Positions
      BY <1>1
    <3> QED BY <1>1, <2>1, <2>3, <3>1
  <2>9. \A j \in 1 .. Positions : Hand(j)' = 0 /\ z[j] = 0
    BY <2>1, <2>3 DEF Hand
  <2>10. Lengths(z)'
    <3>1. \A j \in 1 .. Writer - 1 : Len(queue'[j]) = z[j] - (z[j + 1] + Hand(j + 1)')
      BY <2>8, <2>9
    <3> QED BY <3>1 DEF Lengths
  <2>11. Passed(z)'
    <3>1. \A j \in 2 .. Writer : state'[j] = "unstarted"
      BY <1>1, <2>3
    <3>2. \A j \in 1 .. Writer : z[j] <= z[Reader] /\ state'[j] = "unstarted"
      BY <1>1, <2>3, <2>9
    <3> QED BY <3>1, <3>2 DEF Passed
  <2>12. HasRead(z, y)'
    <3>1. /\ y[0] = 0 /\ \A m, n \in Nat : m <= n => y[m] <= y[n]
          /\ \A n \in Nat : n >= z[Reader] => y[n] = offset'
          /\ state'[Reader] # "done"
      BY <1>1, <2>1, <2>2, <2>3
    <3> QED BY <3>1 DEF HasRead
  <2>13. Carried(z, y)'
    <3>1. \A j \in 2 .. Writer : ~Holds(j)'
      BY <1>1, <2>3 DEF Holds
    <3>2. \A j \in 1 .. Writer - 1 : 1 .. Len(queue'[j]) = {}
      BY <2>8
    <3> QED BY <3>1, <3>2 DEF Carried
  <2>14. Wrote(z, y)'
    <3>1. Len(written') = 0 /\ 1 .. 0 = {}
      BY <2>2
    <3>2. y[z[Writer]] = 0
      BY <1>1, <2>1, <2>9
    <3>3. On(written', {}) = {} /\ Increasing(written', {})
      BY DEF On, Increasing
    <3>4. {e \in 1 .. y[z[Writer]] : Lets(Writer, e)} = {}
      BY <3>1, <3>2
    <3> QED BY <3>1, <3>3, <3>4 DEF Wrote, On, Increasing, Lets
  <2> QED BY <2>5, <2>6, <2>7, <2>10, <2>11, <2>12, <2>13, <2>14 DEF FInv, Flow
<1> QED BY <1>4, <1>5, <1>7, <1>8, <1>9 DEF Owner

LEMMA StepFlow == IInv /\ FInv /\ [Next]_vars => FInv'
<1> SUFFICES ASSUME IInv, FInv, [Next]_vars PROVE FInv'
  OBVIOUS
<1>1. CASE Owner
  BY <1>1, OwnerFlow
<1>2. CASE \E i \in 1 .. Positions : Worker(i)
  BY <1>2, WorkerFlow
<1>3. CASE UNCHANGED vars
  <2>1. PICK c, b : Counts(c) /\ Bounds(b) /\ Flow(c, b)
    BY DEF FInv
  <2>2. UNCHANGED <<queue, current, state, taken, dest, run, offset, memory, written>>
    BY <1>3 DEF vars, lvars, fvars
  <2>3. Entering' /\ Flow(c, b)'
    BY <2>1, <2>2, AsideFlow DEF FInv
  <2>4. Ends'
    BY <2>2 DEF FInv, Ends, IsPoison
  <2> QED BY <2>1, <2>3, <2>4 DEF FInv
<1> QED BY <1>1, <1>2, <1>3 DEF Next, Finished

\* Every state of a chain of util/stream/chain.cc has each block in one place, and in it
\* the entries of the file that have come so far.
THEOREM ChainInvariance == Spec => [](IInv /\ FInv)
<1>1. FInv => Entering
  BY DEF FInv
<1>2. IInv /\ FInv /\ [Next]_vars => (IInv /\ FInv)'
  BY <1>1, StepInvariant, StepFlow
<1> QED BY <1>2, InitInvariant, InitFlow, PTL DEF Spec

LEMMA InvariantIsWritesTheFile == IInv /\ FInv => WritesTheFile
<1> SUFFICES ASSUME IInv, FInv PROVE WritesTheFile
  OBVIOUS
<1>1. /\ Writer \in Nat /\ Writer >= 2 /\ Positions = Writer + 1 /\ Reader = 1
      /\ Reader \in 1 .. Positions /\ Writer \in 1 .. Positions /\ Writer \in 1 .. Writer
      /\ Writer # Reader
  BY Indices
<1>2. PICK c, b : Counts(c) /\ Bounds(b) /\ Flow(c, b)
  BY DEF FInv
<1>3. Ends /\ Entering /\ Passed(c) /\ HasRead(c, b) /\ Wrote(c, b)
  BY <1>2 DEF FInv, Flow
<1>4. c[Writer] \in Nat /\ c[Reader] \in Nat /\ c[Writer] <= c[Reader]
  BY <1>1, <1>2, <1>3 DEF Counts, Passed
<1>5. PICK n : n = b[c[Writer]]
  OBVIOUS
<1>6. n \in 0 .. offset
  <2>1. n \in Nat /\ n <= b[c[Reader]] /\ b[c[Reader]] = offset
    BY <1>2, <1>3, <1>4, <1>5 DEF Bounds, HasRead
  <2>2. offset \in Nat
    BY DEF IInv, Types
  <2> QED BY <2>1, <2>2
<1>7. DOMAIN written = 1 .. Len(written)
  BY <1>3 DEF Entering
<1>8. \A j, k \in DOMAIN written : j < k => written[j] < written[k]
  BY <1>3, <1>7 DEF Wrote, Increasing
<1>9. Range(written) = KeptBefore(n)
  <2>1. Range(written) = On(written, 1 .. Len(written))
    BY <1>7 DEF Range, On
  <2>2. KeptBefore(n) = {e \in 1 .. n : Lets(Writer, e)}
    BY <1>1 DEF KeptBefore, Lets
  <2> QED BY <1>3, <1>5, <2>1, <2>2 DEF Wrote
<1>10. owner \in {"drain", "done"} => n = Entries[run]
  <2> SUFFICES ASSUME owner \in {"drain", "done"} PROVE n = Entries[run]
    OBVIOUS
  <2>1. state[Writer] = "done" /\ state[Reader] = "done"
    BY <1>1 DEF IInv, Joined
  <2>2. c[Writer] = c[Reader]
    BY <1>1, <1>3, <2>1 DEF Passed
  <2>3. n = offset /\ offset = Entries[run]
    BY <1>3, <1>4, <1>5, <2>1, <2>2 DEF HasRead, Ends
  <2> QED BY <2>3
<1> QED BY <1>6, <1>8, <1>9, <1>10 DEF WritesTheFile

\* However long a chain is and however many blocks go round in it, a block is in
\* one place of one queue or in the hands of one link, in every run over the same
\* memory: the workers of util/stream touch its memory without a lock.
THEOREM BlocksAreNotShared == Spec => []NoBlockShared
<1> QED BY ChainInvariance, InvariantIsNoBlockShared, PTL

\* However the threads of a chain interleave, whatever its filters keep and however often
\* it is started over the same memory, what Write has written is, each entry once and in
\* the order of the file, what the filters keep of the entries up to some point, and of
\* all of them when the poison has come back.
THEOREM FileIsWritten == Spec => []WritesTheFile
<1> QED BY ChainInvariance, InvariantIsWritesTheFile, PTL
=============================================================================
