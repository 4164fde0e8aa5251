---------------------------- MODULE StreamProofs ----------------------------
(***************************************************************************)
(* What lm/interpolate/normalize.cc writes through a RewindableStream      *)
(* leaves it once, in order and normalised, and the stream never runs out  *)
(* of blocks, for any number of blocks, records of a block, contexts and   *)
(* words, as long as one record of every word fits into all blocks but     *)
(* one.                                                                    *)
(*                                                                         *)
(* The blocks go round in the order of the memory.  So the k-th block that *)
(* is filled lies in the part Wrap(k) of it, and the place of every record *)
(* follows from its number.                                                *)
(***************************************************************************)
EXTENDS MCStreams, CommonFacts

N == WriterBlocks
B == WriterBlockSize

Wrap(k) == ((k - 1) % N) + 1

\* The address of the j-th record of the k-th block, and that record's number.
Cell(k, j) == (Wrap(k) - 1) * B + j
Number(k, j) == (k - 1) * B + j

Whole(k) == [mem |-> Wrap(k), valid |-> B]

Blocks == [mem : 0 .. N, valid : 0 .. B]
Queues == 0 .. 1

Types ==
  /\ queue \in [Queues -> Seq(Blocks)]
  /\ current \in [1 .. 2 -> Blocks]
  /\ state \in [1 .. 2 -> {"unstarted", "consume", "append", "ready", "hold", "endpoison", "poison", "done"}]
  /\ state[1] \in {"unstarted", "append", "ready", "endpoison", "done"}
  /\ state[2] \in {"unstarted", "consume", "hold", "poison", "done"}
  /\ blocks \in Seq(Blocks) /\ it \in Nat
  /\ cursor \in Nat /\ blockEnd \in Nat /\ marked \in Nat
  /\ doing \in {"mark", "write", "normalize", "finish", "end"}
  /\ context \in Nat /\ words \in 1 .. Vocabulary /\ count \in 0 .. words /\ before \in Nat
  /\ memory \in [1 .. N * B -> Int] /\ sent \in Seq(Int)

\* How many records are written, how many normalised, and which comes next.
Written == before + (IF doing = "mark" THEN 0 ELSE IF doing = "write" THEN count ELSE words)
Normal == before + (IF doing \in {"mark", "write"} THEN 0 ELSE IF doing = "normalize" THEN count ELSE words)
Place == before + (IF doing = "mark" THEN 0 ELSE IF doing \in {"write", "normalize"} THEN count ELSE words)

\* The records of the blocks after s up to f are in their places.
Stored(s, f) ==
  \A k \in s + 1 .. f, j \in 1 .. B :
    /\ Number(k, j) <= Normal => memory[Cell(k, j)] = Number(k, j)
    /\ Normal < Number(k, j) /\ Number(k, j) <= Written => memory[Cell(k, j)] = -Number(k, j)

\* What was sent so far is the numbers in their order.
SentInPlace == \A k \in DOMAIN sent : sent[k] = k

\* The sink has a block in its hands.
Hand == IF state[2] = "hold" THEN 1 ELSE 0

\* While the stream is open, s blocks have come round, the next ones up to f are on
\* their way to the sink, then come those the stream holds and those that are free.
Ring(s, f) ==
  /\ f = s + Hand + Len(queue[1])
  /\ f + Len(blocks) + Len(queue[0]) = s + N
  /\ state[2] = "hold" => current[2] = Whole(s + 1)
  /\ \A p \in 1 .. Len(queue[1]) : queue[1][p] = Whole(s + Hand + p)
  /\ \A p \in 1 .. Len(blocks) : blocks[p] = Whole(f + p)
  /\ \A p \in 1 .. Len(queue[0]) : queue[0][p] = Whole(f + Len(blocks) + p)
  /\ Len(sent) = s * B

\* Where the stream is between two calls, and where it is marked.
At(f) ==
  /\ it < Len(blocks)
  /\ (f + it) * B <= Place /\ Place < (f + it + 1) * B
  /\ cursor = Cell(f + it + 1, 1) + (Place - (f + it) * B)
  /\ blockEnd = Cell(f + it + 1, 1) + B
  /\ doing # "normalize" => it + 1 = Len(blocks)
  /\ doing = "normalize" => /\ (f + Len(blocks) - 1) * B <= before + words
                            /\ before + words < (f + Len(blocks)) * B

\* While it waits for a block, all it has are full.
Waits(f) ==
  /\ it = Len(blocks)
  /\ Place = (f + it) * B
  /\ doing \in {"mark", "write"}
  /\ doing = "mark" => blocks = << >> /\ before = 0 /\ marked = 0

Marked(f) ==
  /\ f * B <= before /\ before < (f + 1) * B
  /\ marked = Cell(f + 1, 1) + (before - f * B)
  /\ blocks # << >>

Open(s, f) ==
  /\ Ring(s, f)
  /\ Stored(s, f + Len(blocks))
  /\ state[1] = "ready" => At(f)
  /\ state[1] # "ready" => Waits(f)
  /\ doing \in {"write", "normalize"} => Marked(f)
  /\ doing = "mark" => count = 0
  /\ state[2] \notin {"poison", "done"}
  /\ ~hitPoison /\ ~poisoned
  /\ state[1] \in {"unstarted", "append", "ready"}
  /\ state[1] = "unstarted" => doing = "mark"

\* Then the blocks after s up to f are on their way, the last one with the rest.
Rest(f) == before + words - (f - 1) * B
Piece(k, f) == [mem |-> Wrap(k), valid |-> IF k = f THEN Rest(f) ELSE B]
PoisonWaits == IF state[1] = "done" /\ state[2] \notin {"poison", "done"} THEN 1 ELSE 0

Closed(s, f) ==
  /\ s + Hand <= f
  /\ 0 <= Rest(f) /\ Rest(f) < B
  /\ Len(sent) = IF s < f THEN s * B ELSE before + words
  /\ state[2] = "hold" => current[2] = Piece(s + 1, f)
  /\ Len(queue[1]) = f - s - Hand + PoisonWaits
  /\ \A p \in 1 .. f - s - Hand : queue[1][p] = Piece(s + Hand + p, f)
  /\ PoisonWaits = 1 => queue[1][Len(queue[1])].mem = 0
  /\ state[2] \in {"poison", "done"} => state[1] = "done" /\ s = f
  /\ Stored(s, f)
  /\ state[1] \in {"endpoison", "done"}

IInv ==
  /\ Types
  /\ SentInPlace
  /\ doing # "end" => \E s, f \in Nat : Open(s, f)
  /\ doing = "end" => \E s, f \in Nat : Closed(s, f)

------------------------------------------------------------------------------
\* Arithmetic of blocks and addresses.

LEMMA Sizes ==
  /\ N \in Nat /\ N >= 2 /\ B \in Nat /\ B >= 1 /\ Contexts \in Nat \ {0}
  /\ Vocabulary \in Nat /\ Vocabulary <= (N - 1) * B /\ (N - 1) * B \in Nat
<1>1. /\ N \in Nat /\ N >= 2 /\ Contexts \in Nat \ {0}
      /\ Vocabulary \in 1 .. (N - 1) * B
      /\ B \in Nat /\ B >= 1
  BY WriterFits DEF N, B, Writer!WriterAssumption, Writer!StreamAssumption
<1>2. N - 1 \in Nat
  BY <1>1
<1>3. (N - 1) * B \in Nat
  BY <1>1, <1>2
<1> QED  BY <1>1, <1>3

\* The parts of the memory follow each other round and round.
LEMMA WrapFacts ==
  ASSUME NEW k \in Nat \ {0}
  PROVE  Wrap(k) \in 1 .. N /\ Wrap(k + N) = Wrap(k)
<1>1. N \in Nat \ {0}
  BY Sizes
<1>2. Wrap(k) = Turn(k, N) /\ Wrap(k + N) = Turn(k + N, N)
  BY DEF Wrap, Turn
<1> QED  BY <1>1, <1>2, TurnFacts

LEMMA WrapApart ==
  ASSUME NEW k \in Nat \ {0}, NEW l \in Nat \ {0}, k < l, l < k + N
  PROVE  Wrap(k) # Wrap(l)
<1>1. N \in Nat \ {0}
  BY Sizes
<1>2. Wrap(k) = Turn(k, N) /\ Wrap(l) = Turn(l, N)
  BY DEF Wrap, Turn
<1> QED  BY <1>1, <1>2, TurnsApart

LEMMA CellFacts ==
  ASSUME NEW k \in Nat \ {0}, NEW j \in 1 .. B
  PROVE  Cell(k, j) \in 1 .. N * B /\ (Wrap(k) - 1) * B \in Nat
<1>1. Wrap(k) \in 1 .. N /\ Wrap(k) - 1 \in Nat
  BY WrapFacts, Sizes
<1>2. (Wrap(k) - 1) * B + B <= N * B /\ (Wrap(k) - 1) * B >= 0
  BY <1>1, Times, Sizes
<1> QED  BY <1>1, <1>2, Sizes DEF Cell

\* Of as many blocks as there are, no two records share an address.
LEMMA CellApart ==
  ASSUME NEW k \in Nat \ {0}, NEW l \in Nat \ {0}, NEW j \in 1 .. B, NEW i \in 1 .. B,
         k < l + N, l < k + N, Cell(k, j) = Cell(l, i)
  PROVE  k = l /\ j = i
<1>1. Wrap(k) \in 1 .. N /\ Wrap(l) \in 1 .. N /\ B \in Nat
  BY WrapFacts, Sizes
<1> DEFINE a == Wrap(k) - 1  c == Wrap(l) - 1
<1>2. a \in Int /\ c \in Int /\ a * B + j = c * B + i
  BY <1>1 DEF Cell
<1>3. ~(a < c) /\ ~(c < a)
  BY <1>1, <1>2, Times
<1>4. k = l
  BY <1>1, <1>2, <1>3, WrapApart, Sizes
<1> QED  BY <1>2, <1>3, <1>4, <1>1, Times

------------------------------------------------------------------------------
------------------------------------------------------------------------------
\* The blocks while the stream is open.

LEMMA WholeFacts ==
  ASSUME NEW k \in Nat \ {0}
  PROVE  /\ Whole(k) \in Blocks /\ Whole(k).mem = Wrap(k) /\ Whole(k).mem # 0 /\ Whole(k).valid = B
         /\ Writer!Get(Whole(k)) = Cell(k, 1) /\ Writer!ValidEnd(Whole(k)) = Cell(k, 1) + B
         /\ ~Writer!IsPoison(Whole(k)) /\ Cell(k, 1) \in Nat \ {0} /\ Whole(k + N) = Whole(k)
         /\ Whole(k).valid # 0 /\ Cell(k, 1) + B \in Nat
<1>1. Wrap(k) \in 1 .. N /\ Wrap(k + N) = Wrap(k) /\ Cell(k, 1) \in Nat \ {0}
  BY WrapFacts, CellFacts, Sizes
<1> QED  BY <1>1, Sizes DEF Whole, Blocks, Cell, B, Writer!Get, Writer!ValidEnd, Writer!IsPoison, Writer!NoMemory

\* Blocks that are flushed go behind those on their way.
LEMMA FlushRing ==
  ASSUME Types, NEW s \in Nat, NEW f \in Nat, Ring(s, f), NEW n \in 0 .. Len(blocks),
         Writer!Flush(blocks, n), UNCHANGED <<current, state, sent>>
  PROVE  /\ Ring(s, f + n)' /\ Len(blocks') = Len(blocks) - n
         /\ queue' \in [Queues -> Seq(Blocks)] /\ blocks' \in Seq(Blocks)
<1>1. PICK hand \in Nat : hand = Hand /\ hand = Hand'
  BY DEF Hand
<1>2. PICK free \in Seq(Blocks), going \in Seq(Blocks), held \in Seq(Blocks) :
        free = queue[0] /\ going = queue[1] /\ held = blocks
  BY DEF Types, Queues
<1>3. PICK out \in Seq(Blocks) : out = SubSeq(held, 1, n) /\ Len(out) = n
                              /\ \A p \in 1 .. n : out[p] = held[p]
  <2>1. n \in 0 .. Len(held)
    BY <1>2
  <2>2. /\ SubSeq(held, 1, n) \in Seq(Blocks) /\ Len(SubSeq(held, 1, n)) = n
        /\ \A p \in 1 .. n : SubSeq(held, 1, n)[p] = held[p]
    BY <2>1, Parts
  <2> QED  BY <2>2
<1>4. PICK left \in Seq(Blocks) : left = SubSeq(held, n + 1, Len(held)) /\ Len(left) = Len(held) - n
                               /\ \A p \in 1 .. Len(held) - n : left[p] = held[n + p]
  <2>1. n \in 0 .. Len(held)
    BY <1>2
  <2>2. /\ SubSeq(held, n + 1, Len(held)) \in Seq(Blocks)
        /\ Len(SubSeq(held, n + 1, Len(held))) = Len(held) - n
        /\ \A p \in 1 .. Len(held) - n : SubSeq(held, n + 1, Len(held))[p] = held[n + p]
    BY <2>1, Parts
  <2> QED  BY <2>2
<1>5. PICK line \in Seq(Blocks) : line = going \o out /\ Len(line) = Len(going) + n
                               /\ (\A p \in 1 .. Len(going) : line[p] = going[p])
                               /\ \A p \in 1 .. n : line[Len(going) + p] = out[p]
  <2>1. /\ going \o out \in Seq(Blocks) /\ Len(going \o out) = Len(going) + Len(out)
        /\ \A p \in 1 .. Len(going) : (going \o out)[p] = going[p]
        /\ \A p \in 1 .. Len(out) : (going \o out)[Len(going) + p] = out[p]
    BY Joins
  <2> QED  BY <2>1, <1>3, ZenonT(30)
<1>6. queue' = [queue EXCEPT ![1] = line] /\ blocks' = left
  BY <1>2, <1>3, <1>4, <1>5 DEF Writer!Flush, Writer!Out
<1>7. queue' \in [Queues -> Seq(Blocks)] /\ queue'[0] = free /\ queue'[1] = line
  BY <1>2, <1>6 DEF Types, Queues
<1>8. Len(free) \in Nat /\ Len(going) \in Nat /\ Len(held) \in Nat /\ n \in 0 .. Len(held)
  BY <1>2
<1>9. f = s + hand + Len(going) /\ f + Len(held) + Len(free) = s + N
  BY <1>1, <1>2 DEF Ring
<1>10. \A p \in 1 .. Len(line) : line[p] = Whole(s + hand + p)
  <2> SUFFICES ASSUME NEW p \in 1 .. Len(line)  PROVE line[p] = Whole(s + hand + p)
    OBVIOUS
  <2>1. CASE p <= Len(going)
    <3>1. p \in 1 .. Len(going) /\ line[p] = going[p]
      BY <2>1, <1>5, <1>8
    <3> QED  BY <3>1, <1>1, <1>2 DEF Ring
  <2>2. CASE p > Len(going)
    <3>1. PICK q \in 1 .. n : p = Len(going) + q
      <4>1. p - Len(going) \in 1 .. n /\ p = Len(going) + (p - Len(going))
        BY <2>2, <1>5, <1>8
      <4> QED  BY <4>1
    <3>2. line[p] = held[q] /\ q \in 1 .. Len(held)
      BY <3>1, <1>3, <1>5, <1>8
    <3>3. held[q] = Whole(f + q)
      BY <3>2, <1>2 DEF Ring
    <3>4. f + q = s + hand + p
      BY <3>1, <1>9, <1>8
    <3> QED  BY <3>2, <3>3, <3>4
  <2> QED  BY <2>1, <2>2, <1>8
<1>11. \A p \in 1 .. Len(left) : left[p] = Whole(f + n + p)
  <2> SUFFICES ASSUME NEW p \in 1 .. Len(held) - n  PROVE left[p] = Whole(f + n + p)
    BY <1>4
  <2>1. left[p] = held[n + p] /\ n + p \in 1 .. Len(held) /\ f + (n + p) = f + n + p
    BY <1>4, <1>8
  <2>2. held[n + p] = Whole(f + (n + p))
    BY <2>1, <1>2 DEF Ring
  <2> QED  BY <2>1, <2>2
<1>12. f + n + Len(left) + Len(free) = s + N /\ f + n = s + hand + Len(line)
       /\ f + n + Len(left) = f + Len(held)
  <2>1. N \in Nat /\ n \in Nat
    BY <1>8, Sizes
  <2>2. f + n = s + hand + Len(line)
    BY <2>1, <1>5, <1>8, <1>9
  <2>3. f + n + Len(left) = f + Len(held)
    <3>1. Len(left) = Len(held) - n
      BY <1>4
    <3> QED  BY <3>1, <2>1, <1>8
  <2>4. f + n + Len(left) + Len(free) = s + N
    BY <2>3, <1>9
  <2> QED  BY <2>2, <2>3, <2>4
<1>13. state'[2] = "hold" => current'[2] = Whole(s + 1)
  BY DEF Ring
<1>14. \A p \in 1 .. Len(free) : free[p] = Whole(f + n + Len(left) + p)
  BY <1>2, <1>12 DEF Ring
<1>15. Len(sent') = s * B
  BY DEF Ring
<1>16. Ring(s, f + n)'
  BY <1>1, <1>6, <1>7, <1>10, <1>11, <1>12, <1>13, <1>14, <1>15, ZenonT(30) DEF Ring
<1> QED  BY <1>2, <1>4, <1>6, <1>7, <1>16

LEMMA StoredKept ==
  ASSUME NEW s, NEW f, Stored(s, f), NEW s1, NEW f1, s1 + 1 .. f1 \subseteq s + 1 .. f,
         memory' = memory, Normal' = Normal, Written' = Written
  PROVE  Stored(s1, f1)'
BY DEF Stored

------------------------------------------------------------------------------
\* The records.

LEMMA NumberApart ==
  ASSUME NEW k \in Nat \ {0}, NEW l \in Nat \ {0}, NEW j \in 1 .. B, NEW i \in 1 .. B
  PROVE  /\ Number(k, j) \in Nat \ {0}
         /\ Number(k, j) = Number(l, i) => k = l /\ j = i
<1>1. B \in Nat /\ k - 1 \in Int /\ l - 1 \in Int
  BY Sizes
<1>2. /\ (k - 1) * B \in Nat /\ (l - 1) * B \in Nat
      /\ k < l => (k - 1) * B + B <= (l - 1) * B
      /\ l < k => (l - 1) * B + B <= (k - 1) * B
  BY <1>1, Times
<1> QED  BY <1>1, <1>2 DEF Number

\* A record is written where the stream is.
Puts(v) == memory' = [memory EXCEPT ![cursor] = v]

\* Writing one record changes none of the others in the ring.
LEMMA StoreOne ==
  ASSUME Types, NEW s \in Nat, NEW g \in Nat, g <= s + N,
         NEW k0 \in s + 1 .. g, NEW j0 \in 1 .. B, cursor = Cell(k0, j0),
         NEW v \in Int, Puts(v),
         NEW k \in s + 1 .. g, NEW j \in 1 .. B
  PROVE  /\ memory' \in [1 .. N * B -> Int]
         /\ Number(k, j) = Number(k0, j0) => memory'[Cell(k, j)] = v
         /\ Number(k, j) # Number(k0, j0) => memory'[Cell(k, j)] = memory[Cell(k, j)]
<1>1. N \in Nat /\ B \in Nat /\ k0 \in Nat \ {0} /\ memory \in [1 .. N * B -> Int]
  BY Sizes DEF Types
<1>2. cursor \in 1 .. N * B
  BY <1>1, CellFacts
<1>3. memory' \in [1 .. N * B -> Int]
  BY <1>1, <1>2 DEF Puts
<1>4. k \in Nat \ {0} /\ k < k0 + N /\ k0 < k + N /\ Cell(k, j) \in 1 .. N * B
  <2>1. k \in Nat \ {0} /\ k < k0 + N /\ k0 < k + N
    BY <1>1
  <2> QED  BY <2>1, CellFacts
<1>5. CASE Number(k, j) = Number(k0, j0)
  <2>1. k = k0 /\ j = j0
    BY <1>4, <1>5, <1>1, NumberApart
  <2> QED  BY <2>1, <1>5, <1>1, <1>2, <1>3 DEF Puts
<1>6. CASE Number(k, j) # Number(k0, j0)
  <2>1. Cell(k, j) # cursor
    BY <1>4, <1>6, <1>1, CellApart
  <2> QED  BY <2>1, <1>3, <1>4, <1>6, <1>1, <1>2 DEF Puts
<1> QED  BY <1>5, <1>6

\* The stream is at the next record.
LEMMA CursorFacts ==
  ASSUME Types, NEW f \in Nat, At(f), NEW place \in Nat, place = Place
  PROVE  \E k \in f + 1 .. f + Len(blocks), j \in 1 .. B :
           /\ k = f + it + 1 /\ j = place - (f + it) * B + 1
           /\ cursor = Cell(k, j) /\ Number(k, j) = place + 1
<1>1. PICK n \in Nat, i \in Nat : n = Len(blocks) /\ i = it /\ i < n
  BY DEF Types, At
<1>2. B \in Nat /\ (f + i) * B \in Nat /\ (f + i + 1) * B = (f + i) * B + B
  BY Sizes, Times
<1>3. PICK a \in Nat : a = (f + i) * B /\ a <= place /\ place < a + B
  BY <1>1, <1>2 DEF At
<1> DEFINE k == f + i + 1  j == place - a + 1
<1>4. k \in f + 1 .. f + n /\ j \in 1 .. B /\ k \in Nat \ {0} /\ k - 1 = f + i
  BY <1>1, <1>2, <1>3
<1>5. cursor = Cell(k, 1) + (place - a)
  BY <1>1, <1>3 DEF At
<1>6. PICK c \in Nat : c = (Wrap(k) - 1) * B
  BY <1>4, <1>2, CellFacts
<1>7. cursor = Cell(k, j)
  BY <1>3, <1>5, <1>6 DEF Cell
<1>8. Number(k, j) = place + 1
  BY <1>3, <1>4 DEF Number
<1> QED  BY <1>1, <1>3, <1>4, <1>7, <1>8

\* A context that fits into all blocks but one leaves one free for what comes next.
LEMMA BlockLeft ==
  ASSUME NEW f \in Nat, NEW n \in Nat, NEW b \in Nat, NEW c \in Nat,
         b < (f + 1) * B, c <= Vocabulary, (f + n) * B = b + c
  PROVE  n < N
<1>1. /\ N \in Nat /\ B \in Nat /\ Vocabulary \in Nat
      /\ Vocabulary <= (N - 1) * B /\ (N - 1) * B \in Nat
  BY Sizes
<1>2. (f + 1) * B + (N - 1) * B = (f + N) * B /\ (f + 1) * B \in Int
  <2>1. (f + 1) + (N - 1) = f + N /\ f + 1 \in Int /\ N - 1 \in Int
    BY <1>1
  <2>2. (f + 1 + (N - 1)) * B = (f + 1) * B + (N - 1) * B
    BY <2>1, <1>1, Times
  <2> QED  BY <2>1, <2>2, <1>1, Times
<1>3. SUFFICES ASSUME N <= n  PROVE FALSE
  BY <1>1
<1>4. (f + N) * B <= (f + n) * B /\ (f + N) * B \in Int
  BY <1>1, <1>3, Times
<1> QED  BY <1>1, <1>2, <1>4

\* operator++ while a context is written or normalised: the stream goes on to the
\* next record, in another block where this one ends, or waits for a block.
LEMMA AdvanceMoves ==
  ASSUME Types, NEW s \in Nat, NEW f \in Nat, Ring(s, f), At(f), Marked(f),
         ~hitPoison, state[1] = "ready", doing \in {"write", "normalize"},
         Writer!Advance, count < words,
         count' = count + 1, UNCHANGED <<doing, words, before>>
  PROVE  /\ UNCHANGED <<queue, current, blocks, marked, hitPoison, poisoned>>
         /\ it' \in Nat /\ cursor' \in Nat /\ blockEnd' \in Nat
         /\ \/ state' = state /\ At(f)'
            \/ state' = [state EXCEPT ![1] = "append"] /\ Waits(f)' /\ doing = "write"
<1>1. PICK n \in Nat, i \in Nat, b \in Nat, c \in Nat, w \in Nat :
        n = Len(blocks) /\ i = it /\ i < n /\ b = before /\ c = count /\ w = words /\ w <= Vocabulary
        /\ c < w
  BY Sizes DEF Types, At
<1>2. Place = b + c /\ Place' = b + c + 1
  BY <1>1 DEF Place
<1>3. /\ B \in Nat /\ B >= 1 /\ N \in Nat
      /\ (f + i) * B \in Nat /\ (f + i + 1) * B = (f + i) * B + B
      /\ (f + (i + 1)) * B = (f + i) * B + B /\ (f + (i + 1) + 1) * B = (f + i) * B + B + B
  <2>1. B \in Nat /\ B >= 1 /\ N \in Nat /\ f + i \in Nat /\ f + (i + 1) = f + i + 1
    BY Sizes
  <2>2. (f + i) * B \in Nat /\ (f + i + 1) * B = (f + i) * B + B
        /\ (f + i + 1 + 1) * B = (f + i + 1) * B + B
    BY <2>1, Times
  <2> QED  BY <2>1, <2>2
<1>4. PICK a \in Nat : a = (f + i) * B /\ a <= b + c /\ b + c < a + B
  BY <1>1, <1>2, <1>3 DEF At
<1>5. PICK d \in Nat : d = Cell(f + i + 1, 1) /\ cursor = d + (b + c - a) /\ blockEnd = d + B
  <2>1. Cell(f + i + 1, 1) \in Nat
    BY <1>3, CellFacts
  <2>2. cursor = Cell(f + i + 1, 1) + (Place - (f + i) * B) /\ blockEnd = Cell(f + i + 1, 1) + B
    BY <1>1 DEF At
  <2>3. Place - (f + i) * B = b + c - a
    BY <1>2, <1>4
  <2> QED  BY <2>1, <2>2, <2>3
<1>6. /\ doing # "normalize" => i + 1 = n
      /\ doing = "normalize" => (f + n - 1) * B <= b + w /\ b + w < (f + n) * B
  BY <1>1 DEF At
<1>7. /\ b < (f + 1) * B /\ marked # 0
  <2>1. marked = Cell(f + 1, 1) + (b - f * B) /\ f * B <= b /\ b < (f + 1) * B
    BY <1>1 DEF Marked
  <2>2. Cell(f + 1, 1) \in Nat \ {0} /\ f * B \in Nat
    BY <1>3, CellFacts
  <2> QED  BY <2>1, <2>2
<1>8. UNCHANGED <<current, marked, hitPoison>>
  BY DEF Writer!Advance
<1>9. CASE cursor + 1 # blockEnd
  <2>1. UNCHANGED <<queue, state, blocks, it, blockEnd, poisoned>> /\ cursor' = cursor + 1
    BY <1>9 DEF Writer!Advance
  <2>2. cursor' = d + (b + c + 1 - a) /\ a <= b + c + 1 /\ b + c + 1 < a + B
    BY <1>9, <2>1, <1>3, <1>4, <1>5
  <2>3. At(f)'
    <3>1. it' = i /\ Len(blocks') = n /\ before' = b /\ words' = w /\ doing' = doing
      BY <2>1, <1>1
    <3>2. (f + i) * B <= b + c + 1 /\ b + c + 1 < (f + i + 1) * B
      BY <2>2, <1>3, <1>4
    <3>3. blockEnd' = Cell(f + i + 1, 1) + B /\ cursor' = Cell(f + i + 1, 1) + (b + c + 1 - (f + i) * B)
      BY <2>1, <2>2, <1>4, <1>5
    <3>4. it' < Len(blocks') /\ (doing' # "normalize" => it' + 1 = Len(blocks'))
      BY <3>1, <1>1, <1>6
    <3>5. (f + it') * B <= Place' /\ Place' < (f + it' + 1) * B
      BY <3>1, <3>2, <1>2
    <3>6. blockEnd' = Cell(f + it' + 1, 1) + B /\ cursor' = Cell(f + it' + 1, 1) + (Place' - (f + it') * B)
      <4>1. Place' = b + c + 1 /\ it' = i
        BY <3>1, <1>2
      <4>2. blockEnd' = Cell(f + it' + 1, 1) + B
        BY <4>1, <3>3
      <4>3. (f + it') * B = a /\ Cell(f + it' + 1, 1) = d
        BY <4>1, <1>4, <1>5
      <4>4. cursor' = Cell(f + it' + 1, 1) + (Place' - (f + it') * B)
        BY <4>1, <4>3, <2>2
      <4> QED  BY <4>2, <4>4
    <3>7. doing' = "normalize" => (f + Len(blocks') - 1) * B <= before' + words' /\ before' + words' < (f + Len(blocks')) * B
      BY <3>1, <1>6
    <3> QED  BY <3>4, <3>5, <3>6, <3>7 DEF At
  <2>4. cursor' \in Nat
    BY <2>2, <1>4
  <2> QED  BY <2>1, <2>3, <2>4, <1>8 DEF Types
<1>10. CASE cursor + 1 = blockEnd /\ i + 1 < n
  <2>1. /\ UNCHANGED <<queue, state, blocks, poisoned>> /\ it' = i + 1
        /\ cursor' = Writer!Get(blocks[i + 2]) /\ blockEnd' = Writer!ValidEnd(blocks[i + 2])
    BY <1>10, <1>1 DEF Writer!Advance
  <2>2. blocks[i + 2] = Whole(f + (i + 2)) /\ f + (i + 2) \in Nat \ {0} /\ f + (i + 2) = f + (i + 1) + 1
    <3>1. i + 2 \in 1 .. Len(blocks)
      BY <1>10, <1>1
    <3> QED  BY <3>1, SMTT(30) DEF Ring
  <2>3. cursor' = Cell(f + (i + 1) + 1, 1) /\ blockEnd' = Cell(f + (i + 1) + 1, 1) + B /\ cursor' \in Nat
    BY <2>1, <2>2, WholeFacts
  <2>4. b + c + 1 = a + B
    BY <1>10, <1>3, <1>4, <1>5
  <2>5. At(f)'
    <3>1. it' = i + 1 /\ Len(blocks') = n /\ before' = b /\ words' = w /\ doing' = doing /\ i + 1 < n
      BY <2>1, <1>1, <1>10
    <3>2. (f + (i + 1)) * B <= b + c + 1 /\ b + c + 1 < (f + (i + 1) + 1) * B
      BY <2>4, <1>3, <1>4
    <3>3. b + c + 1 - (f + (i + 1)) * B = 0 /\ (f + (i + 1)) * B \in Nat
      BY <2>4, <1>3, <1>4
    <3>4. cursor' = Cell(f + (i + 1) + 1, 1) + (b + c + 1 - (f + (i + 1)) * B)
      BY <2>3, <3>3
    <3>5. doing = "normalize"
      BY <1>6, <1>10, <1>1
    <3>6. it' < Len(blocks') /\ doing' = "normalize"
      BY <3>1, <3>5
    <3>7. (f + it') * B <= Place' /\ Place' < (f + it' + 1) * B
      BY <3>1, <3>2, <1>2
    <3>8. blockEnd' = Cell(f + it' + 1, 1) + B /\ cursor' = Cell(f + it' + 1, 1) + (Place' - (f + it') * B)
      <4>1. Place' = b + c + 1 /\ it' = i + 1
        BY <3>1, <1>2
      <4>2. blockEnd' = Cell(f + it' + 1, 1) + B
        BY <4>1, <2>3
      <4>3. (f + it') * B = b + c + 1
        BY <4>1, <2>4, <1>3, <1>4
      <4>4. cursor' = Cell(f + it' + 1, 1) + (Place' - (f + it') * B)
        <5>1. Place' - (f + it') * B = 0 /\ Cell(f + it' + 1, 1) = cursor' /\ cursor' \in Nat
          BY <4>1, <4>3, <2>3
        <5> QED  BY <5>1
      <4> QED  BY <4>2, <4>4
    <3>9. (f + Len(blocks') - 1) * B <= before' + words' /\ before' + words' < (f + Len(blocks')) * B
      BY <3>1, <3>5, <1>6
    <3> QED  BY <3>6, <3>7, <3>8, <3>9 DEF At
  <2> QED  BY <2>1, <2>3, <2>5, <1>8, <1>3
<1>11. CASE cursor + 1 = blockEnd /\ i + 1 = n
  <2>1. b + c + 1 = a + B /\ (f + n) * B = a + B
    BY <1>11, <1>3, <1>4, <1>5
  <2>2. doing = "write"
    BY <2>1, <1>1, <1>6
  <2>3. n < N
    <3>1. (f + n) * B = b + (c + 1) /\ c + 1 \in Nat /\ c + 1 <= Vocabulary
      BY <2>1, <1>1, Sizes
    <3> QED  BY <3>1, <1>7, BlockLeft
  <2>4. UNCHANGED <<queue, blocks>> /\ it' = i + 1 /\ cursor' = cursor + 1 /\ UNCHANGED blockEnd
        /\ Writer!AppendBlock(blocks')
    BY <1>11, <1>1, <1>7 DEF Writer!Advance, Writer!Release, Writer!Null
  <2>5. state' = [state EXCEPT ![1] = "append"] /\ UNCHANGED poisoned
    <3>1. ~(Len(blocks') >= WriterBlocks)
      BY <2>3, <2>4, <1>1, <1>3 DEF N
    <3> QED  BY <3>1, <2>4 DEF Writer!AppendBlock, Writer!Goto
  <2>6. Waits(f)'
    <3>1. it' = n /\ Len(blocks') = n /\ doing' = "write"
      BY <2>2, <2>4, <1>1, <1>11
    <3>2. Place' = (f + n) * B
      BY <2>1, <1>2
    <3> QED  BY <3>1, <3>2 DEF Waits
  <2>7. it' \in Nat /\ cursor' \in Nat /\ blockEnd' \in Nat
    BY <2>4, <1>1 DEF Types
  <2> QED  BY <2>2, <2>4, <2>5, <2>6, <2>7, <1>8
<1>12. cursor + 1 # blockEnd \/ (cursor + 1 = blockEnd /\ i + 1 < n) \/ (cursor + 1 = blockEnd /\ i + 1 = n)
  BY <1>1
<1> QED  BY <1>9, <1>10, <1>11, <1>12

LEMMA RingBounds ==
  ASSUME Types, NEW s \in Nat, NEW f \in Nat, Ring(s, f)
  PROVE  /\ f \in s .. f /\ Len(blocks) \in Nat
         /\ f + Len(blocks) \in Nat /\ f + Len(blocks) <= s + N
<1>1. PICK h \in Nat : h = Hand
  BY DEF Hand
<1>2. PICK free \in Seq(Blocks), going \in Seq(Blocks), held \in Seq(Blocks) :
        free = queue[0] /\ going = queue[1] /\ held = blocks
  BY DEF Types, Queues
<1>3. PICK a \in Nat, b \in Nat, c \in Nat : a = Len(free) /\ b = Len(going) /\ c = Len(held)
  OBVIOUS
<1>4. f = s + h + b /\ f + c + a = s + N
  BY <1>1, <1>2, <1>3 DEF Ring
<1>5. N \in Nat
  BY Sizes
<1>6. f \in s .. f /\ f + c \in Nat /\ f + c <= s + N
  BY <1>3, <1>4, <1>5
<1> QED  BY <1>2, <1>3, <1>6

LEMMA OpenStays ==
  ASSUME Types', SentInPlace', doing' # "end", NEW s \in Nat, NEW f \in Nat, Open(s, f)'
  PROVE  IInv'
BY DEF IInv

\* The ring does not change where neither the queues nor the blocks do.
LEMMA RingKept ==
  ASSUME NEW s \in Nat, NEW f \in Nat, Ring(s, f), UNCHANGED <<queue, current, blocks, sent>>,
         state'[2] = state[2]
  PROVE  Ring(s, f)'
<1>1. Hand' = Hand
  BY DEF Hand
<1> QED  BY <1>1 DEF Ring

\* One more record of the context, written or normalised.
LEMMA RecordStep ==
  ASSUME Types, SentInPlace, NEW s \in Nat, NEW f \in Nat, Open(s, f), state[1] = "ready",
         doing \in {"write", "normalize"}, Writer!Advance, count < words, count' = count + 1,
         NEW v \in Int, Puts(v),
         v = IF doing = "write" THEN -(before + count + 1) ELSE before + count + 1,
         UNCHANGED <<doing, context, words, before, sent>>
  PROVE  IInv'
<1>1. Ring(s, f) /\ At(f) /\ Marked(f) /\ ~hitPoison /\ ~poisoned /\ state[2] \notin {"poison", "done"}
      /\ Stored(s, f + Len(blocks))
  BY DEF Open
<1>2. /\ UNCHANGED <<queue, current, blocks, marked, hitPoison, poisoned>>
      /\ it' \in Nat /\ cursor' \in Nat /\ blockEnd' \in Nat
      /\ \/ state' = state /\ At(f)'
         \/ state' = [state EXCEPT ![1] = "append"] /\ Waits(f)' /\ doing = "write"
  BY <1>1, AdvanceMoves
<1>3. PICK b \in Nat, c \in Nat, w \in Nat : b = before /\ c = count /\ w = words /\ c < w
  BY DEF Types
<1>4. /\ Place = b + c
      /\ doing = "write" => Written = b + c /\ Written' = b + c + 1 /\ Normal = b /\ Normal' = b
      /\ doing = "normalize" => Written = b + w /\ Written' = b + w /\ Normal = b + c /\ Normal' = b + c + 1
  BY <1>3 DEF Place, Written, Normal
<1>5. PICK k0 \in f + 1 .. f + Len(blocks), j0 \in 1 .. B :
        cursor = Cell(k0, j0) /\ Number(k0, j0) = b + c + 1
  <2>1. b + c \in Nat /\ b + c = Place
    BY <1>4
  <2> QED  BY <2>1, <1>1, CursorFacts
<1>6. PICK g \in Nat : g = f + Len(blocks) /\ g <= s + N /\ f \in s .. f
  BY <1>1, RingBounds
<1>7. k0 \in s + 1 .. g
  BY <1>5, <1>6
<1>8. ASSUME NEW k \in s + 1 .. g, NEW j \in 1 .. B
      PROVE  /\ memory' \in [1 .. N * B -> Int]
             /\ Number(k, j) = b + c + 1 => memory'[Cell(k, j)] = v
             /\ Number(k, j) # b + c + 1 => memory'[Cell(k, j)] = memory[Cell(k, j)]
  <2>1. g <= s + N /\ cursor = Cell(k0, j0)
    BY <1>5, <1>6
  <2>2. /\ memory' \in [1 .. N * B -> Int]
        /\ Number(k, j) = Number(k0, j0) => memory'[Cell(k, j)] = v
        /\ Number(k, j) # Number(k0, j0) => memory'[Cell(k, j)] = memory[Cell(k, j)]
    BY <2>1, <1>7, StoreOne
  <2> QED  BY <2>2, <1>5
<1>9. Stored(s, g)'
  <2> SUFFICES ASSUME NEW k \in s + 1 .. g, NEW j \in 1 .. B
               PROVE  /\ Number(k, j) <= Normal' => memory'[Cell(k, j)] = Number(k, j)
                      /\ Normal' < Number(k, j) /\ Number(k, j) <= Written' => memory'[Cell(k, j)] = -Number(k, j)
    BY DEF Stored
  <2>1. PICK r \in Nat : r = Number(k, j)
    <3>1. k \in Nat \ {0}
      BY <1>6
    <3> QED  BY <3>1, NumberApart
  <2>2. /\ r <= Normal => memory[Cell(k, j)] = r
        /\ Normal < r /\ r <= Written => memory[Cell(k, j)] = -r
    BY <2>1, <1>1, <1>6 DEF Stored
  <2>3. memory'[Cell(k, j)] = IF r = b + c + 1 THEN v ELSE memory[Cell(k, j)]
    <3>1. /\ Number(k, j) = b + c + 1 => memory'[Cell(k, j)] = v
          /\ Number(k, j) # b + c + 1 => memory'[Cell(k, j)] = memory[Cell(k, j)]
      BY <1>8
    <3> QED  BY <3>1, <2>1
  <2>4. v = IF doing = "write" THEN -(b + c + 1) ELSE b + c + 1
    BY <1>3
  <2>5. CASE doing = "write"
    BY <2>5, <2>1, <2>2, <2>3, <2>4, <1>4, SMTT(30)
  <2>6. CASE doing = "normalize"
    BY <2>6, <2>1, <2>2, <2>3, <2>4, <1>3, <1>4
  <2> QED  BY <2>5, <2>6
<1>10. /\ state' \in [1 .. 2 -> {"unstarted", "consume", "append", "ready", "hold", "endpoison", "poison", "done"}]
       /\ state'[1] \in {"append", "ready"} /\ state'[2] = state[2]
       /\ state'[1] = "ready" => At(f)'
       /\ state'[1] = "append" => Waits(f)'
  BY <1>2, SMTT(30) DEF Types
<1>11. Types'
  <2>1. count' \in 0 .. words'
    BY <1>3
  <2>2. memory' \in [1 .. N * B -> Int]
    BY <1>7, <1>5, <1>8
  <2> QED  BY <2>1, <2>2, <1>2, <1>10 DEF Types
<1>12. Ring(s, f)'
  BY <1>1, <1>2, <1>10, RingKept
<1>13. Marked(f)'
  BY <1>1, <1>2 DEF Marked
<1>14. Open(s, f)'
  BY <1>1, <1>2, <1>6, <1>9, <1>10, <1>12, <1>13 DEF Open
<1>15. SentInPlace'
  BY DEF SentInPlace
<1> QED  BY <1>11, <1>14, <1>15, OpenStays

LEMMA WriteRecordStep ==
  ASSUME IInv, Writer!WriteRecord
  PROVE  IInv'
<1>1. /\ Types /\ SentInPlace /\ doing = "write" /\ count < words /\ Writer!Advance /\ state[1] = "ready"
      /\ memory' = [memory EXCEPT ![cursor] = -(before + count + 1)]
      /\ count' = count + 1 /\ UNCHANGED <<doing, context, words, before, sent>>
  BY DEF IInv, Writer!WriteRecord, Writer!Advance, Writer!Good, Writer!Ready
<1>2. PICK s \in Nat, f \in Nat : Open(s, f)
  BY <1>1 DEF IInv
<1>3. PICK v \in Int : v = -(before + count + 1)
  BY <1>1 DEF Types
<1>4. Puts(v)
  BY <1>1, <1>3 DEF Puts
<1> QED  BY <1>1, <1>2, <1>3, <1>4, RecordStep

LEMMA NormalizeRecordStep ==
  ASSUME IInv, Writer!NormalizeRecord
  PROVE  IInv'
<1>1. /\ Types /\ SentInPlace /\ doing = "normalize" /\ count < words /\ Writer!Advance /\ state[1] = "ready"
      /\ memory' = [memory EXCEPT ![cursor] = -@]
      /\ count' = count + 1 /\ UNCHANGED <<doing, context, words, before, sent>>
  BY DEF IInv, Writer!NormalizeRecord, Writer!Advance, Writer!Good, Writer!Ready
<1>2. PICK s \in Nat, f \in Nat : Open(s, f)
  BY <1>1 DEF IInv
<1>3. PICK b \in Nat, c \in Nat, w \in Nat : b = before /\ c = count /\ w = words /\ c < w
  BY <1>1 DEF Types
<1>4. Place = b + c /\ Written = b + w /\ Normal = b + c
  BY <1>1, <1>3 DEF Place, Written, Normal
<1>5. PICK k \in f + 1 .. f + Len(blocks), j \in 1 .. B :
        cursor = Cell(k, j) /\ Number(k, j) = b + c + 1
  <2>1. b + c \in Nat /\ b + c = Place /\ At(f)
    BY <1>1, <1>2, <1>4 DEF Open
  <2> QED  BY <2>1, <1>1, CursorFacts
<1>6. f \in s .. f /\ Len(blocks) \in Nat
  BY <1>1, <1>2, RingBounds DEF Open
<1>7. memory[cursor] = -(b + c + 1)
  <2>1. k \in s + 1 .. f + Len(blocks)
    BY <1>6
  <2>2. b + c < b + c + 1 /\ b + c + 1 <= b + w
    BY <1>3
  <2> QED  BY <2>1, <2>2, <1>2, <1>4, <1>5 DEF Open, Stored
<1>8. PICK v \in Int : v = b + c + 1 /\ v = -memory[cursor]
  BY <1>7
<1>9. Puts(v) /\ v = before + count + 1
  BY <1>1, <1>3, <1>8 DEF Puts
<1> QED  BY <1>1, <1>2, <1>9, RecordStep

\* A record is in one block.
LEMMA OneBlock ==
  ASSUME NEW a \in Nat, NEW c \in Nat, NEW x \in Nat,
         a * B <= x, x < (a + 1) * B, c * B <= x, x < (c + 1) * B
  PROVE  a = c
<1>1. B \in Nat /\ a * B \in Nat /\ c * B \in Nat /\ (a + 1) * B = a * B + B /\ (c + 1) * B = c * B + B
  BY Sizes, Times
<1>2. (a < c => a * B + B <= c * B) /\ (c < a => c * B + B <= a * B)
  BY <1>1, Times
<1> QED  BY <1>1, <1>2

\* At the end of a context the stream is in the last of its blocks.
LEMMA InLastBlock ==
  ASSUME Types, NEW f \in Nat, At(f), doing = "normalize" => count = words
  PROVE  it + 1 = Len(blocks)
<1>1. CASE doing # "normalize"
  BY <1>1 DEF At
<1>2. CASE doing = "normalize"
  <2>1. PICK n \in Nat, i \in Nat, x \in Nat :
          n = Len(blocks) /\ i = it /\ i < n /\ x = before + words /\ x = Place
    BY <1>2 DEF Types, At, Place
  <2>2. (f + i) * B <= x /\ x < (f + i + 1) * B /\ (f + n - 1) * B <= x /\ x < (f + n) * B
    BY <1>2, <2>1 DEF At
  <2>3. f + i \in Nat /\ f + n - 1 \in Nat /\ f + n - 1 + 1 = f + n
    BY <2>1
  <2>4. f + i = f + n - 1
    BY <2>2, <2>3, OneBlock
  <2> QED  BY <2>1, <2>4
<1> QED  BY <1>1, <1>2

\* Mark lets go of the blocks before the one the stream is in.
LEMMA MarkStep ==
  ASSUME IInv, Writer!Mark, doing # "end", doing' \in {"mark", "write", "finish"},
         doing = "normalize" => count = words,
         context' \in Nat, words' \in 1 .. Vocabulary, count' \in 0 .. words', before' \in Nat,
         UNCHANGED <<memory, sent>>,
         Place' = Place, Normal' = Normal, Written' = Written,
         doing' = "write" => before' = Place, doing' = "mark" => count' = 0
  PROVE  IInv'
<1>1. Types /\ SentInPlace
  BY DEF IInv
<1>2. PICK s \in Nat, f \in Nat : Open(s, f)
  BY DEF IInv
<1>3. /\ state[1] = "ready" /\ marked' = cursor /\ it' = 0 /\ Writer!Flush(blocks, it)
      /\ UNCHANGED <<current, state, cursor, blockEnd, hitPoison, poisoned>>
  BY DEF Writer!Mark, Writer!Good, Writer!Ready
<1>4. At(f) /\ Ring(s, f) /\ Stored(s, f + Len(blocks))
  BY <1>2, <1>3 DEF Open
<1>5. PICK n \in Nat, i \in Nat : n = Len(blocks) /\ i = it /\ i < n /\ i + 1 = n
  <2>1. it + 1 = Len(blocks)
    BY <1>1, <1>4, InLastBlock
  <2> QED  BY <2>1, <1>1 DEF Types
<1>6. /\ Ring(s, f + i)' /\ Len(blocks') = 1 /\ f + i \in Nat
      /\ queue' \in [Queues -> Seq(Blocks)] /\ blocks' \in Seq(Blocks)
  <2>1. i \in 0 .. Len(blocks) /\ Writer!Flush(blocks, i) /\ UNCHANGED <<current, state, sent>>
    BY <1>3, <1>5
  <2>2. Ring(s, f + i)' /\ Len(blocks') = Len(blocks) - i
        /\ queue' \in [Queues -> Seq(Blocks)] /\ blocks' \in Seq(Blocks)
    BY <1>1, <1>4, <2>1, FlushRing
  <2> QED  BY <2>2, <1>5
<1>7. PICK place \in Nat : place = Place
  BY <1>1 DEF Place, Types
<1>8. /\ (f + i) * B <= place /\ place < (f + i + 1) * B
      /\ cursor = Cell(f + i + 1, 1) + (place - (f + i) * B)
      /\ blockEnd = Cell(f + i + 1, 1) + B
  BY <1>4, <1>5, <1>7 DEF At
<1>9. At(f + i)'
  <2>1. it' = 0 /\ f + i + 0 = f + i /\ Place' = place /\ doing' # "normalize" /\ Len(blocks') = 1
    BY <1>3, <1>6, <1>7
  <2>2. 0 < Len(blocks') /\ 0 + 1 = Len(blocks')
    BY <2>1
  <2> QED  BY <2>1, <2>2, <1>3, <1>8 DEF At
<1>10. doing' \in {"write", "normalize"} => Marked(f + i)'
  <2>1. blocks' # << >>
    <3>1. Len(blocks') = 1 /\ Len(<< >>) = 0
      BY <1>6
    <3> QED  BY <3>1, SMTT(30)
  <2> QED  BY <2>1, <1>3, <1>7, <1>8 DEF Marked
<1>11. PICK g \in Nat : g = f + i + Len(blocks') /\ Stored(s, g)'
  <2>1. PICK g \in Nat : g = f + n
    OBVIOUS
  <2>2. Len(blocks') = 1 /\ f + i + 1 = f + n
    <3>1. Len(blocks') = 1
      BY <1>6
    <3>2. f + i + 1 = f + n
      BY <1>5
    <3> QED  BY <3>1, <3>2
  <2>3. Stored(s, g) /\ s + 1 .. g \subseteq s + 1 .. g /\ memory' = memory
    BY <2>1, <1>4, <1>5
  <2>4. Stored(s, g)'
    BY <2>3, StoredKept
  <2> QED  BY <2>1, <2>2, <2>4
<1>12. Types'
  BY <1>1, <1>3, <1>6 DEF Types
<1>13. SentInPlace'
  BY <1>1 DEF SentInPlace
<1>14. Open(s, f + i)'
  <2>1. /\ state'[1] = "ready" /\ state'[2] \notin {"poison", "done"} /\ ~hitPoison' /\ ~poisoned'
    BY <1>2, <1>3 DEF Open
  <2>2. Stored(s, f + i + Len(blocks))'
    BY <1>11
  <2> QED  BY <2>1, <2>2, <1>6, <1>9, <1>10 DEF Open
<1> QED  BY <1>6, <1>12, <1>13, <1>14, OpenStays

LEMMA MarkContextStep ==
  ASSUME IInv, Writer!MarkContext
  PROVE  IInv'
<1>1. /\ Types /\ doing = "mark" /\ doing' = "write" /\ Writer!Mark
      /\ UNCHANGED <<context, words, count, before, memory, sent>>
  BY DEF IInv, Writer!MarkContext
<1>2. count = 0
  BY <1>1 DEF IInv, Open
<1>3. PICK b \in Nat : b = before
  BY <1>1 DEF Types
<1>4. /\ Place = b /\ Place' = b /\ Normal = b /\ Normal' = b /\ Written = b /\ Written' = b
  BY <1>1, <1>2, <1>3 DEF Place, Normal, Written
<1>5. /\ context' \in Nat /\ words' \in 1 .. Vocabulary /\ count' \in 0 .. words' /\ before' \in Nat
  BY <1>1 DEF Types
<1> QED  BY <1>1, <1>3, <1>4, <1>5, MarkStep

LEMMA ReleaseContextStep ==
  ASSUME IInv, Writer!ReleaseContext
  PROVE  IInv'
<1>1. /\ Types /\ doing = "normalize" /\ count = words /\ Writer!Mark
      /\ UNCHANGED <<memory, sent>>
  BY DEF IInv, Writer!ReleaseContext
<1>2. PICK b \in Nat, w \in Nat : b = before /\ w = words
  BY <1>1 DEF Types
<1>3. Place = b + w /\ Normal = b + w /\ Written = b + w
  BY <1>1, <1>2 DEF Place, Normal, Written
<1>4. \/ doing' = "mark" /\ context' = context + 1 /\ count' = 0 /\ before' = b + w /\ words' \in 1 .. Vocabulary
      \/ doing' = "finish" /\ UNCHANGED <<context, words, count, before>>
  BY <1>2 DEF Writer!ReleaseContext
<1>5. Place' = b + w /\ Normal' = b + w /\ Written' = b + w
  BY <1>2, <1>4 DEF Place, Normal, Written
<1>6. /\ context' \in Nat /\ words' \in 1 .. Vocabulary /\ count' \in 0 .. words' /\ before' \in Nat
  <2>1. CASE doing' = "mark"
    BY <2>1, <1>1, <1>2, <1>4, Sizes DEF Types
  <2>2. CASE doing' = "finish"
    BY <2>2, <1>1, <1>2, <1>4 DEF Types
  <2> QED  BY <2>1, <2>2, <1>4
<1>7. doing' \in {"mark", "finish"} /\ (doing' = "mark" => count' = 0)
  BY <1>4
<1> QED  BY <1>1, <1>3, <1>5, <1>6, <1>7, MarkStep

LEMMA RewindContextStep ==
  ASSUME IInv, Writer!RewindContext
  PROVE  IInv'
<1>1. /\ Types /\ SentInPlace /\ doing = "write" /\ count = words /\ doing' = "normalize" /\ count' = 0
      /\ state[1] = "ready" /\ it' = 0 /\ cursor' = marked
      /\ poisoned' = (IF cursor # marked THEN FALSE ELSE poisoned)
      /\ blockEnd' = Writer!ValidEnd(blocks[1])
      /\ UNCHANGED <<queue, current, state, blocks, marked, hitPoison, context, words, before, memory, sent>>
  BY DEF IInv, Writer!RewindContext, Writer!Rewind, Writer!Ready
<1>2. PICK s \in Nat, f \in Nat : Open(s, f)
  BY <1>1 DEF IInv
<1>3. At(f) /\ Ring(s, f) /\ Stored(s, f + Len(blocks)) /\ Marked(f) /\ ~poisoned /\ ~hitPoison
      /\ state[2] \notin {"poison", "done"}
  BY <1>1, <1>2 DEF Open
<1>4. PICK b \in Nat, w \in Nat, n \in Nat, i \in Nat :
        b = before /\ w = words /\ n = Len(blocks) /\ i = it /\ i + 1 = n /\ w >= 1
  BY <1>1, <1>3 DEF Types, At
<1>5. /\ Place = b + w /\ Normal = b /\ Written = b + w
      /\ Place' = b /\ Normal' = b /\ Written' = b + w
  BY <1>1, <1>4 DEF Place, Normal, Written
<1>6. blockEnd' = Cell(f + 1, 1) + B /\ blockEnd' \in Nat
  <2>1. 1 \in 1 .. Len(blocks) /\ f + 1 \in Nat \ {0}
    BY <1>4
  <2>2. blocks[1] = Whole(f + 1)
    BY <2>1, <1>3 DEF Ring
  <2>3. Writer!ValidEnd(Whole(f + 1)) = Cell(f + 1, 1) + B /\ Cell(f + 1, 1) \in Nat
    BY <2>1, WholeFacts
  <2> QED  BY <2>2, <2>3, <1>1, Sizes
<1>7. f * B <= b /\ b < (f + 1) * B /\ cursor' = Cell(f + 1, 1) + (b - f * B)
  BY <1>1, <1>3, <1>4 DEF Marked
<1>8. (f + n - 1) * B <= b + w /\ b + w < (f + n) * B
  <2>1. f + i = f + n - 1 /\ f + i + 1 = f + n
    BY <1>4
  <2>2. (f + i) * B <= b + w /\ b + w < (f + i + 1) * B
    BY <1>3, <1>4, <1>5 DEF At
  <2> QED  BY <2>1, <2>2
<1>9. At(f)'
  <2>1. it' = 0 /\ f + 0 = f /\ Len(blocks') = n /\ 0 < n /\ before' = b /\ words' = w /\ doing' = "normalize"
    BY <1>1, <1>4
  <2> QED  BY <2>1, <1>5, <1>6, <1>7, <1>8 DEF At
<1>10. Stored(s, f + n)'
  <2>1. Stored(s, f + n) /\ s + 1 .. f + n \subseteq s + 1 .. f + n
        /\ memory' = memory /\ Normal' = Normal /\ Written' = Written
    BY <1>1, <1>3, <1>4, <1>5
  <2> QED  BY <2>1, StoredKept
<1>11. Ring(s, f)'
  BY <1>1, <1>3, RingKept
<1>12. Marked(f)'
  BY <1>1, <1>3 DEF Marked
<1>13. Types'
  <2>1. it' \in Nat /\ cursor' \in Nat /\ blockEnd' \in Nat /\ count' \in 0 .. words'
    BY <1>1, <1>4, <1>6 DEF Types
  <2> QED  BY <2>1, <1>1 DEF Types
<1>14. SentInPlace'
  BY <1>1 DEF SentInPlace
<1>15. Open(s, f)'
  <2>1. Stored(s, f + Len(blocks))'
    BY <1>1, <1>4, <1>10
  <2>2. state'[1] = "ready" /\ state'[2] \notin {"poison", "done"} /\ ~hitPoison' /\ ~poisoned'
    BY <1>1, <1>3
  <2> QED  BY <2>1, <2>2, <1>1, <1>9, <1>11, <1>12 DEF Open
<1> QED  BY <1>1, <1>13, <1>14, <1>15, OpenStays

\* What is not the stream's business.
Outside == UNCHANGED <<doing, context, words, count, before, memory, sent>>

LEMMA StreamStartStep ==
  ASSUME IInv, Writer!StreamStart, Outside
  PROVE  IInv'
<1>1. /\ Types /\ SentInPlace /\ state[1] = "unstarted" /\ state' = [state EXCEPT ![1] = "append"]
      /\ UNCHANGED <<queue, current, blocks, it, cursor, blockEnd, marked, hitPoison, poisoned>>
      /\ UNCHANGED <<doing, context, words, count, before, memory, sent>>
  BY DEF IInv, Writer!StreamStart, Writer!Goto, Writer!svars, Outside
<1>2. doing # "end"
  BY <1>1 DEF IInv, Closed
<1>3. PICK s \in Nat, f \in Nat : Open(s, f)
  BY <1>2 DEF IInv
<1>4. state'[1] = "append" /\ state'[2] = state[2]
      /\ state' \in [1 .. 2 -> {"unstarted", "consume", "append", "ready", "hold", "endpoison", "poison", "done"}]
  BY <1>1 DEF Types
<1>5. Types' /\ SentInPlace'
  BY <1>1, <1>4 DEF Types, SentInPlace
<1>6. Ring(s, f)'
  BY <1>1, <1>3, <1>4, RingKept DEF Open
<1>7. Waits(f)'
  <2>1. Waits(f)
    BY <1>1, <1>3 DEF Open
  <2>2. Place' = Place
    BY <1>1 DEF Place
  <2> QED  BY <2>1, <2>2, <1>1 DEF Waits
<1>8. Stored(s, f + Len(blocks))'
  BY <1>1, <1>3 DEF Open, Stored, Normal, Written
<1>9. Open(s, f)'
  <2>1. doing = "mark"
    BY <1>1, <1>3 DEF Open
  <2> QED  BY <2>1, <1>1, <1>3, <1>4, <1>6, <1>7, <1>8 DEF Open
<1> QED  BY <1>1, <1>2, <1>5, <1>9, OpenStays

LEMMA AppendConsumeStep ==
  ASSUME IInv, Writer!AppendConsume, Outside
  PROVE  IInv'
<1>1. /\ Types /\ SentInPlace /\ state[1] = "append" /\ queue[0] # << >>
      /\ queue' = [queue EXCEPT ![0] = Tail(@)] /\ UNCHANGED <<current, marked>>
      /\ UNCHANGED <<doing, context, words, count, before, memory, sent>>
  BY DEF IInv, Writer!AppendConsume, Outside
<1>2. doing # "end"
  BY <1>1 DEF IInv, Closed
<1>3. PICK s \in Nat, f \in Nat : Open(s, f)
  BY <1>2 DEF IInv
<1>4. /\ Ring(s, f) /\ Waits(f) /\ Stored(s, f + Len(blocks)) /\ ~hitPoison /\ ~poisoned
      /\ state[2] \notin {"poison", "done"} /\ (doing = "write" => Marked(f))
      /\ (doing = "mark" => count = 0)
  BY <1>1, <1>3 DEF Open
<1>5. PICK free \in Seq(Blocks), going \in Seq(Blocks), held \in Seq(Blocks) :
        free = queue[0] /\ going = queue[1] /\ held = blocks /\ free # << >>
  BY <1>1 DEF Types, Queues
<1>6. PICK n \in Nat, a \in Nat : n = Len(held) /\ a = Len(free) /\ a >= 1
  BY <1>5, SMTT(30)
<1>7. PICK tail \in Seq(Blocks) : tail = Tail(free) /\ Len(tail) = a - 1 /\ \A p \in 1 .. a - 1 : tail[p] = free[p + 1]
  <2>1. /\ Tail(free) \in Seq(Blocks) /\ Len(Tail(free)) = Len(free) - 1
        /\ \A p \in 1 .. Len(free) - 1 : Tail(free)[p] = free[p + 1]
    BY <1>5, Ends
  <2> QED  BY <2>1, <1>6, Zenon
<1>8. PICK k \in Nat \ {0} : k = f + n + 1
  OBVIOUS
<1>9. Head(queue[0]) = Whole(k)
  <2>1. Head(free) = free[1] /\ 1 \in 1 .. Len(free)
    BY <1>5, <1>6
  <2>2. free[1] = Whole(f + n + 1)
    BY <2>1, <1>4, <1>5, <1>6 DEF Ring
  <2> QED  BY <2>1, <2>2, <1>5, <1>8
<1>10. /\ blocks' = Append(blocks, Whole(k)) /\ state' = [state EXCEPT ![1] = "ready"]
       /\ cursor' = Cell(k, 1) /\ blockEnd' = Cell(k, 1) + B /\ it' = n
       /\ UNCHANGED <<hitPoison, poisoned>>
  <2>1. ~Writer!IsPoison(Whole(k)) /\ Whole(k).valid # 0
        /\ Writer!Get(Whole(k)) = Cell(k, 1) /\ Writer!ValidEnd(Whole(k)) = Cell(k, 1) + B
    BY WholeFacts
  <2> QED  BY <2>1, <1>5, <1>6, <1>9 DEF Writer!AppendConsume, Writer!Goto
<1>11. PICK more \in Seq(Blocks) : more = Append(held, Whole(k)) /\ Len(more) = n + 1
                                /\ (\A p \in 1 .. n : more[p] = held[p]) /\ more[n + 1] = Whole(k)
  <2>1. Whole(k) \in Blocks
    BY WholeFacts
  <2>2. /\ Append(held, Whole(k)) \in Seq(Blocks) /\ Len(Append(held, Whole(k))) = Len(held) + 1
        /\ \A p \in 1 .. Len(held) : Append(held, Whole(k))[p] = held[p]
        /\ Append(held, Whole(k))[Len(held) + 1] = Whole(k)
    BY <2>1, Ends
  <2> QED  BY <2>2, <1>6
<1>12. /\ queue' \in [Queues -> Seq(Blocks)] /\ queue'[0] = tail /\ queue'[1] = going /\ blocks' = more
       /\ state' \in [1 .. 2 -> {"unstarted", "consume", "append", "ready", "hold", "endpoison", "poison", "done"}]
       /\ state'[1] = "ready" /\ state'[2] = state[2]
  BY <1>1, <1>5, <1>7, <1>10, <1>11, SMTT(30) DEF Types, Queues
<1>13. Ring(s, f)'
  <2>0. Hand' = Hand /\ Hand \in Nat /\ Len(going) \in Nat
    BY <1>12 DEF Hand
  <2>1. PICK hand \in Nat, b \in Nat : hand = Hand /\ hand = Hand' /\ b = Len(going)
    BY <2>0
  <2>2. f = s + hand + b /\ f + n + a = s + N
    BY <2>1, <1>4, <1>5, <1>6 DEF Ring
  <2>3. f + (n + 1) + (a - 1) = s + N
    BY <2>2, Sizes
  <2>4. state'[2] = "hold" => current'[2] = Whole(s + 1)
    BY <1>1, <1>4, <1>12 DEF Ring
  <2>5. \A p \in 1 .. Len(going) : going[p] = Whole(s + hand + p)
    BY <2>1, <1>4, <1>5 DEF Ring
  <2>6. \A p \in 1 .. n + 1 : more[p] = Whole(f + p)
    <3> SUFFICES ASSUME NEW p \in 1 .. n + 1  PROVE more[p] = Whole(f + p)
      OBVIOUS
    <3>1. CASE p = n + 1
      <4>1. f + p = k
        BY <3>1, <1>8
      <4> QED  BY <3>1, <4>1, <1>11
    <3>2. CASE p \in 1 .. n
      BY <3>2, <1>4, <1>5, <1>6, <1>11 DEF Ring
    <3> QED  BY <3>1, <3>2
  <2>7. \A p \in 1 .. a - 1 : tail[p] = Whole(f + (n + 1) + p)
    <3> SUFFICES ASSUME NEW p \in 1 .. a - 1  PROVE tail[p] = Whole(f + (n + 1) + p)
      OBVIOUS
    <3>1. p + 1 \in 1 .. Len(free) /\ f + n + (p + 1) = f + (n + 1) + p /\ tail[p] = free[p + 1]
      BY <1>6, <1>7
    <3>2. free[p + 1] = Whole(f + n + (p + 1))
      BY <3>1, <1>4, <1>5, <1>6 DEF Ring
    <3> QED  BY <3>1, <3>2
  <2>8. Len(sent') = s * B
    BY <1>1, <1>4 DEF Ring
  <2> QED  BY <2>1, <2>2, <2>3, <2>4, <2>5, <2>6, <2>7, <2>8, <1>7, <1>11, <1>12, ZenonT(30) DEF Ring
<1>14. PICK place \in Nat : place = Place /\ place = Place' /\ place = (f + n) * B
  BY <1>1, <1>4, <1>5, <1>6 DEF Place, Types, Waits
<1>15. At(f)'
  <2>1. it' = n /\ Len(blocks') = n + 1 /\ doing' = doing /\ doing # "normalize"
    BY <1>1, <1>4, <1>10, <1>11, <1>12 DEF Waits
  <2>2. (f + n + 1) * B = (f + n) * B + B /\ B >= 1 /\ B \in Nat
    BY Sizes, Times
  <2>3. cursor' = Cell(f + n + 1, 1) /\ blockEnd' = Cell(f + n + 1, 1) + B /\ Cell(f + n + 1, 1) \in Nat
    BY <1>8, <1>10, CellFacts, WholeFacts
  <2>4. (f + n) * B <= place /\ place < (f + n + 1) * B /\ place - (f + n) * B = 0
    BY <2>2, <1>14
  <2>5. cursor' = Cell(f + n + 1, 1) + (place - (f + n) * B)
    BY <2>3, <2>4
  <2>6. n < n + 1
    OBVIOUS
  <2> QED  BY <2>1, <2>3, <2>4, <2>5, <2>6, <1>14 DEF At
<1>16. Stored(s, f + (n + 1))'
  <2>1. doing \in {"mark", "write"} /\ doing' = doing /\ before' = before /\ count' = count /\ memory' = memory
    BY <1>1, <1>4 DEF Waits
  <2>2. Written' = Written /\ Normal' = Normal /\ Written = place /\ Normal = before + 0
    <3>1. CASE doing = "mark"
      BY <3>1, <2>1, <1>14 DEF Written, Normal, Place
    <3>2. CASE doing = "write"
      BY <3>2, <2>1, <1>1, <1>14 DEF Written, Normal, Place, Types
    <3> QED  BY <3>1, <3>2, <2>1
  <2>3. PICK b \in Nat : b = Normal /\ b <= place
    BY <2>1, <2>2, <1>1, <1>14 DEF Types, Place
  <2> SUFFICES ASSUME NEW l \in s + 1 .. f + (n + 1), NEW j \in 1 .. B
               PROVE  /\ Number(l, j) <= Normal => memory[Cell(l, j)] = Number(l, j)
                      /\ Normal < Number(l, j) /\ Number(l, j) <= Written => memory[Cell(l, j)] = -Number(l, j)
    BY <2>1, <2>2 DEF Stored
  <2>4. CASE l \in s + 1 .. f + n
    BY <2>4, <1>4, <1>5, <1>6 DEF Stored
  <2>5. CASE l = f + n + 1
    <3>1. Number(l, j) = place + j
      <4>1. l - 1 = f + n
        BY <2>5
      <4> QED  BY <4>1, <1>14 DEF Number
    <3>2. ~(place + j <= b) /\ ~(place + j <= place)
      BY <2>3, Sizes
    <3> QED  BY <3>1, <3>2, <2>2, <2>3
  <2> QED  BY <2>4, <2>5
<1>17. Marked(f)' \/ doing' = "mark"
  <2>1. CASE doing = "write"
    <3>1. blocks' # << >>
      <4>1. Len(blocks') = n + 1 /\ Len(<< >>) = 0 /\ n + 1 # 0
        BY <1>11, <1>12
      <4> QED  BY <4>1
    <3> QED  BY <3>1, <2>1, <1>1, <1>4 DEF Marked
  <2> QED  BY <2>1, <1>1, <1>4 DEF Waits
<1>18. Types'
  <2>1. cursor' \in Nat /\ blockEnd' \in Nat /\ it' \in Nat
    BY <1>10, WholeFacts
  <2> QED  BY <2>1, <1>1, <1>10, <1>12 DEF Types
<1>19. SentInPlace'
  BY <1>1 DEF SentInPlace
<1>20. Open(s, f)'
  <2>1. Stored(s, f + Len(blocks))'
    BY <1>11, <1>12, <1>16
  <2>2. doing' \notin {"normalize", "finish"} /\ (doing' = "mark" => count' = 0) /\ ~hitPoison' /\ ~poisoned'
    BY <1>1, <1>4, <1>10 DEF Waits
  <2>3. doing' \in {"write", "normalize"} => Marked(f)'
    BY <1>17
  <2>4. state'[1] = "ready" /\ state'[2] \notin {"poison", "done"}
    BY <1>4, <1>12
  <2> QED  BY <2>1, <2>2, <2>3, <2>4, <1>13, <1>15 DEF Open
<1> QED  BY <1>1, <1>2, <1>18, <1>19, <1>20, OpenStays

------------------------------------------------------------------------------
\* The end of the stream.

\* Poison sends what the stream holds, the last block with what is in it.
LEMMA FinishStep ==
  ASSUME IInv, Writer!Finish
  PROVE  IInv'
<1>0. /\ Types /\ SentInPlace /\ (doing = "finish" \/ (doing = "normalize" /\ count = words))
      /\ state[1] = "ready" /\ blocks # << >> /\ doing' = "end"
      /\ UNCHANGED <<current, cursor, blockEnd, marked, hitPoison, poisoned>>
      /\ UNCHANGED <<context, words, count, before, memory, sent>>
  BY DEF IInv, Writer!Finish, Writer!PoisonFlush, Writer!Ready
<1>2. PICK s \in Nat, f \in Nat : Open(s, f)
  BY <1>0 DEF IInv
<1>22. ~poisoned /\ it = Len(blocks) - 1
  <2>1. ~poisoned /\ At(f)
    BY <1>0, <1>2 DEF Open
  <2>2. it + 1 = Len(blocks)
    BY <2>1, <1>0, InLastBlock
  <2> QED  BY <2>1, <2>2, <1>0 DEF Types
<1>1. /\ Types /\ SentInPlace /\ (doing = "finish" \/ (doing = "normalize" /\ count = words))
      /\ state[1] = "ready" /\ blocks # << >> /\ doing' = "end" /\ it' = 0
      /\ state' = [state EXCEPT ![1] = "endpoison"]
      /\ UNCHANGED <<current, cursor, blockEnd, marked, hitPoison, poisoned>>
      /\ UNCHANGED <<context, words, count, before, memory, sent>>
  BY <1>0, <1>22 DEF Writer!Finish, Writer!PoisonFlush, Writer!Goto
<1>3. At(f) /\ Ring(s, f) /\ Stored(s, f + Len(blocks)) /\ state[2] \notin {"poison", "done"}
  BY <1>1, <1>2 DEF Open
<1>4. PICK free \in Seq(Blocks), going \in Seq(Blocks), held \in Seq(Blocks) :
        free = queue[0] /\ going = queue[1] /\ held = blocks
  BY <1>1 DEF Types, Queues
<1>5. PICK n \in Nat, i \in Nat, m \in Nat : n = Len(held) /\ i = it /\ i + 1 = n /\ m = Len(going) /\ n >= 1
  <2>1. it + 1 = Len(blocks)
    BY <1>1, <1>3, InLastBlock
  <2>2. it \in Nat /\ it + 1 = Len(held) /\ Len(held) \in Nat /\ Len(going) \in Nat
    BY <2>1, <1>1, <1>4 DEF Types
  <2>3. PICK n \in Nat, m \in Nat : n = Len(held) /\ m = Len(going)
    BY <2>2
  <2>4. PICK i \in Nat : i = it /\ i + 1 = n
    BY <2>2, <2>3
  <2>5. n >= 1
    BY <2>4
  <2> QED  BY <2>3, <2>4, <2>5
<1>6. PICK x \in Nat : x = before + words /\ Place = x /\ Written = x /\ Normal = x
  BY <1>1 DEF Types, Place, Written, Normal
<1>7. PICK g \in Nat \ {0} : g = f + n /\ g - 1 = f + i /\ g = f + i + 1 /\ n >= 1
  <2>1. i + 1 = n
    BY <1>5
  <2>2. f + n \in Nat \ {0} /\ f + n - 1 = f + i /\ f + n = f + i + 1 /\ n >= 1
    BY <2>1
  <2> QED  BY <2>2
<1>8. PICK a \in Nat, rest \in Nat : a = (g - 1) * B /\ rest = x - a /\ rest < B
                                  /\ cursor = Cell(g, 1) + rest
  <2>1. (g - 1) * B \in Nat /\ (f + i + 1) * B = (f + i) * B + B /\ B \in Nat /\ f + i \in Nat
    BY <1>5, <1>7, Sizes, Times, SMTT(30)
  <2>2. (f + i) * B <= x /\ x < (f + i + 1) * B /\ cursor = Cell(f + i + 1, 1) + (x - (f + i) * B)
    BY <1>3, <1>5, <1>6 DEF At
  <2>3. PICK a \in Nat : a = (f + i) * B
    BY <2>1
  <2>4. a <= x /\ x < a + B /\ cursor = Cell(f + i + 1, 1) + (x - a)
    BY <2>1, <2>2, <2>3
  <2>5. PICK rest \in Nat : rest = x - a /\ rest < B
    BY <2>1, <2>4
  <2>6. a = (g - 1) * B /\ cursor = Cell(g, 1) + rest
    BY <2>3, <2>4, <2>5, <1>7
  <2> QED  BY <2>5, <2>6
<1>9. /\ held[n] = Whole(g) /\ n \in 1 .. Len(held)
  <2>1. n \in 1 .. Len(blocks)
    BY <1>4, <1>5
  <2>2. blocks[n] = Whole(f + n)
    BY <2>1, <1>3 DEF Ring
  <2> QED  BY <2>1, <2>2, <1>4, <1>7
<1>10. PICK last \in Blocks : last = [mem |-> Wrap(g), valid |-> rest]
                           /\ last = [held[n] EXCEPT !.valid = cursor - Writer!Get(held[n])]
  <2>1. Writer!Get(held[n]) = Cell(g, 1) /\ Cell(g, 1) \in Nat
    BY <1>9, WholeFacts
  <2>2. cursor - Writer!Get(held[n]) = rest
    BY <2>1, <1>8, SMTT(30)
  <2>3. [held[n] EXCEPT !.valid = cursor - Writer!Get(held[n])] = [mem |-> Wrap(g), valid |-> rest]
    BY <2>2, <1>9 DEF Whole
  <2>4. [mem |-> Wrap(g), valid |-> rest] \in Blocks
    BY <1>8, WrapFacts, Sizes DEF Blocks
  <2> QED  BY <2>3, <2>4
<1>11. PICK cut \in Seq(Blocks) : /\ cut = [held EXCEPT ![n] = last] /\ Len(cut) = n /\ cut[n] = last
                               /\ \A p \in 1 .. n : p # n => cut[p] = held[p]
  <2>1. held \in [1 .. n -> Blocks] /\ n \in 1 .. n
    BY <1>5
  <2>2. [held EXCEPT ![n] = last] \in [1 .. n -> Blocks]
    BY <2>1
  <2>3. [held EXCEPT ![n] = last] \in Seq(Blocks)
    BY <2>2
  <2>4. Len([held EXCEPT ![n] = last]) = n
    BY <2>2
  <2>5. [held EXCEPT ![n] = last][n] = last /\ \A p \in 1 .. n : p # n => [held EXCEPT ![n] = last][p] = held[p]
    BY <2>1
  <2> QED  BY <2>3, <2>4, <2>5
<1>12. Writer!Flush(cut, n)
  <2>1. Len(blocks) = n /\ [blocks EXCEPT ![n].valid = cursor - Writer!Get(blocks[n])] = cut
    BY <1>4, <1>5, <1>9, <1>10, <1>11
  <2>2. Writer!PoisonFlush
    BY DEF Writer!Finish
  <2>3. Writer!Flush([blocks EXCEPT ![Len(blocks)].valid = cursor - Writer!Get(blocks[Len(blocks)])], Len(blocks))
    BY <2>2, <1>22 DEF Writer!PoisonFlush
  <2> QED  BY <2>1, <2>3
<1>13. PICK out \in Seq(Blocks), left \in Seq(Blocks) :
         /\ out = SubSeq(cut, 1, n) /\ left = SubSeq(cut, n + 1, Len(cut))
         /\ Len(out) = n /\ \A p \in 1 .. n : out[p] = cut[p]
  <2>1. n \in 0 .. Len(cut)
    BY <1>11
  <2>2. /\ SubSeq(cut, 1, n) \in Seq(Blocks) /\ Len(SubSeq(cut, 1, n)) = n
        /\ \A p \in 1 .. n : SubSeq(cut, 1, n)[p] = cut[p]
        /\ SubSeq(cut, n + 1, Len(cut)) \in Seq(Blocks)
    BY <2>1, Parts
  <2> QED  BY <2>2
<1>14. PICK line \in Seq(Blocks) : line = going \o out /\ Len(line) = m + n
                               /\ (\A p \in 1 .. m : line[p] = going[p])
                               /\ \A p \in 1 .. n : line[m + p] = cut[p]
  <2>1. /\ going \o out \in Seq(Blocks) /\ Len(going \o out) = Len(going) + Len(out)
        /\ \A p \in 1 .. Len(going) : (going \o out)[p] = going[p]
        /\ \A p \in 1 .. Len(out) : (going \o out)[Len(going) + p] = out[p]
    BY Joins
  <2>2. Len(going) = m /\ Len(out) = n /\ \A p \in 1 .. n : out[p] = cut[p]
    BY <1>5, <1>13
  <2>3. /\ going \o out \in Seq(Blocks) /\ Len(going \o out) = m + n
        /\ \A p \in 1 .. m : (going \o out)[p] = going[p]
    BY <2>1, <2>2
  <2>4. \A p \in 1 .. n : (going \o out)[m + p] = cut[p]
    BY <2>1, <2>2
  <2> QED  BY <2>3, <2>4
<1>15. /\ queue' \in [Queues -> Seq(Blocks)] /\ queue'[1] = line /\ blocks' \in Seq(Blocks)
       /\ state' \in [1 .. 2 -> {"unstarted", "consume", "append", "ready", "hold", "endpoison", "poison", "done"}]
       /\ state'[1] = "endpoison" /\ state'[2] = state[2]
  <2>1. queue' = [queue EXCEPT ![1] = line] /\ blocks' = left
    BY <1>4, <1>12, <1>13, <1>14 DEF Writer!Flush, Writer!Out
  <2> QED  BY <2>1, <1>1, SMTT(30) DEF Types, Queues
<1>16. PICK hand \in Nat : hand = Hand /\ hand = Hand' /\ f = s + hand + m
  <2>1. Hand \in Nat /\ Hand' = Hand
    BY <1>15 DEF Hand
  <2>2. f = s + Hand + m
    BY <1>3, <1>4, <1>5 DEF Ring
  <2> QED  BY <2>1, <2>2
<1>21. f = s + hand + m /\ g = f + n /\ n >= 1
  BY <1>7, <1>16
<1>17. Rest(g)' = rest /\ \A k : Piece(k, g)' = [mem |-> Wrap(k), valid |-> IF k = g THEN rest ELSE B]
  <2>1. Rest(g)' = rest
    <3>1. PICK b \in Nat, w \in Nat : b = before' /\ w = words' /\ b + w = x
      BY <1>1, <1>6 DEF Types
    <3>2. b + w - (g - 1) * B = rest
      <4>1. (g - 1) * B = a /\ rest = x - a
        BY <1>8
      <4>2. b + w = x /\ rest = x - a
        BY <3>1, <4>1
      <4>3. b + w - a = rest
        BY <4>2
      <4> QED  BY <4>1, <4>3
    <3> QED  BY <3>1, <3>2 DEF Rest
  <2> QED  BY <2>1 DEF Piece
<1>18. \A p \in 1 .. m + n : line[p] = Piece(s + hand + p, g)'
  <2> SUFFICES ASSUME NEW p \in 1 .. m + n  PROVE line[p] = Piece(s + hand + p, g)'
    OBVIOUS
  <2>1. CASE p \in 1 .. m
    <3>1. line[p] = Whole(s + hand + p)
      BY <2>1, <1>3, <1>4, <1>5, <1>14, <1>16, ZenonT(30) DEF Ring
    <3>2. s + hand + p # g
      BY <2>1, <1>21
    <3> QED  BY <3>1, <3>2, <1>17 DEF Whole
  <2>2. CASE p \notin 1 .. m
    <3>1. PICK q \in 1 .. n : p = m + q
      <4>1. p - m \in 1 .. n /\ p = m + (p - m)
        BY <2>2
      <4> QED  BY <4>1
    <3>2. line[p] = cut[q] /\ s + hand + p = f + q /\ f + q \in Nat
      BY <3>1, <1>14, <1>21
    <3>3. CASE q = n
      <4>1. f + q = g /\ line[p] = last
        BY <3>2, <3>3, <1>7, <1>11
      <4> QED  BY <4>1, <3>2, <1>10, <1>17
    <3>4. CASE q # n
      <4>1. line[p] = held[q]
        BY <3>2, <3>4, <1>11
      <4>3. f + q # g
        BY <3>4, <1>21
      <4>2. held[q] = Whole(f + q)
        BY <1>3, <1>4, <1>5 DEF Ring
      <4> QED  BY <4>1, <4>2, <4>3, <3>2, <1>17 DEF Whole
    <3> QED  BY <3>3, <3>4
  <2> QED  BY <2>1, <2>2
<1>19. Closed(s, g)'
  <2>1. s + hand <= g /\ g - s - hand = m + n /\ s < g
    BY <1>21
  <2>2. Len(sent') = s * B
    BY <1>1, <1>3 DEF Ring
  <2>3. state'[2] = "hold" => current'[2] = Piece(s + 1, g)'
    <3>1. state[2] = "hold" => current[2] = Whole(s + 1)
      BY <1>3 DEF Ring
    <3>2. state[2] = "hold" => hand = 1
      BY <1>16 DEF Hand
    <3>3. hand = 1 => s + 1 # g
      BY <1>21
    <3> QED  BY <3>1, <3>2, <3>3, <1>1, <1>15, <1>17 DEF Whole
  <2>4. PoisonWaits' = 0 /\ Hand' = hand
    BY <1>15, <1>16 DEF PoisonWaits
  <2>5. Len(queue'[1]) = g - s - hand + 0
    <3>1. g - s - hand + 0 = m + n /\ Len(line) = m + n
      BY <2>1, <1>14
    <3> QED  BY <3>1, <1>15
  <2>6. \A p \in 1 .. g - s - hand : queue'[1][p] = Piece(s + hand + p, g)'
    BY <2>1, <1>15, <1>18
  <2>7. Stored(s, g)'
    <3>1. Written' = x /\ Normal' = x
      BY <1>1, <1>6 DEF Written, Normal
    <3>2. Stored(s, g) /\ s + 1 .. g \subseteq s + 1 .. g /\ memory' = memory
      BY <1>1, <1>3, <1>4, <1>5, <1>7
    <3> QED  BY <3>1, <3>2, <1>6, StoredKept
  <2>8. state'[1] = "endpoison" /\ state'[2] \notin {"poison", "done"}
    BY <1>3, <1>15
  <2>9. 0 <= Rest(g)' /\ Rest(g)' < B
    BY <1>8, <1>17
  <2> QED  BY <2>1, <2>2, <2>3, <2>4, <2>5, <2>6, <2>7, <2>8, <2>9 DEF Closed
<1>20. Types' /\ SentInPlace'
  BY <1>1, <1>15 DEF Types, SentInPlace
<1> QED  BY <1>1, <1>19, <1>20 DEF IInv

\* Then comes the poison.
LEMMA PoisonProduceStep ==
  ASSUME IInv, Writer!PoisonProduce, Outside
  PROVE  IInv'
<1>1. /\ Types /\ SentInPlace /\ state[1] = "endpoison" /\ state' = [state EXCEPT ![1] = "done"]
      /\ UNCHANGED <<current, blocks, it, cursor, blockEnd, marked>>
      /\ UNCHANGED <<doing, context, words, count, before, memory, sent>>
  BY DEF IInv, Writer!PoisonProduce, Writer!Goto, Outside
<1>2. doing = "end"
  BY <1>1 DEF IInv, Open
<1>3. PICK s \in Nat, f \in Nat : Closed(s, f)
  BY <1>2 DEF IInv
<1>4. PICK free \in Seq(Blocks), going \in Seq(Blocks) : free = queue[0] /\ going = queue[1]
  BY <1>1 DEF Types, Queues
<1>5. \E poison \in Blocks : poison.mem = 0 /\ queue'[1] = Append(going, poison)
                          /\ queue' \in [Queues -> Seq(Blocks)]
  <2>1. CASE hitPoison
    <3>1. queue' = [queue EXCEPT ![1] = Append(@, Writer!Poison)]
      BY <2>1 DEF Writer!PoisonProduce, Writer!Out
    <3>2. Writer!Poison \in Blocks /\ Writer!Poison.mem = 0
      BY Sizes DEF Writer!Poison, Writer!NoMemory, Blocks
    <3>3. Append(going, Writer!Poison) \in Seq(Blocks)
      BY <3>2
    <3> QED  BY <3>1, <3>2, <3>3, <1>1, <1>4 DEF Types, Queues
  <2>2. CASE ~hitPoison
    <3> DEFINE poison == Writer!SetToPoison(Head(free))
    <3>1. free # << >> /\ queue' = [queue EXCEPT ![0] = Tail(@), ![1] = Append(@, poison)]
      BY <2>2, <1>4 DEF Writer!PoisonProduce, Writer!Out
    <3>2. Head(free) \in Blocks /\ Tail(free) \in Seq(Blocks)
      BY <3>1
    <3>3. PICK block \in Blocks : block = Head(free)
      BY <3>2
    <3>4. [mem |-> 0, valid |-> block.valid] \in Blocks
      BY Sizes DEF Blocks
    <3>5. poison = [mem |-> 0, valid |-> block.valid]
      BY <3>3, SMTT(30) DEF Writer!SetToPoison, Writer!NoMemory, Blocks
    <3>6. PICK e \in Blocks : e = poison /\ e.mem = 0
      BY <3>4, <3>5
    <3>7. Append(going, e) \in Seq(Blocks)
      OBVIOUS
    <3>8. queue' = [queue EXCEPT ![0] = Tail(free), ![1] = Append(going, e)]
      BY <3>1, <3>6, <1>4
    <3>9. queue'[1] = Append(going, e) /\ queue' \in [Queues -> Seq(Blocks)]
      <4> HIDE DEF poison
      <4>1. PICK tail \in Seq(Blocks), more \in Seq(Blocks) : tail = Tail(free) /\ more = Append(going, e)
        BY <3>2, <3>7
      <4>2. queue' = [queue EXCEPT ![0] = tail, ![1] = more] /\ queue \in [Queues -> Seq(Blocks)]
        BY <3>8, <4>1, <1>1 DEF Types
      <4>3. queue' \in [Queues -> Seq(Blocks)] /\ queue'[1] = more
        BY <4>2 DEF Queues
      <4> QED  BY <4>1, <4>3
    <3> QED  BY <3>6, <3>9
  <2> QED  BY <2>1, <2>2
<1>6. PICK poison \in Blocks : poison.mem = 0 /\ queue'[1] = Append(going, poison)
  BY <1>5
<1>7. PICK m \in Nat, line \in Seq(Blocks) :
        /\ m = Len(going) /\ line = queue'[1] /\ Len(line) = m + 1
        /\ (\A p \in 1 .. m : line[p] = going[p]) /\ line[m + 1] = poison
  <2>1. /\ Append(going, poison) \in Seq(Blocks) /\ Len(Append(going, poison)) = Len(going) + 1
        /\ \A p \in 1 .. Len(going) : Append(going, poison)[p] = going[p]
        /\ Append(going, poison)[Len(going) + 1] = poison /\ Len(going) \in Nat
    BY Ends
  <2> QED  BY <2>1, <1>6
<1>8. /\ state' \in [1 .. 2 -> {"unstarted", "consume", "append", "ready", "hold", "endpoison", "poison", "done"}]
      /\ state'[1] = "done" /\ state'[2] = state[2] /\ state[2] \notin {"poison", "done"}
  BY <1>1, <1>3 DEF Types, Closed
<1>9. PICK hand \in Nat : hand = Hand /\ hand = Hand'
  BY <1>8 DEF Hand
<1>10. PoisonWaits = 0 /\ PoisonWaits' = 1
  BY <1>1, <1>8 DEF PoisonWaits
<1>11. /\ s + hand <= f /\ m = f - s - hand
       /\ \A p \in 1 .. f - s - hand : going[p] = Piece(s + hand + p, f)
  BY <1>3, <1>4, <1>7, <1>9, <1>10 DEF Closed
<1>12. \A k : Piece(k, f)' = Piece(k, f)
  BY <1>1 DEF Piece, Rest
<1>13. Closed(s, f)'
  <2>1. Rest(f)' = Rest(f)
    BY <1>1 DEF Rest
  <2>2. Len(line) = f - s - hand + 1
    BY <1>7, <1>11
  <2>3. \A p \in 1 .. f - s - hand : line[p] = Piece(s + hand + p, f)'
    BY <1>7, <1>11, <1>12
  <2>4. line[Len(line)].mem = 0
    BY <1>6, <1>7
  <2>5. Stored(s, f)'
    BY <1>1, <1>3 DEF Closed, Stored, Normal, Written
  <2>6. state'[2] = "hold" => current'[2] = Piece(s + 1, f)'
    BY <1>1, <1>3, <1>8, <1>12 DEF Closed
  <2>7. /\ 0 <= Rest(f) /\ Rest(f) < B /\ Len(sent') = IF s < f THEN s * B ELSE before' + words'
    BY <1>1, <1>3 DEF Closed
  <2> QED  BY <2>1, <2>2, <2>3, <2>4, <2>5, <2>6, <2>7, <1>7, <1>8, <1>9, <1>10, <1>11 DEF Closed
<1>14. Types' /\ SentInPlace'
  BY <1>1, <1>5, <1>8 DEF Types, SentInPlace
<1> QED  BY <1>1, <1>2, <1>13, <1>14 DEF IInv

------------------------------------------------------------------------------
\* The sink.

Stream ==
  /\ UNCHANGED <<blocks, it, cursor, blockEnd, marked, hitPoison, poisoned>>
  /\ UNCHANGED <<doing, context, words, count, before, memory>>

\* What the invariant says of the stream does not change with the sink.
LEMMA StreamKept ==
  ASSUME Types, Stream, state'[1] = state[1], NEW f \in Nat
  PROVE  /\ At(f) => At(f)'
         /\ Waits(f) => Waits(f)'
         /\ Marked(f) => Marked(f)'
         /\ \A s, g : Stored(s, g) => Stored(s, g)'
         /\ Rest(f)' = Rest(f) /\ \A k : Piece(k, f)' = Piece(k, f)
<1>1. /\ Place' = Place /\ Normal' = Normal /\ Written' = Written
      /\ UNCHANGED <<blocks, it, cursor, blockEnd, marked, hitPoison, poisoned>>
      /\ UNCHANGED <<doing, context, words, count, before, memory>>
  BY DEF Stream, Place, Normal, Written
<1> QED  BY <1>1 DEF At, Waits, Marked, Stored, Rest, Piece

LEMMA OpenKept ==
  ASSUME Types, Stream, state'[1] = state[1], state'[2] \notin {"poison", "done"},
         NEW r \in Nat, NEW s \in Nat, r <= s, NEW f \in Nat, Open(r, f), Ring(s, f)'
  PROVE  Open(s, f)'
<1>1. /\ UNCHANGED <<blocks, it, cursor, blockEnd, marked, hitPoison, poisoned>>
      /\ UNCHANGED <<doing, context, words, count, before, memory>>
  BY DEF Stream
<1>2. /\ At(f) => At(f)'
      /\ Waits(f) => Waits(f)'
      /\ Marked(f) => Marked(f)'
  BY StreamKept
<1>3. Stored(s, f + Len(blocks))'
  <2>1. PICK g : g = f + Len(blocks)
    OBVIOUS
  <2>2. s + 1 .. g \subseteq r + 1 .. g
    OBVIOUS
  <2>3. Stored(r, g) /\ memory' = memory /\ Normal' = Normal /\ Written' = Written /\ Len(blocks') = Len(blocks)
    BY <1>1, <2>1 DEF Open, Normal, Written
  <2>4. Stored(s, g)'
    BY <2>2, <2>3, StoredKept
  <2>5. g' = f + Len(blocks')
    BY <2>1, <2>3
  <2> QED  BY <2>1, <2>4, <2>5
<1>4. state'[1] = "ready" => At(f)'
  BY <1>2 DEF Open
<1>5. state'[1] # "ready" => Waits(f)'
  BY <1>2 DEF Open
<1>6. doing' \in {"write", "normalize"} => Marked(f)'
  BY <1>1, <1>2 DEF Open
<1>7. /\ doing' = "mark" => count' = 0
      /\ ~hitPoison' /\ ~poisoned'
      /\ state'[1] \in {"unstarted", "append", "ready"}
      /\ state'[1] = "unstarted" => doing' = "mark"
  BY <1>1 DEF Open
<1> QED  BY <1>3, <1>4, <1>5, <1>6, <1>7 DEF Open

LEMMA SinkStartStep ==
  ASSUME IInv, Writer!Start(2), Stream, UNCHANGED sent
  PROVE  IInv'
<1>1. /\ Types /\ SentInPlace /\ state[2] = "unstarted" /\ state' = [state EXCEPT ![2] = "consume"]
      /\ UNCHANGED <<queue, current>> /\ UNCHANGED <<blocks, it, cursor, blockEnd, marked, hitPoison, poisoned>>
      /\ UNCHANGED <<doing, context, words, count, before, memory, sent>>
  BY DEF IInv, Writer!Start, Stream
<1>2. /\ state'[1] = state[1] /\ state'[2] = "consume"
      /\ state' \in [1 .. 2 -> {"unstarted", "consume", "append", "ready", "hold", "endpoison", "poison", "done"}]
  BY <1>1 DEF Types
<1>3. Types' /\ SentInPlace'
  BY <1>1, <1>2 DEF Types, SentInPlace
<1>4. Hand' = Hand /\ PoisonWaits' = PoisonWaits
  BY <1>1, <1>2 DEF Hand, PoisonWaits
<1>5. CASE doing # "end"
  <2>1. PICK s \in Nat, f \in Nat : Open(s, f)
    BY <1>5 DEF IInv
  <2>2. Ring(s, f)'
    BY <2>1, <1>1, <1>2, <1>4 DEF Open, Ring
  <2>3. Open(s, f)'
    BY <2>1, <2>2, <1>1, <1>2, OpenKept
  <2> QED  BY <2>3, <1>1, <1>3, <1>5, OpenStays
<1>6. CASE doing = "end"
  <2>1. PICK s \in Nat, f \in Nat : Closed(s, f)
    BY <1>6 DEF IInv
  <2>2. /\ Rest(f)' = Rest(f) /\ \A k : Piece(k, f)' = Piece(k, f)
        /\ \A r, g : Stored(r, g) => Stored(r, g)'
    BY <1>1, <1>2, StreamKept
  <2>3. Closed(s, f)'
    BY <2>1, <2>2, <1>1, <1>2, <1>4 DEF Closed
  <2> QED  BY <2>3, <1>1, <1>3, <1>6 DEF IInv
<1> QED  BY <1>5, <1>6

LEMMA SinkPoisonStep ==
  ASSUME IInv, Writer!PassPoison(2), Stream, UNCHANGED sent
  PROVE  IInv'
<1>1. /\ Types /\ SentInPlace /\ state[2] = "poison" /\ state' = [state EXCEPT ![2] = "done"]
      /\ queue' = [queue EXCEPT ![0] = Append(@, current[2])] /\ UNCHANGED current
      /\ UNCHANGED <<blocks, it, cursor, blockEnd, marked, hitPoison, poisoned>>
      /\ UNCHANGED <<doing, context, words, count, before, memory, sent>>
  BY DEF IInv, Writer!PassPoison, Writer!Out, Stream
<1>2. /\ state'[1] = state[1] /\ state'[2] = "done"
      /\ state' \in [1 .. 2 -> {"unstarted", "consume", "append", "ready", "hold", "endpoison", "poison", "done"}]
  BY <1>1 DEF Types
<1>3. queue' \in [Queues -> Seq(Blocks)] /\ queue'[1] = queue[1]
  <2>1. PICK free \in Seq(Blocks), block \in Blocks : free = queue[0] /\ block = current[2]
    BY <1>1 DEF Types, Queues
  <2>2. Append(free, block) \in Seq(Blocks)
    OBVIOUS
  <2> QED  BY <2>1, <2>2, <1>1 DEF Types, Queues
<1>4. Types' /\ SentInPlace'
  BY <1>1, <1>2, <1>3 DEF Types, SentInPlace
<1>5. doing = "end"
  BY <1>1 DEF IInv, Open
<1>6. PICK s \in Nat, f \in Nat : Closed(s, f)
  BY <1>5 DEF IInv
<1>7. Hand' = Hand /\ PoisonWaits' = PoisonWaits
  BY <1>1, <1>2 DEF Hand, PoisonWaits
<1>8. /\ Rest(f)' = Rest(f) /\ \A k : Piece(k, f)' = Piece(k, f)
      /\ \A r, g : Stored(r, g) => Stored(r, g)'
  BY <1>1, <1>2, StreamKept
<1>9. Closed(s, f)'
  BY <1>1, <1>2, <1>3, <1>6, <1>7, <1>8 DEF Closed
<1> QED  BY <1>1, <1>4, <1>5, <1>9 DEF IInv

LEMMA SinkConsumeStep ==
  ASSUME IInv, Writer!Consume(2), Stream, UNCHANGED sent
  PROVE  IInv'
<1>1. /\ Types /\ SentInPlace /\ state[2] = "consume" /\ queue[1] # << >>
      /\ state' = [state EXCEPT ![2] = IF Head(queue[1]).mem = 0 THEN "poison" ELSE "hold"]
      /\ current' = [current EXCEPT ![2] = Head(queue[1])]
      /\ queue' = [queue EXCEPT ![1] = Tail(@)]
      /\ UNCHANGED <<blocks, it, cursor, blockEnd, marked, hitPoison, poisoned>>
      /\ UNCHANGED <<doing, context, words, count, before, memory, sent>>
  BY DEF IInv, Writer!Consume, Writer!IsPoison, Writer!NoMemory, Stream
<1>2. PICK going \in Seq(Blocks) : going = queue[1] /\ going # << >>
  BY <1>1, SMTT(30) DEF Types, Queues
<1>3. PICK m \in Nat, head \in Blocks, tail \in Seq(Blocks) :
        /\ m = Len(going) /\ m >= 1 /\ head = Head(going) /\ head = going[1]
        /\ tail = Tail(going) /\ Len(tail) = m - 1 /\ \A p \in 1 .. m - 1 : tail[p] = going[p + 1]
  <2>1. /\ Head(going) \in Blocks /\ Head(going) = going[1] /\ Len(going) \in Nat
        /\ Tail(going) \in Seq(Blocks) /\ Len(Tail(going)) = Len(going) - 1 /\ Len(going) >= 1
        /\ \A p \in 1 .. Len(going) - 1 : Tail(going)[p] = going[p + 1]
    BY <1>2, Ends
  <2> QED  BY <2>1, Zenon
<1>4. /\ state'[1] = state[1] /\ state'[2] = IF head.mem = 0 THEN "poison" ELSE "hold"
      /\ state' \in [1 .. 2 -> {"unstarted", "consume", "append", "ready", "hold", "endpoison", "poison", "done"}]
      /\ current' \in [1 .. 2 -> Blocks] /\ current'[2] = head
      /\ queue' \in [Queues -> Seq(Blocks)] /\ queue'[0] = queue[0] /\ queue'[1] = tail
  BY <1>1, <1>2, <1>3 DEF Types, Queues
<1>5. Types' /\ SentInPlace'
  BY <1>1, <1>4 DEF Types, SentInPlace
<1>6. Hand = 0
  BY <1>1 DEF Hand
<1>7. CASE doing # "end"
  <2>1. PICK s \in Nat, f \in Nat : Open(s, f)
    BY <1>7 DEF IInv
  <2>2. f = s + m /\ \A p \in 1 .. m : going[p] = Whole(s + p)
    <3>1. f = s + 0 + m /\ \A p \in 1 .. m : going[p] = Whole(s + 0 + p)
      BY <2>1, <1>2, <1>3, <1>6 DEF Open, Ring
    <3> QED  BY <3>1
  <2>3. head = Whole(s + 1) /\ head.mem # 0
    <3>1. head = Whole(s + 1)
      BY <2>2, <1>3
    <3> QED  BY <3>1, WholeFacts
  <2>4. state'[2] = "hold" /\ Hand' = 1
    BY <2>3, <1>4 DEF Hand
  <2>5. f = s + 1 + Len(tail) /\ \A p \in 1 .. Len(tail) : tail[p] = Whole(s + 1 + p)
    <3>1. f = s + 1 + Len(tail)
      BY <2>2, <1>3
    <3>2. ASSUME NEW p \in 1 .. Len(tail)  PROVE tail[p] = Whole(s + 1 + p)
      <4>1. p + 1 \in 1 .. m /\ s + (p + 1) = s + 1 + p /\ tail[p] = going[p + 1]
        BY <1>3
      <4>2. going[p + 1] = Whole(s + (p + 1))
        BY <4>1, <2>2
      <4> QED  BY <4>1, <4>2
    <3> QED  BY <3>1, <3>2
  <2>6. Ring(s, f)'
    <3>1. f = s + Hand' + Len(queue'[1]) /\ \A p \in 1 .. Len(queue'[1]) : queue'[1][p] = Whole(s + Hand' + p)
      BY <2>4, <2>5, <1>4
    <3>2. state'[2] = "hold" => current'[2] = Whole(s + 1)
      BY <2>3, <1>4
    <3>3. f + Len(blocks') + Len(queue'[0]) = s + N /\ Len(sent') = s * B
      BY <2>1, <1>1, <1>4 DEF Open, Ring
    <3>4. \A p \in 1 .. Len(blocks') : blocks'[p] = Whole(f + p)
      BY <2>1, <1>1 DEF Open, Ring
    <3>5. \A p \in 1 .. Len(queue'[0]) : queue'[0][p] = Whole(f + Len(blocks') + p)
      BY <2>1, <1>1, <1>4 DEF Open, Ring
    <3> QED  BY <3>1, <3>2, <3>3, <3>4, <3>5 DEF Ring
  <2>7. Open(s, f)'
    BY <2>1, <2>4, <2>6, <1>1, <1>4, OpenKept
  <2> QED  BY <2>7, <1>1, <1>5, <1>7, OpenStays
<1>8. CASE doing = "end"
  <2>1. PICK s \in Nat, f \in Nat : Closed(s, f)
    BY <1>8 DEF IInv
  <2>2. /\ Rest(f)' = Rest(f) /\ \A k : Piece(k, f)' = Piece(k, f)
        /\ \A r, g : Stored(r, g) => Stored(r, g)'
    BY <1>1, <1>4, StreamKept
  <2>3. PICK w \in 0 .. 1 : w = PoisonWaits
    BY DEF PoisonWaits
  <2>4. /\ s <= f /\ m = f - s + w
        /\ \A p \in 1 .. f - s : going[p] = Piece(s + p, f)
        /\ w = 1 => going[m].mem = 0
    <3>1. /\ s + 0 <= f /\ m = f - s - 0 + w
          /\ \A p \in 1 .. f - s - 0 : going[p] = Piece(s + 0 + p, f)
          /\ w = 1 => going[m].mem = 0
      BY <2>1, <2>3, <1>2, <1>3, <1>6 DEF Closed
    <3> QED  BY <3>1
  <2>5. CASE s < f
    <3>1. head = Piece(s + 1, f) /\ head.mem # 0
      <4>1. head = Piece(s + 1, f)
        BY <2>4, <2>5, <1>3
      <4> QED  BY <4>1, WrapFacts DEF Piece
    <3>2. state'[2] = "hold" /\ Hand' = 1 /\ PoisonWaits' = w
      BY <3>1, <2>3, <1>1, <1>4 DEF Hand, PoisonWaits
    <3>3. s + 1 <= f /\ Len(tail) = f - s - 1 + w
      BY <2>4, <2>5, <1>3
    <3>4. ASSUME NEW p \in 1 .. f - s - 1  PROVE tail[p] = Piece(s + 1 + p, f)
      <4>1. p + 1 \in 1 .. f - s /\ p \in 1 .. m - 1 /\ s + (p + 1) = s + 1 + p
        BY <2>4
      <4>2. tail[p] = going[p + 1] /\ going[p + 1] = Piece(s + (p + 1), f)
        BY <4>1, <2>4, <1>3
      <4> QED  BY <4>1, <4>2
    <3>5. w = 1 => tail[Len(tail)].mem = 0
      <4>1. w = 1 => Len(tail) \in 1 .. m - 1 /\ Len(tail) + 1 = m
        BY <2>4, <2>5, <1>3
      <4>2. w = 1 => tail[Len(tail)] = going[m]
        BY <4>1, <1>3
      <4> QED  BY <4>2, <2>4
    <3>6. Closed(s, f)'
      <4>1. PICK h \in Nat : h = 1 /\ h = Hand'
        BY <3>2
      <4>2. s + h <= f /\ Len(queue'[1]) = f - s - h + PoisonWaits'
        BY <4>1, <3>2, <3>3, <1>4
      <4>3. \A p \in 1 .. f - s - h : queue'[1][p] = Piece(s + h + p, f)'
        BY <4>1, <3>4, <2>2, <1>4
      <4>4. 0 <= Rest(f)' /\ Rest(f)' < B /\ Len(sent') = IF s < f THEN s * B ELSE before' + words'
        BY <2>1, <2>2, <1>1 DEF Closed
      <4>5. Stored(s, f)' /\ state'[1] \in {"endpoison", "done"}
        BY <2>1, <2>2, <1>4 DEF Closed
      <4>6. state'[2] = "hold" => current'[2] = Piece(s + 1, f)'
        BY <3>1, <2>2, <1>4
      <4>7. PoisonWaits' = 1 => queue'[1][Len(queue'[1])].mem = 0
        BY <3>2, <3>5, <1>4
      <4>8. state'[2] \notin {"poison", "done"}
        BY <3>2
      <4> QED  BY <4>1, <4>2, <4>3, <4>4, <4>5, <4>6, <4>7, <4>8 DEF Closed
    <3> QED  BY <3>6, <1>1, <1>5, <1>8 DEF IInv
  <2>6. CASE s = f
    <3>1. w = 1 /\ m = 1 /\ head.mem = 0
      BY <2>4, <2>6, <1>3
    <3>2. state'[2] = "poison" /\ Hand' = 0 /\ PoisonWaits' = 0 /\ state'[1] = "done" /\ Len(tail) = 0
      BY <3>1, <2>3, <1>3, <1>4 DEF Hand, PoisonWaits
    <3>3. Closed(s, f)'
      <4>1. f - s - 0 = 0 /\ s + 0 <= f
        BY <2>6
      <4>8. PICK h \in Nat : h = 0 /\ h = Hand'
        BY <3>2
      <4>2. Len(queue'[1]) = f - s - h + PoisonWaits' /\ s + h <= f
        BY <4>1, <4>8, <3>2, <1>4
      <4>3. \A p \in 1 .. f - s - h : queue'[1][p] = Piece(s + h + p, f)'
        BY <4>1, <4>8
      <4>4. 0 <= Rest(f)' /\ Rest(f)' < B /\ Len(sent') = IF s < f THEN s * B ELSE before' + words'
        BY <2>1, <2>2, <1>1 DEF Closed
      <4>5. Stored(s, f)'
        BY <2>1, <2>2 DEF Closed
      <4>6. /\ state'[2] # "hold" /\ PoisonWaits' # 1
            /\ state'[1] = "done" /\ state'[1] \in {"endpoison", "done"}
        BY <3>2
      <4>7. state'[2] \in {"poison", "done"} => state'[1] = "done" /\ s = f
        BY <4>6, <2>6
      <4> QED  BY <4>2, <4>3, <4>4, <4>5, <4>6, <4>7, <4>8 DEF Closed
    <3> QED  BY <3>3, <1>1, <1>5, <1>8 DEF IInv
  <2> QED  BY <2>4, <2>5, <2>6
<1> QED  BY <1>7, <1>8
\* No block that leaves the stream holds a record that is not normalised.
LEMMA LeavesNormal ==
  ASSUME Types, NEW s \in Nat, NEW f \in Nat, Open(s, f)
  PROVE  f * B <= Normal /\ Normal \in Nat /\ Normal <= before + words
<1>1. PICK b \in Nat, w \in Nat, c \in Nat : b = before /\ w = words /\ c = count /\ c <= w
  BY DEF Types
<1>2. B \in Nat /\ f * B \in Nat
  BY Sizes, Times
<1>3. Normal \in Nat /\ b <= Normal /\ Normal <= b + w
  BY <1>1 DEF Normal
<1>4. CASE doing \in {"write", "normalize"}
  BY <1>1, <1>2, <1>3, <1>4 DEF Open, Marked
<1>5. CASE doing \notin {"write", "normalize"}
  <2>1. Place = Normal
    BY <1>5 DEF Place, Normal
  <2>2. it \in Nat /\ (f + it) * B <= Place
    <3>1. it \in Nat /\ (f + it) * B \in Int
      BY <1>2, Times DEF Types
    <3> QED  BY <3>1, <2>1, <1>3 DEF Open, At, Waits
  <2>3. f * B <= (f + it) * B /\ (f + it) * B \in Int
    BY <2>2, <1>2, Times
  <2> QED  BY <2>1, <2>2, <2>3, <1>1, <1>2, <1>3
<1> QED  BY <1>4, <1>5, <1>1, <1>3

\* What the sink writes of its block.
Sends(v) == sent' = sent \o [k \in 1 .. v |-> memory[Writer!Get(current[2]) + k - 1]]

LEMMA SentMore ==
  ASSUME Types, SentInPlace, NEW s \in Nat, NEW v \in 0 .. B, Len(sent) = s * B,
         current[2].mem = Wrap(s + 1), Sends(v),
         \A j \in 1 .. v : memory[Cell(s + 1, j)] = Number(s + 1, j)
  PROVE  sent' \in Seq(Int) /\ Len(sent') = s * B + v /\ SentInPlace'
<1>1. PICK n \in Nat : n = s * B
  BY Sizes, Times
<1>2. PICK sink \in Seq(Int) : sink = sent /\ Len(sink) = n /\ \A k \in 1 .. n : sink[k] = k
  BY <1>1, SMTT(30) DEF Types, SentInPlace
<1>3. B \in Nat /\ v \in Nat
  BY Sizes
<1>4. \A j \in 1 .. v : memory[Writer!Get(current[2]) + j - 1] = n + j
  <2> SUFFICES ASSUME NEW j \in 1 .. v  PROVE memory[Writer!Get(current[2]) + j - 1] = n + j
    OBVIOUS
  <2>1. PICK a \in Int : a = (Wrap(s + 1) - 1) * B
    <3>1. s + 1 \in Nat \ {0} /\ j \in 1 .. B
      BY <1>3
    <3>2. (Wrap(s + 1) - 1) * B \in Nat
      BY <3>1, CellFacts
    <3> QED  BY <3>2
  <2>2. Writer!Get(current[2]) = a + 1
    BY <2>1 DEF Writer!Get, B
  <2>3. Cell(s + 1, j) = a + j
    BY <2>1 DEF Cell
  <2>4. a + 1 + j - 1 = a + j
    OBVIOUS
  <2>5. Number(s + 1, j) = n + j
    <3>1. s + 1 - 1 = s
      OBVIOUS
    <3> QED  BY <3>1, <1>1 DEF Number
  <2> QED  BY <2>2, <2>3, <2>4, <2>5
<1>5. PICK more \in Seq(Int) : /\ more = [k \in 1 .. v |-> memory[Writer!Get(current[2]) + k - 1]]
                              /\ Len(more) = v /\ \A j \in 1 .. v : more[j] = n + j
  <2> DEFINE more == [k \in 1 .. v |-> memory[Writer!Get(current[2]) + k - 1]]
  <2>1. \A j \in 1 .. v : more[j] = n + j
    BY <1>4
  <2>2. \A j \in 1 .. v : more[j] \in Int
    BY <2>1
  <2>3. more \in Seq(Int) /\ Len(more) = v
    BY <2>2, <1>3
  <2> QED  BY <2>1, <2>3
<1>6. sent' = sink \o more
  BY <1>2, <1>5 DEF Sends
<1>7. /\ sink \o more \in Seq(Int) /\ Len(sink \o more) = n + v
      /\ \A k \in 1 .. n : (sink \o more)[k] = k
      /\ \A j \in 1 .. v : (sink \o more)[n + j] = n + j
  <2>1. /\ sink \o more \in Seq(Int) /\ Len(sink \o more) = Len(sink) + Len(more)
        /\ \A p \in 1 .. Len(sink) : (sink \o more)[p] = sink[p]
        /\ \A p \in 1 .. Len(more) : (sink \o more)[Len(sink) + p] = more[p]
    BY Joins
  <2>2. Len(sink) = n /\ Len(more) = v
    BY <1>2, <1>5
  <2> QED  BY <2>1, <2>2, <1>2, <1>5
<1>8. \A k \in 1 .. n + v : (sink \o more)[k] = k
  <2> SUFFICES ASSUME NEW k \in 1 .. n + v, k \notin 1 .. n  PROVE (sink \o more)[k] = k
    BY <1>7
  <2>1. k - n \in 1 .. v /\ n + (k - n) = k
    BY <1>3
  <2> QED  BY <2>1, <1>7
<1>9. PICK line \in Seq(Int) : line = sink \o more /\ Len(line) = n + v /\ \A k \in 1 .. n + v : line[k] = k
  BY <1>7, <1>8
<1>10. sent' \in Seq(Int) /\ Len(sent') = n + v /\ \A k \in DOMAIN sent' : sent'[k] = k
  BY <1>6, <1>9, SMTT(30)
<1> QED  BY <1>1, <1>10 DEF SentInPlace

LEMMA SinkWriteStep ==
  ASSUME IInv, Writer!WriteBlock
  PROVE  IInv'
<1>1. /\ Types /\ SentInPlace /\ state[2] = "hold" /\ state' = [state EXCEPT ![2] = "consume"]
      /\ queue' = [queue EXCEPT ![0] = Append(@, [current[2] EXCEPT !.valid = B])] /\ UNCHANGED current
      /\ UNCHANGED <<blocks, it, cursor, blockEnd, marked, hitPoison, poisoned>>
      /\ UNCHANGED <<doing, context, words, count, before, memory>>
      /\ Sends(current[2].valid) /\ Stream
  BY DEF IInv, Writer!WriteBlock, Writer!Pass, Writer!Sink, Writer!Out, Writer!svars, Sends, Stream, B
<1>2. PICK block \in Blocks, free \in Seq(Blocks), back \in Blocks :
        block = current[2] /\ free = queue[0] /\ back = [mem |-> block.mem, valid |-> B]
  <2>1. PICK block \in Blocks, free \in Seq(Blocks) : block = current[2] /\ free = queue[0]
    BY <1>1 DEF Types, Queues
  <2>2. [mem |-> block.mem, valid |-> B] \in Blocks
    BY Sizes DEF Blocks
  <2> QED  BY <2>1, <2>2
<1>3. PICK a \in Nat, more \in Seq(Blocks) :
        /\ a = Len(free) /\ more = Append(free, back) /\ Len(more) = a + 1 /\ more[a + 1] = back
        /\ \A p \in 1 .. a : more[p] = free[p]
  <2>1. /\ Append(free, back) \in Seq(Blocks) /\ Len(Append(free, back)) = Len(free) + 1
        /\ \A p \in 1 .. Len(free) : Append(free, back)[p] = free[p]
        /\ Append(free, back)[Len(free) + 1] = back /\ Len(free) \in Nat
    BY Ends
  <2> QED  BY <2>1
<1>4. queue' \in [Queues -> Seq(Blocks)] /\ queue'[0] = more /\ queue'[1] = queue[1]
  <2>1. [current[2] EXCEPT !.valid = B] = back
    BY <1>2 DEF Blocks
  <2>2. queue' = [queue EXCEPT ![0] = more]
    BY <2>1, <1>1, <1>2, <1>3
  <2> QED  BY <2>2, <1>1 DEF Types, Queues
<1>5. /\ state'[1] = state[1] /\ state'[2] = "consume"
      /\ state' \in [1 .. 2 -> {"unstarted", "consume", "append", "ready", "hold", "endpoison", "poison", "done"}]
  BY <1>1 DEF Types
<1>6. Hand = 1 /\ Hand' = 0 /\ PoisonWaits' = PoisonWaits
  BY <1>1, <1>5 DEF Hand, PoisonWaits
<1>7. sent' \in Seq(Int) => Types'
  BY <1>1, <1>4, <1>5 DEF Types
<1>8. B \in Nat /\ B >= 1 /\ \A s \in Nat : s * B \in Nat /\ (s + 1) * B = s * B + B
  BY Sizes, Times
<1>11. PICK ring \in Nat : ring = N
  BY Sizes
<1>9. CASE doing # "end"
  <2>1. PICK s \in Nat, f \in Nat : Open(s, f)
    BY <1>9 DEF IInv
  <2>2. block = Whole(s + 1) /\ block.mem = Wrap(s + 1) /\ block.valid = B
    <3>1. block = Whole(s + 1)
      BY <2>1, <1>1, <1>2 DEF Open, Ring
    <3> QED  BY <3>1 DEF Whole
  <2>12. PICK going \in Seq(Blocks), held \in Seq(Blocks) : going = queue[1] /\ held = blocks
    BY <1>1 DEF Types, Queues
  <2>3. PICK m \in Nat, n \in Nat : m = Len(going) /\ n = Len(held)
    OBVIOUS
  <2>13. f = s + 1 + m /\ f + n + a = s + ring
    <3>1. PICK h \in Nat : h = 1 /\ h = Hand
      BY <1>6
    <3>2. f = s + h + m /\ f + n + a = s + N
      BY <3>1, <2>1, <2>3, <2>12, <1>2, <1>3 DEF Open, Ring
    <3> QED  BY <3>1, <3>2, <1>11
  <2>14. \A p \in 1 .. m : going[p] = Whole(s + 1 + p)
    <3>1. PICK h \in Nat : h = 1 /\ h = Hand
      BY <1>6
    <3>2. \A p \in 1 .. m : going[p] = Whole(s + h + p)
      BY <3>1, <2>1, <2>3, <2>12 DEF Open, Ring
    <3> QED  BY <3>1, <3>2
  <2>4. \A j \in 1 .. B : memory[Cell(s + 1, j)] = Number(s + 1, j)
    <3> SUFFICES ASSUME NEW j \in 1 .. B  PROVE memory[Cell(s + 1, j)] = Number(s + 1, j)
      OBVIOUS
    <3>1. f * B <= Normal /\ Normal \in Nat
      BY <2>1, <1>1, LeavesNormal
    <3>2. (s + 1) * B <= f * B /\ f * B \in Nat
      <4>1. s + 1 \in Int /\ f \in Int /\ s + 1 <= f
        BY <2>13
      <4> QED  BY <4>1, <1>8, Times
    <3>3. Number(s + 1, j) <= Normal
      <4>1. s + 1 - 1 = s
        OBVIOUS
      <4> QED  BY <4>1, <3>1, <3>2, <1>8 DEF Number
    <3>4. s + 1 \in s + 1 .. f + Len(blocks) /\ j \in 1 .. B
      <4>1. s + 1 \in s + 1 .. f + n
        BY <2>13
      <4> QED  BY <4>1, <2>3, <2>12
    <3>5. Stored(s, f + Len(blocks))
      BY <2>1 DEF Open
    <3> QED  BY <3>3, <3>4, <3>5 DEF Stored
  <2>5. sent' \in Seq(Int) /\ Len(sent') = s * B + B /\ SentInPlace'
    <3>1. Len(sent) = s * B
      BY <2>1 DEF Open, Ring
    <3>2. B \in 0 .. B
      BY <1>8
    <3>3. Sends(B) /\ current[2].mem = Wrap(s + 1)
      BY <2>2, <1>1, <1>2
    <3> QED  BY <3>1, <3>2, <3>3, <2>4, <1>1, SentMore
  <2>6. Ring(s + 1, f)'
    <3>7. PICK h \in Nat : h = 0 /\ h = Hand'
      BY <1>6
    <3>1. f = s + 1 + h + Len(queue'[1])
      <4>1. f = s + 1 + h + m
        BY <3>7, <2>13
      <4> QED  BY <4>1, <2>3, <2>12, <1>4
    <3>2. f + Len(blocks') + Len(queue'[0]) = s + 1 + N
      <4>1. f + n + (a + 1) = s + 1 + ring
        BY <2>13
      <4> QED  BY <4>1, <2>3, <2>12, <1>1, <1>3, <1>4, <1>11
    <3>3. \A p \in 1 .. Len(queue'[1]) : queue'[1][p] = Whole(s + 1 + h + p)
      <4>1. s + 1 + h = s + 1
        BY <3>7
      <4> QED  BY <4>1, <2>3, <2>12, <2>14, <1>4
    <3>4. \A p \in 1 .. Len(blocks') : blocks'[p] = Whole(f + p)
      BY <2>1, <1>1 DEF Open, Ring
    <3>5. \A p \in 1 .. Len(queue'[0]) : queue'[0][p] = Whole(f + Len(blocks') + p)
      <4>1. \A p \in 1 .. a : more[p] = Whole(f + n + p)
        BY <2>1, <2>3, <2>12, <1>2, <1>3 DEF Open, Ring
      <4>2. more[a + 1] = Whole(f + n + (a + 1))
        <5>1. f + n + (a + 1) = s + 1 + N
          <6>1. f + n + (a + 1) = s + 1 + ring
            BY <2>13
          <6> QED  BY <6>1, <1>11
        <5>2. Whole(s + 1 + N) = Whole(s + 1)
          BY WholeFacts
        <5>3. back = Whole(s + 1)
          BY <2>2, <1>2 DEF Whole
        <5> QED  BY <5>1, <5>2, <5>3, <1>3
      <4>3. ASSUME NEW p \in 1 .. a + 1  PROVE more[p] = Whole(f + n + p)
        <5>1. p \in 1 .. a \/ p = a + 1
          BY <1>3
        <5> QED  BY <5>1, <4>1, <4>2
      <4> QED  BY <4>3, <2>3, <2>12, <1>1, <1>3, <1>4
    <3>6. Len(sent') = (s + 1) * B
      BY <2>5, <1>8
    <3> QED  BY <3>1, <3>2, <3>3, <3>4, <3>5, <3>6, <3>7, <1>5 DEF Ring
  <2>7. Open(s + 1, f)'
    BY <2>1, <2>6, <1>1, <1>5, OpenKept
  <2> QED  BY <2>5, <2>7, <1>1, <1>7, <1>9, OpenStays
<1>10. CASE doing = "end"
  <2>1. PICK s \in Nat, f \in Nat : Closed(s, f)
    BY <1>10 DEF IInv
  <2>2. /\ Rest(f)' = Rest(f) /\ \A k : Piece(k, f)' = Piece(k, f)
    BY <1>1, <1>5, StreamKept
  <2>11. PICK past \in Int : past = (f - 1) * B
    <3>1. f - 1 \in Int
      OBVIOUS
    <3> QED  BY <3>1, <1>8, Times
  <2>12. PICK x \in Nat, b \in Nat, c \in Nat : x = before + words /\ b = before /\ c = words
    BY <1>1 DEF Types
  <2>13. PICK r \in Int : r = Rest(f) /\ r = x - past
    <3>1. Rest(f) = x - past
      BY <2>11, <2>12 DEF Rest
    <3> QED  BY <3>1
  <2>14. 0 <= r /\ r < B
    BY <2>1, <2>13 DEF Closed
  <2>3. PICK going \in Seq(Blocks), w \in 0 .. 1 : going = queue[1] /\ w = PoisonWaits
    <3>1. PICK going \in Seq(Blocks) : going = queue[1]
      BY <1>1 DEF Types, Queues
    <3> QED  BY <3>1 DEF PoisonWaits
  <2>4. /\ s + 1 <= f /\ Len(going) = f - s - 1 + w
        /\ \A p \in 1 .. f - s - 1 : going[p] = Piece(s + 1 + p, f)
        /\ w = 1 => going[Len(going)].mem = 0
        /\ Len(sent) = s * B
    <3>1. s + 1 <= f
      BY <2>1, <1>6 DEF Closed
    <3>2. s < f
      BY <3>1
    <3> QED  BY <3>1, <3>2, <2>1, <2>3, <1>6 DEF Closed
  <2>5. block = Piece(s + 1, f) /\ block.mem = Wrap(s + 1) /\ block.valid = IF s + 1 = f THEN r ELSE B
    <3>1. block = Piece(s + 1, f)
      BY <2>1, <1>1, <1>2 DEF Closed
    <3> QED  BY <3>1, <2>13 DEF Piece
  <2>6. PICK v \in 0 .. B : v = block.valid
    BY <2>5, <2>13, <2>14, <1>8
  <2>7. s * B + v <= x /\ (s + 1 = f => s * B + v = x)
    <3>1. PICK base \in Nat : base = s * B
      BY <1>8
    <3>2. CASE s + 1 = f
      <4>1. f - 1 = s
        BY <3>2
      <4>2. past = base
        BY <4>1, <3>1, <2>11
      <4>3. v = r
        BY <3>2, <2>5, <2>6
      <4>4. base + v = x
        BY <4>2, <4>3, <2>13
      <4> QED  BY <4>4, <3>1
    <3>3. CASE s + 1 # f
      <4>1. s < f - 1 /\ f - 1 \in Int /\ s \in Int
        BY <3>3, <2>4
      <4>2. base + B <= past
        BY <4>1, <3>1, <2>11, <1>8, Times
      <4>3. v = B
        BY <3>3, <2>5, <2>6
      <4>4. past <= x
        BY <2>13, <2>14, <1>8
      <4> QED  BY <4>2, <4>3, <4>4, <3>1, <3>3, <1>8
    <3> QED  BY <3>2, <3>3
  <2>8. \A j \in 1 .. v : memory[Cell(s + 1, j)] = Number(s + 1, j)
    <3> SUFFICES ASSUME NEW j \in 1 .. v  PROVE memory[Cell(s + 1, j)] = Number(s + 1, j)
      OBVIOUS
    <3>1. Normal = x
      BY <1>10, <2>12 DEF Normal
    <3>2. Number(s + 1, j) <= Normal
      <4>1. s + 1 - 1 = s
        OBVIOUS
      <4> QED  BY <4>1, <3>1, <2>7, <1>8 DEF Number
    <3>3. s + 1 \in s + 1 .. f /\ j \in 1 .. B
      BY <2>4, <1>8
    <3>4. Stored(s, f)
      BY <2>1 DEF Closed
    <3> QED  BY <3>2, <3>3, <3>4 DEF Stored
  <2>9. sent' \in Seq(Int) /\ Len(sent') = s * B + v /\ SentInPlace'
    <3>1. Sends(v) /\ current[2].mem = Wrap(s + 1)
      BY <2>5, <2>6, <1>1, <1>2
    <3> QED  BY <3>1, <2>4, <2>8, <1>1, SentMore
  <2>10. Closed(s + 1, f)'
    <3>8. PICK h \in Nat : h = 0 /\ h = Hand'
      BY <1>6
    <3>1. s + 1 + h <= f /\ f - (s + 1) - h = f - s - 1
      BY <3>8, <2>4
    <3>2. Len(queue'[1]) = f - (s + 1) - h + PoisonWaits'
      BY <3>1, <2>3, <2>4, <1>4, <1>6
    <3>3. \A p \in 1 .. f - (s + 1) - h : queue'[1][p] = Piece(s + 1 + h + p, f)'
      BY <3>1, <3>8, <2>2, <2>3, <2>4, <1>4
    <3>4. PoisonWaits' = 1 => queue'[1][Len(queue'[1])].mem = 0
      BY <2>3, <2>4, <1>4, <1>6
    <3>5. Len(sent') = IF s + 1 < f THEN (s + 1) * B ELSE before' + words'
      <4>1. CASE s + 1 < f
        <5>1. s + 1 # f
          BY <4>1
        <5>2. v = B
          BY <5>1, <2>5, <2>6
        <5> QED  BY <4>1, <5>2, <2>9, <1>8
      <4>2. CASE ~(s + 1 < f)
        <5>1. s + 1 = f
          BY <4>2, <2>4
        <5> QED  BY <4>2, <5>1, <2>7, <2>9, <2>12, <1>1
      <4> QED  BY <4>1, <4>2
    <3>6. Stored(s + 1, f)'
      <4>1. Stored(s, f) /\ s + 1 + 1 .. f \subseteq s + 1 .. f
        BY <2>1 DEF Closed
      <4>2. memory' = memory /\ Normal' = Normal /\ Written' = Written
        BY <1>1 DEF Normal, Written
      <4> QED  BY <4>1, <4>2, StoredKept
    <3>7. 0 <= Rest(f)' /\ Rest(f)' < B /\ state'[1] \in {"endpoison", "done"}
      BY <2>1, <2>2, <1>5 DEF Closed
    <3> QED  BY <3>1, <3>2, <3>3, <3>4, <3>5, <3>6, <3>7, <3>8, <1>5 DEF Closed
  <2> QED  BY <2>9, <2>10, <1>1, <1>7, <1>10 DEF IInv
<1> QED  BY <1>9, <1>10

------------------------------------------------------------------------------
\* The whole.

LEMMA Populates ==
  \A p \in 1 .. N : Writer!Populated[p] = Whole(p)
<1> SUFFICES ASSUME NEW p \in 1 .. N  PROVE Writer!Populated[p] = Whole(p)
  OBVIOUS
<1>1. N \in Nat /\ N \in Nat \ {0} /\ p - 1 \in Nat /\ p - 1 \in 0 .. N - 1
  BY Sizes
<1>2. (p - 1) % N = p - 1
  BY <1>1
<1>3. Wrap(p) = p
  BY <1>2, <1>1 DEF Wrap
<1> QED  BY <1>3 DEF Writer!Populated, Writer!FullBlock, Whole, N, B

LEMMA WriterInitStep ==
  ASSUME Writer!Init
  PROVE  IInv
<1>1. /\ queue = [i \in 0 .. 1 |-> IF i = 0 THEN Writer!Populated ELSE << >>]
      /\ current = [i \in 1 .. 2 |-> Writer!Poison] /\ state = [i \in 1 .. 2 |-> "unstarted"]
      /\ blocks = << >> /\ it = 0 /\ cursor = 0 /\ blockEnd = 0 /\ marked = 0
      /\ hitPoison = FALSE /\ poisoned = FALSE
      /\ doing = "mark" /\ context = 1 /\ words \in 1 .. Vocabulary /\ count = 0 /\ before = 0
      /\ memory = [a \in 1 .. N * B |-> 0] /\ sent = << >>
  BY DEF Writer!Init, Writer!LinkInit, Writer!StreamInit, Writer!Null, N, B
<1>2. PICK ring \in Nat, places \in Nat : ring = N /\ places = N * B
  <2>1. N \in Nat /\ N * B \in Nat
    BY Sizes, Times
  <2> QED  BY <2>1
<1>3. \A p \in 1 .. ring : Writer!Populated[p] = Whole(p) /\ Whole(p) \in Blocks
  <2> SUFFICES ASSUME NEW p \in 1 .. ring  PROVE Writer!Populated[p] = Whole(p) /\ Whole(p) \in Blocks
    OBVIOUS
  <2>1. p \in 1 .. N /\ p \in Nat \ {0}
    BY <1>2
  <2> QED  BY <2>1, Populates, WholeFacts
<1>4. PICK free \in Seq(Blocks) : free = Writer!Populated /\ Len(free) = ring
  <2>1. Writer!Populated = [b \in 1 .. ring |-> Writer!Populated[b]]
    BY <1>2 DEF Writer!Populated, N
  <2>2. Writer!Populated \in Seq(Blocks) /\ Len(Writer!Populated) = ring
    <3> HIDE DEF Writer!Populated
    <3>1. \A b \in 1 .. ring : Writer!Populated[b] \in Blocks
      BY <1>3
    <3>2. Writer!Populated \in [1 .. ring -> Blocks]
      BY <2>1, <3>1
    <3> QED  BY <3>2
  <2> QED  BY <2>2
<1>5. queue \in [Queues -> Seq(Blocks)] /\ queue[0] = free /\ queue[1] = << >>
  <2>1. << >> \in Seq(Blocks)
    OBVIOUS
  <2> QED  BY <2>1, <1>1, <1>4 DEF Queues
<1>6. Writer!Poison \in Blocks
  BY Sizes DEF Writer!Poison, Writer!NoMemory, Blocks
<1>7. Types
  <2>1. words \in 1 .. Vocabulary /\ count \in 0 .. words /\ Vocabulary \in Nat
    BY <1>1, Sizes
  <2>2. state \in [1 .. 2 -> {"unstarted", "consume", "append", "ready", "hold", "endpoison", "poison", "done"}]
        /\ state[1] = "unstarted" /\ state[2] = "unstarted"
    BY <1>1
  <2>3. current \in [1 .. 2 -> Blocks]
    BY <1>1, <1>6
  <2>4. memory \in [1 .. N * B -> Int]
    BY <1>1
  <2>5. sent \in Seq(Int) /\ blocks \in Seq(Blocks)
    BY <1>1
  <2> QED  BY <2>1, <2>2, <2>3, <2>4, <2>5, <1>1, <1>5 DEF Types
<1>8. SentInPlace
  BY <1>1 DEF SentInPlace
<1>9. Hand = 0 /\ state[1] = "unstarted" /\ state[2] = "unstarted"
  BY <1>1 DEF Hand
<1>10. Ring(0, 0)
  <2>1. 0 = 0 + Hand + Len(queue[1])
    BY <1>5, <1>9
  <2>2. 0 + Len(blocks) + Len(queue[0]) = 0 + N
    <3>1. 0 + 0 + ring = 0 + ring
      OBVIOUS
    <3> QED  BY <3>1, <1>1, <1>2, <1>4, <1>5
  <2>3. Len(queue[1]) = 0 /\ Len(blocks) = 0 /\ Len(sent) = 0 /\ 0 * B = 0
    BY <1>1, <1>5, Sizes
  <2>4. \A p \in 1 .. Len(queue[0]) : queue[0][p] = Whole(0 + Len(blocks) + p)
    <3>1. \A p \in 1 .. ring : free[p] = Whole(p) /\ 0 + 0 + p = p
      BY <1>3, <1>4
    <3> QED  BY <3>1, <2>3, <1>4, <1>5
  <2> QED  BY <2>1, <2>2, <2>3, <2>4, <1>9 DEF Ring
<1>11. Stored(0, 0 + Len(blocks))
  <2>1. Len(blocks) = 0 /\ 0 + 1 .. 0 + 0 = {}
    BY <1>1
  <2> QED  BY <2>1 DEF Stored
<1>12. Waits(0)
  <2>1. Place = 0 /\ Len(blocks) = 0 /\ (0 + 0) * B = 0
    BY <1>1, Sizes DEF Place
  <2> QED  BY <2>1, <1>1 DEF Waits
<1>13. Open(0, 0)
  BY <1>1, <1>9, <1>10, <1>11, <1>12 DEF Open
<1>14. 0 \in Nat /\ doing # "end"
  BY <1>1
<1> QED  BY <1>7, <1>8, <1>13, <1>14 DEF IInv

LEMMA WriterUnchanged ==
  ASSUME IInv, UNCHANGED Writer!vars
  PROVE  IInv'
<1>1. /\ UNCHANGED <<queue, current, state, blocks, it, cursor, blockEnd, marked, hitPoison, poisoned>>
      /\ UNCHANGED <<doing, context, words, count, before, memory, sent>>
  BY DEF Writer!vars, Writer!lvars, Writer!svars
<1>2. Stream /\ UNCHANGED sent /\ Types' /\ SentInPlace'
  BY <1>1 DEF Stream, IInv, Types, SentInPlace
<1>3. Types /\ Hand' = Hand /\ PoisonWaits' = PoisonWaits
  BY <1>1 DEF IInv, Hand, PoisonWaits
<1>4. CASE doing # "end"
  <2>1. PICK s \in Nat, f \in Nat : Open(s, f)
    BY <1>4 DEF IInv
  <2>2. Ring(s, f)'
    BY <2>1, <1>1, RingKept DEF Open
  <2>3. Open(s, f)'
    <3>1. state'[1] = state[1] /\ state'[2] \notin {"poison", "done"} /\ s <= s
      BY <2>1, <1>1 DEF Open
    <3> QED  BY <3>1, <2>1, <2>2, <1>2, <1>3, OpenKept
  <2> QED  BY <2>3, <1>1, <1>2, <1>4, OpenStays
<1>5. CASE doing = "end"
  <2>1. PICK s \in Nat, f \in Nat : Closed(s, f)
    BY <1>5 DEF IInv
  <2>2. /\ Rest(f)' = Rest(f) /\ \A k : Piece(k, f)' = Piece(k, f)
        /\ \A r, g : Stored(r, g) => Stored(r, g)'
    BY <1>1, <1>2, <1>3, StreamKept
  <2>3. Closed(s, f)'
    BY <2>1, <2>2, <1>1, <1>3 DEF Closed
  <2> QED  BY <2>3, <1>1, <1>2, <1>5 DEF IInv
<1> QED  BY <1>4, <1>5

LEMMA WriterStep ==
  ASSUME IInv, Writer!Next
  PROVE  IInv'
<1>1. CASE Writer!Client
  <2>1. CASE Writer!MarkContext
    BY <2>1, MarkContextStep
  <2>2. CASE Writer!WriteRecord
    BY <2>2, WriteRecordStep
  <2>3. CASE Writer!RewindContext
    BY <2>3, RewindContextStep
  <2>4. CASE Writer!NormalizeRecord
    BY <2>4, NormalizeRecordStep
  <2>5. CASE Writer!ReleaseContext
    BY <2>5, ReleaseContextStep
  <2>6. CASE Writer!Finish
    BY <2>6, FinishStep
  <2>7. CASE Writer!StreamThread /\ Outside
    <3>1. CASE Writer!StreamStart
      BY <2>7, <3>1, StreamStartStep
    <3>2. CASE Writer!AppendConsume
      BY <2>7, <3>2, AppendConsumeStep
    <3>3. CASE Writer!PoisonProduce
      BY <2>7, <3>3, PoisonProduceStep
    <3> QED  BY <2>7, <3>1, <3>2, <3>3 DEF Writer!StreamThread
  <2> QED  BY <1>1, <2>1, <2>2, <2>3, <2>4, <2>5, <2>6, <2>7 DEF Writer!Client, Outside
<1>2. CASE Writer!SinkThread
  <2>1. CASE Writer!WriteBlock
    BY <2>1, SinkWriteStep
  <2>2. CASE ~Writer!WriteBlock
    <3>1. Stream /\ UNCHANGED sent /\ (Writer!Start(2) \/ Writer!Consume(2) \/ Writer!PassPoison(2))
      BY <1>2, <2>2 DEF Writer!SinkThread, Writer!Sink, Writer!svars, Stream
    <3>2. CASE Writer!Start(2)
      BY <3>1, <3>2, SinkStartStep
    <3>3. CASE Writer!Consume(2)
      BY <3>1, <3>3, SinkConsumeStep
    <3>4. CASE Writer!PassPoison(2)
      BY <3>1, <3>4, SinkPoisonStep
    <3> QED  BY <3>1, <3>2, <3>3, <3>4
  <2> QED  BY <2>1, <2>2
<1>3. CASE Writer!Finished
  <2>1. UNCHANGED Writer!vars
    BY <1>3 DEF Writer!Finished
  <2> QED  BY <2>1, WriterUnchanged
<1> QED  BY <1>1, <1>2, <1>3 DEF Writer!Next

\* What is to be shown of the writer holds of the reader in that it is none.
Shown == client \in {"reader", "writer"} /\ (client = "writer" => IInv)

LEMMA ShownAlways == Spec => []Shown
<1>1. Init => Shown
  <2>1. ReaderInit => Shown
    BY DEF ReaderInit, Shown
  <2>2. WriterInit => Shown
    BY WriterInitStep DEF WriterInit, Shown
  <2> QED  BY <2>1, <2>2 DEF Init
<1>2. Shown /\ [Next]_vars => Shown'
  <2> SUFFICES ASSUME Shown, [Next]_vars  PROVE Shown'
    OBVIOUS
  <2>1. CASE Reading(Reader!Next)
    BY <2>1 DEF Reading, Shown
  <2>2. CASE Writing(Writer!Next)
    <3>1. client = "writer" /\ client' = client /\ Writer!Next
      BY <2>2 DEF Writing
    <3>2. IInv
      BY <3>1 DEF Shown
    <3> QED  BY <3>1, <3>2, WriterStep DEF Shown
  <2>3. CASE UNCHANGED vars
    <3>1. client' = client
      BY <2>3 DEF vars
    <3>2. UNCHANGED Writer!vars
      BY <2>3 DEF vars, streamVars, writerVars, Writer!vars, Writer!lvars, Writer!svars
    <3> QED  BY <3>1, <3>2, WriterUnchanged DEF Shown
  <2> QED  BY <2>1, <2>2, <2>3 DEF Next
<1> QED  BY <1>1, <1>2, PTL DEF Spec

\* No record leaves the stream of normalize.cc before its context is normalised,
\* none is doubled or lost, whatever the sizes of the blocks and the contexts.
THEOREM WriterSendsNormalized == Spec => []SentIsNormalized
<1>1. Shown => SentIsNormalized
  <2> SUFFICES ASSUME Shown, client = "writer"  PROVE Writer!SentNormalized
    BY DEF SentIsNormalized
  <2>1. IInv
    BY DEF Shown
  <2>2. \A k \in DOMAIN sent : sent[k] = k
    BY <2>1 DEF IInv, SentInPlace
  <2>3. Writer!Ended => Len(sent) = before + words
    <3> SUFFICES ASSUME state[1] = "done", state[2] = "done"  PROVE Len(sent) = before + words
      BY DEF Writer!Ended, Writer!Sink
    <3>1. doing = "end"
      BY <2>1 DEF IInv, Open
    <3>2. PICK s \in Nat, f \in Nat : Closed(s, f)
      BY <3>1, <2>1 DEF IInv
    <3> QED  BY <3>2 DEF Closed
  <2> QED  BY <2>2, <2>3 DEF Writer!SentNormalized
<1> QED  BY <1>1, ShownAlways, PTL

\* AppendBlock aborts where the stream holds every block it was given.
NeverHoldsAll == client = "writer" => state[1] # "aborted"

\* The stream of normalize.cc never asks for a block while it holds all of them,
\* which the sizing in Pipeline is there to prevent (pipeline.cc:120).
THEOREM WriterNeverAborts == Spec => []NeverHoldsAll
<1>1. Shown => NeverHoldsAll
  BY DEF Shown, NeverHoldsAll, IInv, Types
<1> QED  BY <1>1, ShownAlways, PTL

=============================================================================
