---------------------------- MODULE ReaderProofs ----------------------------
(***************************************************************************)
(* The client of a RewindableStream in the middle of a chain reads the     *)
(* records in the order of the file, again from its mark after a Rewind,   *)
(* and what it read is written once and in order, for any number of        *)
(* blocks, size of a block, distance from the mark, and cuts of the file   *)
(* into blocks that upstream may make.                                     *)
(*                                                                         *)
(* As in StreamProofs the blocks go round in the order of the memory, but  *)
(* they may be partial: which records the k-th block has follows from the  *)
(* sizes of those before it.                                               *)
(***************************************************************************)
EXTENDS MCStreams, CommonFacts

N == ReaderBlocks
B == ReaderBlockSize

\* The part of the memory the k-th block has, and the address of its j-th record.
Wrap(k) == Turn(k, N)
Cell(k, j) == (Wrap(k) - 1) * B + j

Blocks == [mem : 0 .. N, valid : Int]

\* The records of the first k blocks, of the sizes w.
Before(w, k) == SumFunctionOnSet(w, 1 .. k)
NoEmpty(w) == \A k \in 1 .. Len(w) : w[k] # 0

\* The k-th block as it is recycled, as upstream leaves it, and as the stream leaves
\* it when e records are sent in all.
Fresh(k) == [mem |-> Wrap(k), valid |-> B]
Filled(w, k) == [mem |-> Wrap(k), valid |-> w[k]]
Left(w, e, k) == [mem |-> Wrap(k), valid |-> IF k = Len(w) THEN e - Before(w, k - 1) ELSE w[k]]

Hand(i) == IF state[i] = "hold" THEN 1 ELSE 0

\* The stream has been destroyed.
Gone == state[2] \in {"endpoison", "done"}

States == {"unstarted", "consume", "append", "ready", "hold", "endpoison", "poison", "aborted", "done"}

Roads ==
  /\ queue \in [0 .. 2 -> Seq(Blocks)]
  /\ current \in [1 .. 3 -> Blocks]
  /\ state \in [1 .. 3 -> States]
  /\ state[1] \in {"unstarted", "consume", "hold", "done"}
  /\ state[2] \in {"unstarted", "append", "ready", "aborted", "endpoison", "done"}
  /\ state[3] \in {"unstarted", "consume", "hold", "poison", "done"}

StreamTypes ==
  /\ blocks \in Seq(Blocks) /\ it \in Nat
  /\ cursor \in Nat /\ blockEnd \in Nat /\ marked \in Nat
  /\ hitPoison \in BOOLEAN /\ poisoned \in BOOLEAN
  /\ next \in Nat \ {0} /\ mark \in Nat /\ rewinds \in Nat

Types ==
  /\ Roads /\ StreamTypes
  /\ use \in Uses /\ filled \in 0 .. Len(use.fills)
  /\ memory \in [1 .. N * B -> Int] /\ sent \in Seq(Int)

\* s blocks have come round; upstream holds the next one it fills, or it is free.
Upstream(w, s) ==
  /\ state[1] # "done" =>
       /\ filled + Hand(1) + Len(queue[0]) = s + N
       /\ state[1] = "hold" => current[1] = Fresh(filled + 1)
       /\ \A p \in 1 .. Len(queue[0]) : queue[0][p] = Fresh(filled + Hand(1) + p)
       /\ ~hitPoison
  /\ state[1] = "done" => filled = Len(w)

\* The stream has consumed g blocks; the others are on their way, then the poison.
Between(w, g) ==
  /\ g <= filled
  /\ IF hitPoison THEN g = filled
     ELSE /\ Len(queue[1]) = filled - g + (IF state[1] = "done" THEN 1 ELSE 0)
          /\ \A p \in 1 .. filled - g : queue[1][p] = Filled(w, g + p)
          /\ state[1] = "done" => queue[1][filled - g + 1].mem = 0

\* The stream has sent f of them on, and has these.
Holds(w, f) == \A p \in 1 .. Len(blocks) : blocks[p] = Filled(w, f + p)

\* What it sent on is on its way to the sink, or in its hands; the poison follows.
Downstream(w, e, s, f) ==
  /\ s + Hand(3) <= f
  /\ state[3] = "hold" => current[3] = Left(w, e, s + 1)
  /\ \/ Len(queue[2]) = f - s - Hand(3)
     \/ /\ Len(queue[2]) = f - s - Hand(3) + 1
        /\ queue[2][f - s - Hand(3) + 1].mem = 0
        /\ state[2] = "done"
  /\ \A p \in 1 .. f - s - Hand(3) : queue[2][p] = Left(w, e, s + Hand(3) + p)
  /\ state[3] \in {"poison", "done"} => state[2] = "done" /\ s = f /\ Len(queue[2]) = 0

\* The records of the blocks that have not come round are in their places.
Stored(w, s) ==
  \A k \in s + 1 .. filled, j \in 1 .. B : j <= w[k] => memory[Cell(k, j)] = Before(w, k - 1) + j

Sent(w, e, s) ==
  /\ \A k \in DOMAIN sent : sent[k] = k
  /\ Len(sent) = IF s = Len(w) THEN e ELSE Before(w, s)

\* Where the client is between two calls,
Within(w, f) ==
  /\ it < Len(blocks)
  /\ Before(w, f + it) < next /\ next <= Before(w, f + it + 1)
  /\ cursor = Cell(f + it + 1, 1) + (next - 1 - Before(w, f + it))
  /\ blockEnd = Cell(f + it + 1, 1) + w[f + it + 1]
  /\ NoEmpty(w) \/ it + 1 = Len(blocks)

\* and behind all blocks the stream has, waiting for another or at the end.
Behind(w, f) ==
  /\ next = Before(w, f + Len(blocks)) + 1
  /\ blocks # << >> /\ w[f + Len(blocks)] # 0 => cursor = Cell(f + Len(blocks), 1) + w[f + Len(blocks)]
  /\ NoEmpty(w) => Len(blocks) < N

\* The mark is in the first block the stream has.
Marked(w, f) ==
  /\ mark = 0 => marked = 0
  /\ mark # 0 =>
       /\ blocks # << >>
       /\ Before(w, f) < mark /\ mark <= Before(w, f + 1)
       /\ marked = Cell(f + 1, 1) + (mark - 1 - Before(w, f))

\* In the end all blocks are sent, the last one up to where the client was.
Destroyed(w, e, f) ==
  /\ hitPoison /\ blocks = << >> /\ f = Len(w) /\ e = next - 1
  /\ f # 0 => Before(w, f - 1) <= e /\ e <= Before(w, f)
  /\ f = 0 => e = 0

Client(w, e, f) ==
  /\ state[2] = "ready" /\ ~poisoned => Within(w, f)
  /\ state[2] = "ready" /\ poisoned => Behind(w, f) /\ hitPoison
  /\ state[2] \in {"unstarted", "append"} => Behind(w, f) /\ ~hitPoison /\ ~poisoned
  /\ IF Gone THEN Destroyed(w, e, f) ELSE e = Before(w, Len(w)) /\ Marked(w, f)

Ring(w, e, s, f) ==
  /\ Upstream(w, s) /\ Between(w, f + Len(blocks)) /\ Holds(w, f) /\ Downstream(w, e, s, f)
  /\ Stored(w, s) /\ Sent(w, e, s) /\ Client(w, e, f)

\* Of the blocks of the sizes w that upstream fills, s have come round and f are sent
\* on; e records are sent in all.
Now(w, e, s, f) == Types /\ w = use.fills /\ Ring(w, e, s, f)

IInv == \E w : \E s, f, e \in Nat : Now(w, e, s, f)

\* The client is not further from its mark than it goes.
Near == mark # 0 => next <= mark + use.limit

---------------------------------------------------------------------------
\* Sizes, places and addresses.

LEMMA Sizes ==
  /\ N \in Nat \ {0} /\ N >= 2 /\ B \in Nat \ {0}
  /\ \A u \in Uses : u.fills \in Seq(0 .. B) /\ u.rewinds \in Nat /\ u.limit \in Nat
BY ReaderFits DEF N, B, Reader!ReaderAssumption, Reader!StreamAssumption

\* What comes before the k-th block, a block at a time.
LEMMA BeforeFacts ==
  ASSUME NEW w \in Seq(0 .. B)
  PROVE  /\ Before(w, 0) = 0
         /\ \A k \in 0 .. Len(w) : Before(w, k) \in Nat
         /\ \A k \in 1 .. Len(w) : w[k] \in 0 .. B /\ Before(w, k) = Before(w, k - 1) + w[k]
<1>1. Len(w) \in Nat /\ \A k \in 1 .. Len(w) : w[k] \in 0 .. B /\ w[k] \in Int
  BY Sizes
<1>2. Before(w, 0) = 0
  <2>1. 1 .. 0 = {}
    OBVIOUS
  <2> QED  BY <2>1, SumOfNothing DEF Before
<1>3. \A k \in 1 .. Len(w) : Before(w, k) = Before(w, k - 1) + w[k] /\ Before(w, k - 1) \in Int
  <2> SUFFICES ASSUME NEW k \in 1 .. Len(w)
               PROVE  Before(w, k) = Before(w, k - 1) + w[k] /\ Before(w, k - 1) \in Int
    OBVIOUS
  <2> DEFINE S == 1 .. k - 1
  <2>1. IsFiniteSet(S) /\ k \notin S /\ S \cup {k} = 1 .. k
    <3>1. 1 \in Int /\ k - 1 \in Int
      OBVIOUS
    <3>2. IsFiniteSet(1 .. k - 1)
      BY ONLY <3>1, FS_Interval
    <3> QED  BY <3>1, <3>2
  <2>2. \A y \in S \cup {k} : w[y] \in Int
    BY <1>1
  <2>3. SumFunctionOnSet(w, S) \in Int /\ SumFunctionOnSet(w, S \cup {k}) = SumFunctionOnSet(w, S) + w[k]
    <3> HIDE DEF S
    <3> QED  BY ONLY <2>1, <2>2, SumOfOneMore
  <2> QED  BY <2>1, <2>3 DEF Before
<1>4. \A k \in 0 .. Len(w) : Before(w, k) \in Nat
  <2> DEFINE wrong == {k \in 0 .. Len(w) : Before(w, k) \notin Nat}
  <2> SUFFICES ASSUME wrong # {}  PROVE FALSE
    OBVIOUS
  <2>1. wrong \in SUBSET Nat
    BY <1>1
  <2>2. PICK k \in wrong : \A l \in wrong : k <= l
    <3> HIDE DEF wrong
    <3> QED  BY <2>1, SetMinimum
  <2>3. k \in 1 .. Len(w)
    BY <1>1, <1>2
  <2>4. k - 1 \in 0 .. Len(w) /\ k - 1 \notin wrong
    <3>1. k - 1 \in 0 .. Len(w) /\ ~(k <= k - 1)
      BY <2>3, <1>1
    <3> HIDE DEF wrong
    <3> QED  BY <3>1, <2>2
  <2>5. Before(w, k - 1) \in Nat /\ w[k] \in Nat
    BY <2>4, <2>3, <1>1
  <2> QED  BY <2>2, <2>3, <2>5, <1>3
<1> QED  BY <1>1, <1>2, <1>3, <1>4

LEMMA BeforeGrows ==
  ASSUME NEW w \in Seq(0 .. B), NEW k \in 0 .. Len(w), NEW l \in 0 .. Len(w), k <= l
  PROVE  Before(w, k) <= Before(w, l)
<1> DEFINE wrong == {m \in k .. Len(w) : ~(Before(w, k) <= Before(w, m))}
<1>1. SUFFICES ASSUME wrong # {}  PROVE FALSE
  BY <1>1
<1>2. Len(w) \in Nat /\ k \in Nat /\ wrong \in SUBSET Nat
  OBVIOUS
<1>3. PICK m \in wrong : \A n \in wrong : m <= n
  <2> HIDE DEF wrong
  <2> QED  BY <1>1, <1>2, SetMinimum
<1>4. m \in 1 .. Len(w) /\ m # k
  BY <1>2, BeforeFacts
<1>5. m - 1 \in k .. Len(w) /\ m - 1 \notin wrong
  <2>1. m - 1 \in k .. Len(w) /\ ~(m <= m - 1)
    BY <1>2, <1>4
  <2> HIDE DEF wrong
  <2> QED  BY <2>1, <1>3
<1>6. Before(w, m) = Before(w, m - 1) + w[m] /\ w[m] \in Nat /\ Before(w, m - 1) \in Nat
      /\ Before(w, k) \in Nat
  <2>1. m - 1 \in 0 .. Len(w)
    BY <1>4
  <2> QED  BY <1>4, <2>1, BeforeFacts
<1>7. Before(w, k) <= Before(w, m - 1)
  BY <1>5
<1>8. Before(w, k) <= Before(w, m)
  BY <1>6, <1>7
<1> QED  BY <1>3, <1>8

\* Upstream's own count of the records is this one.
LEMMA SameSums ==
  ASSUME NEW w, w = use.fills
  PROVE  Reader!Total = Before(w, Len(w)) /\ \A k : Reader!Before(k) = Before(w, k)
<1>1. \A k : Reader!Before(k) = Before(w, k)
  BY DEF Reader!Before, Reader!Fills, Before,
         Reader!SumFunctionOnSet, Reader!FoldFunctionOnSet, Reader!MapThenFoldSet,
         SumFunctionOnSet, FoldFunctionOnSet, MapThenFoldSet
<1> QED  BY <1>1 DEF Reader!Total, Reader!Fills

LEMMA CellFacts ==
  ASSUME NEW k \in Nat \ {0}
  PROVE  /\ Wrap(k) \in 1 .. N /\ Wrap(k + N) = Wrap(k)
         /\ Cell(k, 1) \in Nat \ {0} /\ (Wrap(k) - 1) * B + 1 = Cell(k, 1)
         /\ \A j \in 1 .. B : Cell(k, j) \in 1 .. N * B /\ Cell(k, j) = Cell(k, 1) + (j - 1)
<1>1. N \in Nat \ {0} /\ B \in Nat \ {0}
  BY Sizes
<1>2. Wrap(k) \in 1 .. N /\ Wrap(k + N) = Wrap(k)
  BY <1>1, TurnFacts DEF Wrap
<1>3. Wrap(k) - 1 \in Nat /\ Wrap(k) - 1 < N
  BY <1>1, <1>2
<1>4. PICK a : a = (Wrap(k) - 1) * B
  OBVIOUS
<1>5. a + B <= N * B /\ a >= 0 /\ a \in Int /\ N * B \in Int
  BY <1>1, <1>3, <1>4, Times
<1>6. \A j : Cell(k, j) = a + j
  BY <1>4 DEF Cell
<1> QED  BY <1>1, <1>2, <1>4, <1>5, <1>6

\* Of as many blocks as there are, no two records share an address,
LEMMA CellApart ==
  ASSUME NEW k \in Nat \ {0}, NEW l \in Nat \ {0}, NEW j \in 1 .. B, NEW i \in 1 .. B,
         k < l + N, l < k + N, Cell(k, j) = Cell(l, i)
  PROVE  k = l /\ j = i
<1>1. Wrap(k) \in 1 .. N /\ Wrap(l) \in 1 .. N /\ B \in Nat
  BY CellFacts, Sizes
<1> DEFINE a == Wrap(k) - 1  c == Wrap(l) - 1
<1>2. a \in Int /\ c \in Int /\ a * B + j = c * B + i
  BY <1>1, Sizes DEF Cell
<1>3. ~(a < c) /\ ~(c < a)
  BY <1>1, <1>2, Times
<1>4. k = l
  <2>1. Turn(k, N) = Turn(l, N) /\ N \in Nat \ {0}
    BY <1>1, <1>2, <1>3, Sizes DEF Wrap
  <2>2. ~(k < l)
    BY <2>1, TurnsApart
  <2>3. ~(l < k)
    BY <2>1, TurnsApart
  <2> QED  BY <2>2, <2>3
<1> QED  BY <1>2, <1>3, <1>4, <1>1, Times

\* and of fewer, none has the address behind the last one.
LEMMA EndApart ==
  ASSUME NEW k \in Nat \ {0}, NEW l \in Nat \ {0}, NEW j \in 1 .. B, NEW v \in 1 .. B,
         l <= k, k + 1 < l + N, k = l => j <= v
  PROVE  Cell(l, j) # Cell(k, 1) + v
<1> SUFFICES ASSUME Cell(l, j) = Cell(k, 1) + v  PROVE FALSE
  OBVIOUS
<1>1. B \in Nat \ {0} /\ N \in Nat \ {0}
  BY Sizes
<1>2. CASE v < B
  <2>1. v + 1 \in 1 .. B /\ Cell(k, v + 1) = Cell(k, 1) + v
    <3>1. v + 1 \in 1 .. B
      BY <1>1, <1>2
    <3>2. Cell(k, v + 1) = Cell(k, 1) + (v + 1 - 1)
      BY <3>1, CellFacts
    <3> QED  BY <3>1, <3>2
  <2>2. k = l /\ j = v + 1
    <3>1. Cell(l, j) = Cell(k, v + 1)
      BY <2>1
    <3>2. l < k + N /\ k < l + N
      BY <1>1
    <3> QED  BY <3>1, <3>2, <2>1, CellApart
  <2> QED  BY <2>2
<1>3. CASE v = B
  <2>1. Wrap(k) \in 1 .. N /\ Wrap(l) \in 1 .. N
    BY CellFacts
  <2>2. Cell(k, 1) + v = Wrap(k) * B + 1
    <3>1. Wrap(k) - 1 \in Int /\ (Wrap(k) - 1) * B = Wrap(k) * B - B /\ Wrap(k) * B \in Int
      BY <2>1, <1>1, Times
    <3> QED  BY <3>1, <1>1, <1>3 DEF Cell
  <2>3. (Wrap(l) - 1) * B + j = Wrap(k) * B + 1
    BY <2>2 DEF Cell
  <2>4. Wrap(l) - 1 = Wrap(k)
    <3> DEFINE a == Wrap(l) - 1  c == Wrap(k)
    <3>1. a \in Int /\ c \in Int /\ a * B + j = c * B + 1
      BY <2>1, <2>3
    <3>2. ~(a < c) /\ ~(c < a)
      BY <3>1, <1>1, Times
    <3> QED  BY <3>1, <3>2
  <2>5. Wrap(k + 1) = Wrap(l)
    <3>1. Wrap(k) < N
      BY <2>1, <2>4, <1>1
    <3>2. Wrap(k + 1) = Wrap(k) + 1
      BY <3>1, <1>1, NextTurn DEF Wrap
    <3> QED  BY <3>2, <2>1, <2>4
  <2> QED
    <3>1. l < k + 1 /\ k + 1 < l + N /\ k + 1 \in Nat \ {0}
      OBVIOUS
    <3> QED  BY <3>1, <2>5, <1>1, TurnsApart DEF Wrap
<1> QED  BY <1>2, <1>3, <1>1

---------------------------------------------------------------------------
\* What a step leaves alone.

LEMMA NowFacts ==
  ASSUME NEW w, NEW e \in Nat, NEW s \in Nat, NEW f \in Nat, Now(w, e, s, f)
  PROVE  /\ w \in Seq(0 .. B) /\ Len(w) \in Nat /\ filled \in Nat /\ filled <= Len(w)
         /\ Len(blocks) \in Nat /\ f + Len(blocks) <= filled /\ s + Hand(3) <= f /\ s <= f
         /\ Hand(1) \in {0, 1} /\ Hand(3) \in {0, 1}
         /\ Upstream(w, s) /\ Between(w, f + Len(blocks)) /\ Holds(w, f) /\ Downstream(w, e, s, f)
         /\ Stored(w, s) /\ Sent(w, e, s) /\ Client(w, e, f) /\ Types
<1>1. w \in Seq(0 .. B)
  BY Sizes DEF Now, Types
<1>2. Len(w) \in Nat /\ filled \in Nat /\ filled <= Len(w) /\ Len(blocks) \in Nat
  BY <1>1 DEF Now, Types
<1>3. /\ Upstream(w, s) /\ Between(w, f + Len(blocks)) /\ Holds(w, f) /\ Downstream(w, e, s, f)
      /\ Stored(w, s) /\ Sent(w, e, s) /\ Client(w, e, f) /\ Types
  BY DEF Now, Ring
<1>4. f + Len(blocks) <= filled /\ s + Hand(3) <= f
  BY <1>3 DEF Between, Downstream
<1>5. Hand(1) \in {0, 1} /\ Hand(3) \in {0, 1}
  BY DEF Hand
<1>6. s <= f
  BY <1>4, <1>5
<1> QED  BY <1>1, <1>2, <1>3, <1>4, <1>5, <1>6

LEMMA UpstreamKept ==
  ASSUME NEW w, NEW s, Upstream(w, s), state'[1] = state[1], UNCHANGED <<filled, hitPoison>>,
         queue'[0] = queue[0], current'[1] = current[1]
  PROVE  Upstream(w, s)'
BY DEF Upstream, Hand

LEMMA BetweenKept ==
  ASSUME NEW w, NEW g, Between(w, g), state'[1] = state[1], UNCHANGED <<filled, hitPoison>>,
         queue'[1] = queue[1]
  PROVE  Between(w, g)'
BY DEF Between

LEMMA DownstreamKept ==
  ASSUME NEW w, NEW e, NEW s, NEW f, Downstream(w, e, s, f), state'[3] = state[3],
         state[2] = "done" => state'[2] = "done", queue'[2] = queue[2], current'[3] = current[3]
  PROVE  Downstream(w, e, s, f)'
BY DEF Downstream, Hand

LEMMA StoredKept ==
  ASSUME NEW w, NEW s \in Nat, NEW r \in Nat, s <= r, filled \in Nat, Stored(w, s),
         UNCHANGED <<filled, memory>>
  PROVE  Stored(w, r)'
BY DEF Stored

LEMMA ClientKept ==
  ASSUME NEW w, NEW e, NEW f, Client(w, e, f), state'[2] = state[2],
         UNCHANGED <<blocks, it, cursor, blockEnd, marked, hitPoison, poisoned, next, mark>>
  PROVE  Client(w, e, f)'
BY DEF Client, Gone, Within, Behind, Marked, Destroyed

\* What the client and its stream do not touch.
Apart == UNCHANGED <<use, filled, memory, sent>>
\* What upstream and the sink do not touch.
Aside == UNCHANGED <<use, blocks, it, cursor, blockEnd, marked, hitPoison, poisoned, next, mark, rewinds>>

LEMMA TypesAside ==
  ASSUME Types, Roads', Aside, UNCHANGED <<filled, memory>>, sent' \in Seq(Int)
  PROVE  Types'
BY DEF Types, StreamTypes, Aside

---------------------------------------------------------------------------
\* Upstream.

\* Upstream fills a block: the addresses it writes are free, since the records of the
\* blocks that have not come round are at others (CellApart).
LEMMA FillBlockStep ==
  ASSUME NEW w, NEW e \in Nat, NEW s \in Nat, NEW f \in Nat, Now(w, e, s, f), Reader!FillBlock
  PROVE  Now(w, e, s, f)'
<1> DEFINE n == filled + 1
<1>1. /\ w \in Seq(0 .. B) /\ Len(w) \in Nat /\ filled \in Nat
      /\ Len(blocks) \in Nat /\ f + Len(blocks) <= filled /\ s <= f
      /\ Upstream(w, s) /\ Between(w, f + Len(blocks)) /\ Holds(w, f) /\ Downstream(w, e, s, f)
      /\ Stored(w, s) /\ Sent(w, e, s) /\ Client(w, e, f) /\ Types /\ w = use.fills
  BY NowFacts DEF Now
<1>2. /\ filled < Len(w) /\ state[1] = "hold"
      /\ queue' = [queue EXCEPT ![1] = Append(queue[1], [current[1] EXCEPT !.valid = w[n]])]
      /\ state' = [state EXCEPT ![1] = "consume"] /\ current' = current
      /\ memory' = [a \in DOMAIN memory |->
                      IF a \in Reader!Get(current[1]) .. Reader!Get(current[1]) + w[n] - 1
                        THEN Before(w, filled) + a - Reader!Get(current[1]) + 1 ELSE memory[a]]
      /\ filled' = n /\ Aside /\ UNCHANGED sent
  BY <1>1, SameSums DEF Reader!FillBlock, Reader!Pass, Reader!Upstream, Reader!Fills, Reader!Out, Reader!svars,
         Reader!cvars, Aside
<1>3. /\ n + Len(queue[0]) = s + N /\ current[1] = Fresh(n) /\ ~hitPoison /\ n \in Nat \ {0} /\ n \in 1 .. Len(w)
      /\ \A p \in 1 .. Len(queue[0]) : queue[0][p] = Fresh(n + p)
      /\ Len(queue[0]) \in Nat
  <2>1. Hand(1) = 1 /\ queue[0] \in Seq(Blocks) /\ state[1] # "done"
    BY <1>1, <1>2 DEF Hand, Types, Roads
  <2>2. n \in Nat \ {0} /\ n \in 1 .. Len(w) /\ n = filled + Hand(1)
    BY <2>1, <1>1, <1>2
  <2>3. Upstream(w, s) /\ state[1] = "hold"
    BY <1>1, <1>2
  <2> HIDE DEF n
  <2>4. n + Len(queue[0]) = s + N /\ ~hitPoison /\ \A p \in 1 .. Len(queue[0]) : queue[0][p] = Fresh(n + p)
    BY <2>1, <2>2, <2>3 DEF Upstream
  <2>5. current[1] = Fresh(n)
    <3>1. n = filled + 1
      BY DEF n
    <3> QED  BY <3>1, <2>1, <2>3 DEF Upstream
  <2> QED  BY <2>1, <2>2, <2>4, <2>5
<1>4. w[n] \in 0 .. B /\ Wrap(n) \in 1 .. N /\ Before(w, filled) \in Nat /\ filled = n - 1 /\ B \in Nat \ {0} /\ N \in Nat
  <2>1. Wrap(n) \in 1 .. N
    BY <1>3, CellFacts
  <2>2. filled \in 0 .. Len(w) /\ filled = n - 1
    BY <1>1, <1>3
  <2>3. w[n] \in 0 .. B /\ Before(w, filled) \in Nat
    BY <1>1, <1>3, <2>2, BeforeFacts
  <2> QED  BY <2>1, <2>2, <2>3, Sizes
<1>5. /\ [current[1] EXCEPT !.valid = w[n]] = Filled(w, n) /\ Filled(w, n) \in Blocks
      /\ Reader!Get(current[1]) = Cell(n, 1)
  BY <1>3, <1>4, SMTT(20) DEF Fresh, Filled, Blocks, Reader!Get, Cell, B
<1>6. PICK new \in Blocks : new = Filled(w, n)
  BY <1>5
<1>7. PICK line \in Seq(Blocks) : line = queue[1]
  BY <1>1 DEF Types, Roads
<1>8. /\ Append(line, new) \in Seq(Blocks) /\ Len(Append(line, new)) = Len(line) + 1
      /\ \A p \in 1 .. Len(line) : Append(line, new)[p] = line[p]
      /\ Append(line, new)[Len(line) + 1] = new
  BY <1>7, Ends
<1>9. /\ queue' \in [0 .. 2 -> Seq(Blocks)] /\ queue'[0] = queue[0] /\ queue'[2] = queue[2]
      /\ queue'[1] = Append(line, new)
  <2>1. queue' = [queue EXCEPT ![1] = Append(line, new)]
    BY <1>2, <1>5, <1>7, <1>6
  <2> QED  BY <2>1, <1>1, <1>8, SMTT(20) DEF Types, Roads
<1>10. state'[1] = "consume" /\ state'[2] = state[2] /\ state'[3] = state[3]
      /\ state' \in [1 .. 3 -> States]
  <2>1. "consume" \in States /\ state \in [1 .. 3 -> States]
    BY <1>1 DEF States, Types, Roads
  <2> QED  BY <1>2, <2>1
<1>11. memory' \in [1 .. N * B -> Int]
       /\ \A a \in 1 .. N * B : memory'[a] = IF a \in Cell(n, 1) .. Cell(n, 1) + w[n] - 1
                                               THEN Before(w, filled) + a - Cell(n, 1) + 1 ELSE memory[a]
  <2>1. memory \in [1 .. N * B -> Int] /\ Cell(n, 1) \in Nat
    BY <1>1, <1>3, CellFacts DEF Types
  <2>2. memory' = [a \in 1 .. N * B |-> IF a \in Cell(n, 1) .. Cell(n, 1) + w[n] - 1
                                          THEN Before(w, filled) + a - Cell(n, 1) + 1 ELSE memory[a]]
    BY <1>2, <1>5, <2>1
  <2>3. \A a \in 1 .. N * B : a \in Int /\ memory[a] \in Int /\ Before(w, filled) + a - Cell(n, 1) + 1 \in Int
    <3>1. 1 .. N * B \subseteq Int
      OBVIOUS
    <3> QED  BY <2>1, <3>1, <1>4, SMTT(20)
  <2> QED  BY <2>2, <2>3
<1>12. Types'
  <2>1. filled' \in 0 .. Len(use'.fills) /\ use' \in Uses
    BY <1>1, <1>2, <1>3 DEF Types, Aside
  <2>2. Roads'
    BY <1>1, <1>2, <1>9, <1>10 DEF Types, Roads
  <2>3. StreamTypes' /\ sent' \in Seq(Int)
    BY <1>1, <1>2 DEF Types, StreamTypes, Aside
  <2> QED  BY <2>1, <2>2, <2>3, <1>11 DEF Types
<1>13. Upstream(w, s)'
  <2>1. Hand(1)' = 0 /\ state'[1] # "done" /\ state'[1] # "hold" /\ ~hitPoison' /\ filled' = n
    BY <1>2, <1>3, <1>10 DEF Hand, Aside
  <2>2. n + 0 + Len(queue'[0]) = s + N /\ \A p \in 1 .. Len(queue'[0]) : queue'[0][p] = Fresh(n + 0 + p)
    <3>1. n + 0 = n
      BY <1>3
    <3> HIDE DEF n
    <3> QED  BY <3>1, <1>3, <1>9
  <2> HIDE DEF n
  <2> QED  BY <2>1, <2>2 DEF Upstream
<1>14. Between(w, f + Len(blocks))'
  <2> DEFINE g == f + Len(blocks)
  <2>1. g \in Nat /\ g <= filled /\ Len(line) = filled - g
        /\ \A p \in 1 .. filled - g : line[p] = Filled(w, g + p)
    <3>1. g \in Nat /\ filled \in Nat /\ Between(w, g)
      BY <1>1
    <3>2. ~hitPoison /\ state[1] # "done" /\ line = queue[1]
      BY <1>2, <1>3, <1>7
    <3> HIDE DEF g
    <3> QED  BY <3>1, <3>2 DEF Between
  <2>2. ASSUME NEW p \in 1 .. n - g  PROVE Append(line, new)[p] = Filled(w, g + p)
    <3>1. CASE p <= filled - g
      <4>1. p \in 1 .. filled - g
        BY <3>1, <1>1, <2>1
      <4> QED  BY <4>1, <2>1, <1>8
    <3>2. CASE p > filled - g
      <4>1. p = Len(line) + 1 /\ g + p = n
        <5>1. p \in Int /\ p <= filled + 1 - g /\ filled \in Int /\ g \in Int
          BY <1>1, <2>1
        <5> HIDE DEF g
        <5> QED  BY <5>1, <3>2, <2>1
      <4> QED  BY <4>1, <1>8, <1>6
    <3> QED
      <4>1. p \in Int /\ filled - g \in Int
        BY <1>1, <2>1
      <4>2. p <= filled - g \/ p > filled - g
        <5> HIDE DEF g, n
        <5> QED  BY <4>1
      <4> QED  BY <4>2, <3>1, <3>2
  <2>3. (f + Len(blocks))' = g /\ ~hitPoison' /\ filled' = n /\ Len(queue'[1]) = n - g + 0 /\ g <= n
    <3>1. (f + Len(blocks))' = g /\ ~hitPoison' /\ filled' = n
      BY <1>2, <1>3 DEF Aside
    <3>2. Len(queue'[1]) = Len(line) + 1
      BY <1>8, <1>9
    <3> HIDE DEF g
    <3> QED  BY <3>1, <3>2, <2>1, <1>1
  <2> HIDE DEF g, n
  <2> QED  BY <2>2, <2>3, <1>9, <1>10 DEF Between
<1>15. Stored(w, s)'
  <2> SUFFICES ASSUME NEW k \in s + 1 .. n, NEW j \in 1 .. B, j <= w[k]
               PROVE  memory'[Cell(k, j)] = Before(w, k - 1) + j
    BY <1>2 DEF Stored
  <2>1. k \in Nat \ {0} /\ Cell(k, j) \in 1 .. N * B /\ Cell(k, j) = Cell(k, 1) + (j - 1) /\ Cell(k, 1) \in Nat
        /\ Cell(n, 1) \in Nat
    <3>1. k \in Nat \ {0}
      BY <1>3
    <3> QED  BY <3>1, <1>3, CellFacts
  <2>2. CASE k = n
    <3>1. Cell(n, j) \in Cell(n, 1) .. Cell(n, 1) + w[n] - 1 /\ Cell(n, j) = Cell(n, 1) + (j - 1)
      <4>1. w[n] \in Int /\ j <= w[n] /\ j \in Int /\ j >= 1
        BY <2>2, <1>4
      <4> HIDE DEF n
      <4> QED  BY <4>1, <2>1, <2>2
    <3>2. memory'[Cell(n, j)] = Before(w, filled) + Cell(n, j) - Cell(n, 1) + 1
      BY <3>1, <2>1, <2>2, <1>11
    <3>3. memory'[Cell(n, j)] = Before(w, filled) + j
      <4>1. j \in Int /\ Before(w, filled) \in Int
        BY <1>4
      <4> HIDE DEF n
      <4> QED  BY <4>1, <3>1, <3>2, <2>1, SMTT(20)
    <3> QED  BY <2>2, <3>3, <1>4
  <2>3. CASE k # n
    <3>1. k \in s + 1 .. filled
      BY <2>3, <1>1
    <3>2. Cell(k, j) \notin Cell(n, 1) .. Cell(n, 1) + w[n] - 1
      <4> SUFFICES ASSUME Cell(k, j) \in Cell(n, 1) .. Cell(n, 1) + w[n] - 1  PROVE FALSE
        OBVIOUS
      <4> DEFINE i == Cell(k, j) - Cell(n, 1) + 1
      <4>1. i \in 1 .. B
        <5>1. w[n] \in Int /\ w[n] <= B /\ B \in Int
          BY <1>4
        <5>2. Cell(k, j) \in Int /\ Cell(n, 1) \in Int
          BY <2>1
        <5>3. Cell(n, 1) <= Cell(k, j) /\ Cell(k, j) <= Cell(n, 1) + w[n] - 1
          OBVIOUS
        <5>4. \A a, c, v \in Int : c <= a /\ a <= c + v - 1 /\ v <= B => a - c + 1 \in 1 .. B
          BY <5>1
        <5> QED  BY <5>1, <5>2, <5>3, <5>4
      <4>2. Cell(n, i) = Cell(n, 1) + (i - 1)
        BY <4>1, <1>3, CellFacts
      <4>3. Cell(k, j) = Cell(n, i)
        BY <4>2, <2>1
      <4>4. k < n + N /\ n < k + N
        <5>1. n <= s + N /\ n \in Int /\ N \in Int /\ N > 0 /\ s \in Int
          <6>1. n + Len(queue[0]) = s + N /\ Len(queue[0]) \in Nat /\ n \in Nat /\ N \in Nat \ {0}
            BY <1>3, Sizes
          <6> HIDE DEF n
          <6> QED  BY <6>1
        <5>2. k \in Int /\ s + 1 <= k /\ k < n
          BY <3>1, <1>1
        <5> HIDE DEF n
        <5> QED  BY <5>1, <5>2
      <4> HIDE DEF i
      <4> QED  BY <4>1, <4>3, <4>4, <2>1, <2>3, <1>3, CellApart
    <3>3. memory'[Cell(k, j)] = memory[Cell(k, j)]
      BY <3>2, <2>1, <1>11
    <3> QED  BY <3>1, <3>3, <1>1 DEF Stored
  <2> QED  BY <2>2, <2>3
<1>16. Holds(w, f)' /\ Sent(w, e, s)' /\ (f + Len(blocks))' = f + Len(blocks)
  BY <1>1, <1>2 DEF Holds, Sent, Aside
<1>17. Downstream(w, e, s, f)'
  BY <1>1, <1>2, <1>9, <1>10, DownstreamKept
<1>18. Client(w, e, f)'
  BY <1>1, <1>2, <1>10, ClientKept DEF Aside
<1>19. w = use'.fills
  BY <1>1, <1>2 DEF Aside
<1> QED  BY <1>12, <1>13, <1>14, <1>15, <1>16, <1>17, <1>18, <1>19 DEF Now, Ring

LEMMA FillEndStep ==
  ASSUME NEW w, NEW e \in Nat, NEW s \in Nat, NEW f \in Nat, Now(w, e, s, f), Reader!FillEnd
  PROVE  Now(w, e, s, f)'
<1> DEFINE g == f + Len(blocks)
<1>1. /\ w \in Seq(0 .. B) /\ Len(w) \in Nat /\ filled \in Nat
      /\ Len(blocks) \in Nat /\ g <= filled /\ s <= f
      /\ Upstream(w, s) /\ Between(w, g) /\ Holds(w, f) /\ Downstream(w, e, s, f)
      /\ Stored(w, s) /\ Sent(w, e, s) /\ Client(w, e, f) /\ Types /\ w = use.fills
  BY NowFacts DEF Now
<1>2. PICK line \in Seq(Blocks), new \in Blocks :
        line = queue[1] /\ new = [current[1] EXCEPT !.mem = 0]
  <2>1. current[1] \in Blocks /\ 0 \in 0 .. N /\ queue[1] \in Seq(Blocks)
    BY <1>1, Sizes DEF Types, Roads
  <2>2. [current[1] EXCEPT !.mem = 0] \in Blocks
    BY <2>1 DEF Blocks
  <2> QED  BY <2>1, <2>2
<1>3. /\ filled = Len(w) /\ state[1] = "hold"
      /\ queue' = [queue EXCEPT ![1] = Append(line, new)]
      /\ current' = [current EXCEPT ![1] = new]
      /\ state' = [state EXCEPT ![1] = "done"]
      /\ Aside /\ UNCHANGED <<filled, memory, sent>>
  BY <1>1, <1>2 DEF Reader!FillEnd, Reader!MakePoison, Reader!SetToPoison, Reader!NoMemory, Reader!Upstream,
         Reader!Fills, Reader!Out, Reader!svars, Reader!cvars, Aside
<1>4. /\ Append(line, new) \in Seq(Blocks) /\ Len(Append(line, new)) = Len(line) + 1
      /\ \A p \in 1 .. Len(line) : Append(line, new)[p] = line[p]
      /\ Append(line, new)[Len(line) + 1] = new /\ new.mem = 0
  <2>1. current[1] \in Blocks
    BY <1>1 DEF Types, Roads
  <2>2. new.mem = 0
    BY <1>2, <2>1 DEF Blocks
  <2> QED  BY <1>2, <2>2, Ends
<1>5. /\ queue' \in [0 .. 2 -> Seq(Blocks)] /\ queue'[0] = queue[0] /\ queue'[2] = queue[2]
      /\ queue'[1] = Append(line, new)
      /\ current' \in [1 .. 3 -> Blocks] /\ current'[3] = current[3]
      /\ state' \in [1 .. 3 -> States]
      /\ state'[1] = "done" /\ state'[2] = state[2] /\ state'[3] = state[3]
  <2>1. /\ "done" \in States /\ state \in [1 .. 3 -> States]
        /\ current \in [1 .. 3 -> Blocks] /\ queue \in [0 .. 2 -> Seq(Blocks)]
    BY <1>1 DEF States, Types, Roads
  <2>2. state' \in [1 .. 3 -> States] /\ state'[1] = "done" /\ state'[2] = state[2] /\ state'[3] = state[3]
    BY <1>3, <2>1
  <2>3. current' \in [1 .. 3 -> Blocks] /\ current'[3] = current[3]
    BY <1>2, <1>3, <2>1
  <2>4. /\ queue' \in [0 .. 2 -> Seq(Blocks)] /\ queue'[0] = queue[0] /\ queue'[2] = queue[2]
        /\ queue'[1] = Append(line, new)
    BY <1>3, <1>4, <2>1
  <2> QED  BY <2>2, <2>3, <2>4
<1>6. Types'
  <2>1. Roads'
    BY <1>1, <1>5 DEF Types, Roads
  <2> QED  BY <2>1, <1>1, <1>3, TypesAside DEF Types
<1>7. Upstream(w, s)'
  BY <1>3, <1>5 DEF Upstream
<1>8. Between(w, g)' /\ g' = g
  <2>1. ~hitPoison /\ state[1] # "done"
    BY <1>1, <1>3 DEF Upstream
  <2>2. g \in Nat /\ Len(line) = filled - g /\ \A p \in 1 .. filled - g : line[p] = Filled(w, g + p)
    BY <1>1, <1>2, <2>1 DEF Between
  <2>3. g' = g /\ ~hitPoison' /\ filled' = filled
    BY <1>3, <2>1 DEF Aside
  <2> HIDE DEF g
  <2>4. Len(queue'[1]) = filled - g + 1 /\ queue'[1][filled - g + 1].mem = 0
        /\ \A p \in 1 .. filled - g : queue'[1][p] = Filled(w, g + p)
    BY <1>4, <1>5, <2>2
  <2> QED  BY <2>1, <2>3, <2>4, <1>1, <1>5 DEF Between
<1>9. Holds(w, f)' /\ Sent(w, e, s)'
  BY <1>1, <1>3 DEF Holds, Sent, Aside
<1>10. Downstream(w, e, s, f)'
  BY <1>1, <1>5, DownstreamKept
<1>11. Client(w, e, f)'
  BY <1>1, <1>3, <1>5, ClientKept DEF Aside
<1>12. Stored(w, s)' /\ w = use'.fills
  BY <1>1, <1>3, StoredKept DEF Aside
<1> QED  BY <1>6, <1>7, <1>8, <1>9, <1>10, <1>11, <1>12 DEF Now, Ring

\* Upstream waits for a block or takes one.
LEMMA UpstreamTakes ==
  ASSUME NEW w, NEW e \in Nat, NEW s \in Nat, NEW f \in Nat, Now(w, e, s, f),
         Reader!Start(1) \/ Reader!Consume(1), Aside, UNCHANGED <<filled, memory, sent>>
  PROVE  Now(w, e, s, f)'
<1> DEFINE g == f + Len(blocks)
<1>1. /\ w \in Seq(0 .. B) /\ Len(w) \in Nat /\ filled \in Nat
      /\ Len(blocks) \in Nat /\ g <= filled /\ s <= f
      /\ Upstream(w, s) /\ Between(w, g) /\ Holds(w, f) /\ Downstream(w, e, s, f)
      /\ Stored(w, s) /\ Sent(w, e, s) /\ Client(w, e, f) /\ Types /\ w = use.fills
  BY NowFacts DEF Now
<1>2. SUFFICES /\ Roads' /\ state'[1] \in {"consume", "hold"} /\ state[1] \in {"unstarted", "consume"}
               /\ queue'[1] = queue[1] /\ queue'[2] = queue[2]
               /\ state'[2] = state[2] /\ state'[3] = state[3] /\ current'[3] = current[3]
               /\ Upstream(w, s)'
  <2> SUFFICES ASSUME /\ Roads' /\ state'[1] \in {"consume", "hold"} /\ state[1] \in {"unstarted", "consume"}
                      /\ queue'[1] = queue[1] /\ queue'[2] = queue[2]
                      /\ state'[2] = state[2] /\ state'[3] = state[3] /\ current'[3] = current[3]
                      /\ Upstream(w, s)'
               PROVE  Now(w, e, s, f)'
    OBVIOUS
  <2>1. Types'
    BY <1>1, TypesAside DEF Types
  <2>2. Between(w, g)' /\ g' = g
    <3>1. g' = g /\ hitPoison' = hitPoison /\ filled' = filled
      BY DEF Aside
    <3>2. state[1] # "done" /\ state'[1] # "done"
      OBVIOUS
    <3> HIDE DEF g
    <3> QED  BY <3>1, <3>2, <1>1 DEF Between
  <2>3. Holds(w, f)' /\ Sent(w, e, s)' /\ w = use'.fills
    BY <1>1 DEF Holds, Sent, Aside
  <2>4. Downstream(w, e, s, f)'
    BY <1>1, DownstreamKept
  <2>5. Client(w, e, f)'
    BY <1>1, ClientKept DEF Aside
  <2>6. Stored(w, s)'
    BY <1>1, StoredKept
  <2> QED  BY <2>1, <2>2, <2>3, <2>4, <2>5, <2>6 DEF Now, Ring
<1>3. CASE Reader!Start(1)
  <2>1. state[1] = "unstarted" /\ state' = [state EXCEPT ![1] = "consume"] /\ UNCHANGED <<queue, current>>
    BY <1>3 DEF Reader!Start
  <2>2. state' \in [1 .. 3 -> States] /\ state'[1] = "consume" /\ state'[2] = state[2] /\ state'[3] = state[3]
    BY <1>1, <2>1 DEF Types, Roads, States
  <2>3. Roads'
    BY <1>1, <2>1, <2>2 DEF Types, Roads
  <2>4. Upstream(w, s)'
    <3>1. Hand(1) = 0 /\ Hand(1)' = 0 /\ ~hitPoison' /\ filled' = filled
      BY <1>1, <2>1, <2>2 DEF Hand, Upstream, Aside
    <3> QED  BY <3>1, <2>1, <2>2, <1>1 DEF Upstream
  <2> QED  BY <2>1, <2>2, <2>3, <2>4
<1>4. CASE Reader!Consume(1)
  <2>1. PICK line \in Seq(Blocks) : line = queue[0]
    BY <1>1 DEF Types, Roads
  <2>2. /\ state[1] = "consume" /\ line # << >>
        /\ current' = [current EXCEPT ![1] = Head(line)]
        /\ queue' = [queue EXCEPT ![0] = Tail(line)]
        /\ state' = [state EXCEPT ![1] = IF Reader!IsPoison(Head(line)) THEN "poison" ELSE "hold"]
    BY <1>4, <2>1 DEF Reader!Consume
  <2>3. /\ Head(line) \in Blocks /\ Head(line) = line[1]
        /\ Tail(line) \in Seq(Blocks) /\ Len(Tail(line)) = Len(line) - 1 /\ Len(line) >= 1 /\ Len(line) \in Nat
        /\ \A p \in 1 .. Len(line) - 1 : Tail(line)[p] = line[p + 1]
    BY <2>1, <2>2, Ends
  <2>4. /\ Hand(1) = 0 /\ ~hitPoison /\ filled + 0 + Len(line) = s + N
        /\ \A p \in 1 .. Len(line) : line[p] = Fresh(filled + 0 + p)
    BY <1>1, <2>1, <2>2 DEF Upstream, Hand
  <2>5. Head(line) = Fresh(filled + 1) /\ ~Reader!IsPoison(Head(line))
    <3>1. 1 \in 1 .. Len(line) /\ filled + 0 + 1 = filled + 1 /\ filled + 1 \in Nat \ {0}
      BY <2>3, <1>1
    <3>2. Head(line) = Fresh(filled + 1)
      BY <3>1, <2>3, <2>4
    <3>3. Wrap(filled + 1) \in 1 .. N /\ N \in Nat
      BY <3>1, CellFacts, Sizes
    <3> QED  BY <3>2, <3>3 DEF Fresh, Reader!IsPoison, Reader!NoMemory
  <2>6. /\ queue' \in [0 .. 2 -> Seq(Blocks)] /\ queue'[0] = Tail(line) /\ queue'[1] = queue[1] /\ queue'[2] = queue[2]
        /\ current' \in [1 .. 3 -> Blocks] /\ current'[1] = Head(line) /\ current'[3] = current[3]
        /\ state' \in [1 .. 3 -> States]
        /\ state'[1] = "hold" /\ state'[2] = state[2] /\ state'[3] = state[3]
    <3>1. queue \in [0 .. 2 -> Seq(Blocks)] /\ current \in [1 .. 3 -> Blocks] /\ state \in [1 .. 3 -> States]
      BY <1>1 DEF Types, Roads
    <3>2. /\ queue' \in [0 .. 2 -> Seq(Blocks)] /\ queue'[0] = Tail(line) /\ queue'[1] = queue[1]
          /\ queue'[2] = queue[2]
      BY <3>1, <2>2, <2>3
    <3>3. current' \in [1 .. 3 -> Blocks] /\ current'[1] = Head(line) /\ current'[3] = current[3]
      BY <3>1, <2>2, <2>3
    <3>4. state' = [state EXCEPT ![1] = "hold"] /\ "hold" \in States
      BY <2>2, <2>5 DEF States
    <3>5. /\ state' \in [1 .. 3 -> States]
          /\ state'[1] = "hold" /\ state'[2] = state[2] /\ state'[3] = state[3]
      BY <3>1, <3>4
    <3> QED  BY <3>2, <3>3, <3>5
  <2>7. Roads'
    BY <1>1, <2>6 DEF Types, Roads
  <2>8. Upstream(w, s)'
    <3>1. Hand(1)' = 1 /\ ~hitPoison' /\ filled' = filled
      BY <2>4, <2>6 DEF Hand, Aside
    <3>2. filled + 1 + Len(Tail(line)) = s + N
      BY <2>3, <2>4, <1>1
    <3>3. \A p \in 1 .. Len(Tail(line)) : Tail(line)[p] = Fresh(filled + 1 + p)
      <4> SUFFICES ASSUME NEW p \in 1 .. Len(line) - 1  PROVE Tail(line)[p] = Fresh(filled + 1 + p)
        BY <2>3
      <4>1. p + 1 \in 1 .. Len(line) /\ filled + 0 + (p + 1) = filled + 1 + p
        BY <2>3, <1>1
      <4> QED  BY <4>1, <2>3, <2>4
    <3> QED  BY <3>1, <3>2, <3>3, <2>5, <2>6 DEF Upstream
  <2> QED  BY <2>2, <2>6, <2>7, <2>8
<1> QED  BY <1>3, <1>4

---------------------------------------------------------------------------
\* The sink.

\* What the sink changes of the roads and what it writes is all there is to show.
LEMMA SinkStep ==
  ASSUME NEW w, NEW e \in Nat, NEW s \in Nat, NEW f \in Nat, Now(w, e, s, f), NEW r \in Nat, s <= r,
         Aside, UNCHANGED <<filled, memory>>,
         Roads', queue'[1] = queue[1], state'[1] = state[1], state'[2] = state[2], sent' \in Seq(Int),
         Upstream(w, r)', Downstream(w, e, r, f)', Sent(w, e, r)'
  PROVE  Now(w, e, r, f)'
<1> DEFINE g == f + Len(blocks)
<1>1. /\ w \in Seq(0 .. B) /\ Len(w) \in Nat /\ filled \in Nat
      /\ Between(w, g) /\ Holds(w, f) /\ Stored(w, s) /\ Client(w, e, f) /\ Types /\ w = use.fills
  BY NowFacts DEF Now
<1>2. Types'
  BY <1>1, TypesAside
<1>3. Between(w, g)' /\ g' = g
  <2>1. g' = g /\ hitPoison' = hitPoison /\ filled' = filled
    BY DEF Aside
  <2> HIDE DEF g
  <2> QED  BY <2>1, <1>1, BetweenKept
<1>4. Holds(w, f)' /\ w = use'.fills
  BY <1>1 DEF Holds, Aside
<1>5. Client(w, e, f)'
  BY <1>1, ClientKept DEF Aside
<1>6. Stored(w, r)'
  BY <1>1, StoredKept
<1> QED  BY <1>2, <1>3, <1>4, <1>5, <1>6 DEF Now, Ring

LEMMA SinkStartStep ==
  ASSUME NEW w, NEW e \in Nat, NEW s \in Nat, NEW f \in Nat, Now(w, e, s, f),
         Reader!Start(3), Aside, UNCHANGED <<filled, memory, sent>>
  PROVE  Now(w, e, s, f)'
<1>1. Upstream(w, s) /\ Downstream(w, e, s, f) /\ Sent(w, e, s) /\ Types
  BY NowFacts
<1>2. state[3] = "unstarted" /\ state' = [state EXCEPT ![3] = "consume"] /\ UNCHANGED <<queue, current>>
  BY DEF Reader!Start
<1>3. "consume" \in States /\ state \in [1 .. 3 -> States]
  BY <1>1 DEF Types, Roads, States
<1>4. state' \in [1 .. 3 -> States] /\ state'[3] = "consume" /\ state'[2] = state[2] /\ state'[1] = state[1]
  BY <1>2, <1>3
<1>5. Roads' /\ sent' \in Seq(Int)
  BY <1>1, <1>2, <1>4 DEF Types, Roads
<1>6. Upstream(w, s)'
  BY <1>1, <1>2, <1>4, UpstreamKept DEF Aside
<1>7. Downstream(w, e, s, f)'
  <2>1. Hand(3) = 0 /\ Hand(3)' = 0
    BY <1>2, <1>4 DEF Hand
  <2> QED  BY <2>1, <1>1, <1>2, <1>4 DEF Downstream
<1>8. Sent(w, e, s)'
  BY <1>1 DEF Sent
<1> QED  BY <1>2, <1>4, <1>5, <1>6, <1>7, <1>8, SinkStep

LEMMA SinkPoisonStep ==
  ASSUME NEW w, NEW e \in Nat, NEW s \in Nat, NEW f \in Nat, Now(w, e, s, f),
         Reader!PassPoison(3), Aside, UNCHANGED <<filled, memory, sent>>
  PROVE  Now(w, e, s, f)'
<1>1. Upstream(w, s) /\ Downstream(w, e, s, f) /\ Sent(w, e, s) /\ Types /\ Client(w, e, f)
  BY NowFacts
<1>2. PICK line \in Seq(Blocks), new \in Blocks : line = queue[0] /\ new = current[3]
  BY <1>1 DEF Types, Roads
<1>3. /\ state[3] = "poison" /\ state' = [state EXCEPT ![3] = "done"] /\ UNCHANGED current
      /\ queue' = [queue EXCEPT ![0] = Append(line, new)]
  BY <1>2 DEF Reader!PassPoison, Reader!Out
<1>4. /\ "done" \in States /\ state \in [1 .. 3 -> States]
      /\ queue \in [0 .. 2 -> Seq(Blocks)] /\ Append(line, new) \in Seq(Blocks)
  BY <1>1, <1>2, Ends DEF Types, Roads, States
<1>5. state' \in [1 .. 3 -> States] /\ state'[3] = "done" /\ state'[2] = state[2] /\ state'[1] = state[1]
  BY <1>3, <1>4
<1>6. queue' \in [0 .. 2 -> Seq(Blocks)] /\ queue'[1] = queue[1] /\ queue'[2] = queue[2]
  BY <1>3, <1>4
<1>7. Roads' /\ sent' \in Seq(Int)
  BY <1>1, <1>3, <1>5, <1>6 DEF Types, Roads
<1>8. Upstream(w, s)'
  <2>1. state[2] = "done"
    BY <1>1, <1>3 DEF Downstream
  <2>2. hitPoison
    BY <2>1, <1>1 DEF Client, Gone, Destroyed
  <2>3. state[1] = "done"
    BY <2>2, <1>1 DEF Upstream
  <2> QED  BY <2>3, <1>1, <1>5 DEF Upstream, Aside
<1>9. Downstream(w, e, s, f)'
  <2>1. Hand(3) = 0 /\ Hand(3)' = 0
    BY <1>3, <1>5 DEF Hand
  <2> QED  BY <2>1, <1>1, <1>3, <1>5, <1>6 DEF Downstream
<1>10. Sent(w, e, s)'
  BY <1>1 DEF Sent
<1> QED  BY <1>5, <1>6, <1>7, <1>8, <1>9, <1>10, SinkStep

LEMMA SinkConsumeStep ==
  ASSUME NEW w, NEW e \in Nat, NEW s \in Nat, NEW f \in Nat, Now(w, e, s, f),
         Reader!Consume(3), Aside, UNCHANGED <<filled, memory, sent>>
  PROVE  Now(w, e, s, f)'
<1>1. Upstream(w, s) /\ Downstream(w, e, s, f) /\ Sent(w, e, s) /\ Types /\ s <= f
  BY NowFacts
<1>2. PICK line \in Seq(Blocks) : line = queue[2]
  BY <1>1 DEF Types, Roads
<1>3. /\ state[3] = "consume" /\ line # << >>
      /\ current' = [current EXCEPT ![3] = Head(line)]
      /\ queue' = [queue EXCEPT ![2] = Tail(line)]
      /\ state' = [state EXCEPT ![3] = IF Reader!IsPoison(Head(line)) THEN "poison" ELSE "hold"]
  BY <1>2 DEF Reader!Consume
<1>4. /\ Head(line) \in Blocks /\ Head(line) = line[1]
      /\ Tail(line) \in Seq(Blocks) /\ Len(Tail(line)) = Len(line) - 1 /\ Len(line) >= 1 /\ Len(line) \in Nat
      /\ \A p \in 1 .. Len(line) - 1 : Tail(line)[p] = line[p + 1]
  BY <1>2, <1>3, Ends
<1>5. PICK x : x = IF Reader!IsPoison(Head(line)) THEN "poison" ELSE "hold"
  OBVIOUS
<1>6. /\ x \in States /\ x \in {"poison", "hold"} /\ state \in [1 .. 3 -> States]
      /\ queue \in [0 .. 2 -> Seq(Blocks)] /\ current \in [1 .. 3 -> Blocks]
  BY <1>1, <1>5 DEF Types, Roads, States
<1>7. state' \in [1 .. 3 -> States] /\ state'[3] = x /\ state'[2] = state[2] /\ state'[1] = state[1]
  BY <1>3, <1>5, <1>6
<1>8. queue' \in [0 .. 2 -> Seq(Blocks)] /\ queue'[0] = queue[0] /\ queue'[1] = queue[1] /\ queue'[2] = Tail(line)
  BY <1>3, <1>4, <1>6
<1>9. current' \in [1 .. 3 -> Blocks] /\ current'[1] = current[1] /\ current'[3] = Head(line)
  BY <1>3, <1>4, <1>6
<1>10. Roads' /\ sent' \in Seq(Int)
  BY <1>1, <1>6, <1>7, <1>8, <1>9 DEF Types, Roads
<1>11. Upstream(w, s)'
  BY <1>1, <1>7, <1>8, <1>9, UpstreamKept DEF Aside
<1>12. Downstream(w, e, s, f)'
  <2> DEFINE left == f - s
  <2>1. Hand(3) = 0 /\ left \in Nat /\ f - s - 0 = left
    BY <1>1, <1>3 DEF Hand
  <2>2. /\ Len(line) = left \/ (Len(line) = left + 1 /\ line[left + 1].mem = 0 /\ state[2] = "done")
        /\ \A p \in 1 .. left : line[p] = Left(w, e, s + 0 + p)
    BY <1>1, <1>2, <2>1 DEF Downstream
  <2>3. CASE left = 0
    <3>1. Len(line) = 1 /\ Head(line).mem = 0 /\ state[2] = "done" /\ s = f
      <4>1. left + 1 = 1 /\ s = f /\ Len(line) # left
        BY <2>1, <2>3, <1>1, <1>4
      <4> HIDE DEF left
      <4> QED  BY <4>1, <2>2, <2>3, <1>4
    <3>2. x = "poison"
      BY <3>1, <1>5 DEF Reader!IsPoison, Reader!NoMemory
    <3>3. Hand(3)' = 0 /\ Len(queue'[2]) = 0
      BY <3>1, <3>2, <1>4, <1>7, <1>8 DEF Hand
    <3> QED  BY <3>1, <3>2, <3>3, <1>7, <1>1 DEF Downstream
  <2>4. CASE left # 0
    <3>1. Head(line) = Left(w, e, s + 1)
      <4>1. 1 \in 1 .. left /\ s + 0 + 1 = s + 1
        BY <2>1, <2>4
      <4> QED  BY <4>1, <2>2, <1>4
    <3>2. x = "hold"
      <4>1. Wrap(s + 1) \in 1 .. N /\ N \in Nat
        <5>1. s + 1 \in Nat \ {0}
          OBVIOUS
        <5> QED  BY <5>1, CellFacts, Sizes
      <4> QED  BY <4>1, <3>1, <1>5 DEF Reader!IsPoison, Reader!NoMemory, Left
    <3>3. Hand(3)' = 1 /\ s + 1 <= f /\ f - s - 1 = left - 1
      BY <3>2, <1>7, <2>1, <2>4, <1>1 DEF Hand
    <3>4. \A p \in 1 .. left - 1 : Tail(line)[p] = Left(w, e, s + 1 + p)
      <4> SUFFICES ASSUME NEW p \in 1 .. left - 1  PROVE Tail(line)[p] = Left(w, e, s + 1 + p)
        OBVIOUS
      <4>1. p \in 1 .. Len(line) - 1 /\ p + 1 \in 1 .. left /\ s + 0 + (p + 1) = s + 1 + p
        <5> HIDE DEF left
        <5>1. Len(line) >= left /\ Len(line) \in Int /\ left \in Int
          <6>1. Len(line) = left \/ Len(line) = left + 1
            BY <2>2
          <6>2. left \in Nat /\ Len(line) \in Nat
            BY <2>1, <1>4
          <6> QED  BY ONLY <6>1, <6>2
        <5> QED  BY <5>1
      <4> QED  BY <4>1, <2>2, <1>4
    <3>5. \/ Len(Tail(line)) = left - 1
          \/ Len(Tail(line)) = left - 1 + 1 /\ Tail(line)[left - 1 + 1].mem = 0 /\ state[2] = "done"
      <4> HIDE DEF left
      <4>1. CASE Len(line) = left
        BY <4>1, <1>4
      <4>2. CASE Len(line) = left + 1 /\ line[left + 1].mem = 0 /\ state[2] = "done"
        <5>1. left \in 1 .. Len(line) - 1 /\ left - 1 + 1 = left
          BY <4>2, <2>1, <2>4
        <5> QED  BY <5>1, <4>2, <1>4
      <4> QED  BY <4>1, <4>2, <2>2
    <3> HIDE DEF left
    <3> QED  BY <3>1, <3>2, <3>3, <3>4, <3>5, <1>7, <1>8, <1>9 DEF Downstream
  <2> QED  BY <2>3, <2>4
<1>13. Sent(w, e, s)'
  BY <1>1 DEF Sent
<1> QED  BY <1>7, <1>8, <1>10, <1>11, <1>12, <1>13, SinkStep

\* The sink writes a block: the next records, which are where they were put.
LEMMA SinkWriteStep ==
  ASSUME NEW w, NEW e \in Nat, NEW s \in Nat, NEW f \in Nat, Now(w, e, s, f), Reader!WriteBlock
  PROVE  Now(w, e, s + 1, f)'
<1> DEFINE n == s + 1
<1>1. /\ w \in Seq(0 .. B) /\ Len(w) \in Nat /\ filled \in Nat /\ filled <= Len(w)
      /\ Len(blocks) \in Nat /\ f + Len(blocks) <= filled /\ s <= f
      /\ Upstream(w, s) /\ Downstream(w, e, s, f) /\ Stored(w, s) /\ Sent(w, e, s) /\ Client(w, e, f) /\ Types
  BY NowFacts
<1>2. PICK line \in Seq(Blocks) : line = queue[0]
  BY <1>1 DEF Types, Roads
<1>3. PICK block \in Blocks : block = current[3]
  BY <1>1 DEF Types, Roads
<1>4. /\ state[3] = "hold" /\ state' = [state EXCEPT ![3] = "consume"] /\ UNCHANGED current
      /\ queue' = [queue EXCEPT ![0] = Append(line, [block EXCEPT !.valid = B])]
      /\ sent' = sent \o [k \in 1 .. block.valid |-> memory[Reader!Get(block) + k - 1]]
      /\ Aside /\ UNCHANGED <<filled, memory>>
  BY <1>2, <1>3 DEF Reader!WriteBlock, Reader!Pass, Reader!Sink, Reader!Out, Reader!svars, Reader!cvars, Aside, B
<1>5. Hand(3) = 1 /\ n <= f /\ block = Left(w, e, n) /\ n \in 1 .. Len(w) /\ n \in s + 1 .. filled /\ s # Len(w)
  <2>1. Hand(3) = 1
    BY <1>4 DEF Hand
  <2>2. n <= f /\ block = Left(w, e, n)
    BY <2>1, <1>1, <1>3, <1>4 DEF Downstream
  <2> QED  BY <2>1, <2>2, <1>1
<1>6. Wrap(n) \in 1 .. N /\ Wrap(n + N) = Wrap(n) /\ Cell(n, 1) \in Nat /\ N \in Nat
      /\ \A j \in 1 .. B : Cell(n, j) = Cell(n, 1) + (j - 1)
  <2>1. n \in Nat \ {0}
    BY <1>5
  <2> HIDE DEF n
  <2> QED  BY <2>1, CellFacts, Sizes
<1>7. [block EXCEPT !.valid = B] = Fresh(n) /\ Fresh(n) \in Blocks /\ Reader!Get(block) = Cell(n, 1)
  BY <1>5, <1>6, Sizes DEF Left, Fresh, Blocks, Reader!Get, Cell, B
<1>8. PICK new \in Blocks : new = Fresh(n)
  BY <1>7
<1>9. /\ Append(line, new) \in Seq(Blocks) /\ Len(Append(line, new)) = Len(line) + 1
      /\ \A p \in 1 .. Len(line) : Append(line, new)[p] = line[p]
      /\ Append(line, new)[Len(line) + 1] = new
  BY Ends
<1>10. /\ "consume" \in States /\ state \in [1 .. 3 -> States]
       /\ queue \in [0 .. 2 -> Seq(Blocks)]
  BY <1>1 DEF Types, Roads, States
<1>11. state' \in [1 .. 3 -> States] /\ state'[3] = "consume" /\ state'[2] = state[2] /\ state'[1] = state[1]
  BY <1>4, <1>10
<1>12. /\ queue' \in [0 .. 2 -> Seq(Blocks)] /\ queue'[1] = queue[1] /\ queue'[2] = queue[2]
       /\ queue'[0] = Append(line, new)
  <2>1. queue' = [queue EXCEPT ![0] = Append(line, new)]
    BY <1>4, <1>7, <1>8
  <2> QED  BY <2>1, <1>9, <1>10
<1>13. Roads'
  BY <1>1, <1>4, <1>11, <1>12 DEF Types, Roads
<1>14. Upstream(w, n)'
  <2>1. CASE state[1] = "done"
    BY <2>1, <1>1, <1>4, <1>11 DEF Upstream
  <2>2. CASE state[1] # "done"
    <3>1. PICK h \in {0, 1} : h = Hand(1) /\ h = Hand(1)'
      BY <1>11 DEF Hand
    <3>2. /\ filled + h + Len(line) = s + N /\ ~hitPoison /\ ~hitPoison'
          /\ \A p \in 1 .. Len(line) : line[p] = Fresh(filled + h + p)
          /\ state[1] = "hold" => current[1] = Fresh(filled + 1)
      BY <2>2, <3>1, <1>1, <1>2, <1>4 DEF Upstream, Aside
    <3>3. Len(line) \in Nat /\ filled + h + Len(Append(line, new)) = n + N
      <4>1. Len(line) \in Nat
        BY <1>2
      <4>2. filled + h + (Len(line) + 1) = filled + h + Len(line) + 1 /\ s + N + 1 = n + N
        BY <4>1, <1>1, <1>6
      <4> HIDE DEF n
      <4> QED  BY <4>1, <4>2, <3>2, <1>9
    <3>4. \A p \in 1 .. Len(Append(line, new)) : Append(line, new)[p] = Fresh(filled + h + p)
      <4> SUFFICES ASSUME NEW p \in 1 .. Len(line) + 1  PROVE Append(line, new)[p] = Fresh(filled + h + p)
        BY <1>9
      <4>1. CASE p \in 1 .. Len(line)
        BY <4>1, <3>2, <1>9
      <4>2. CASE p = Len(line) + 1
        <5>1. filled + h + p = n + N
          BY <4>2, <3>2, <3>3, <1>1, <1>6
        <5>2. Fresh(n + N) = Fresh(n)
          BY <1>6 DEF Fresh
        <5> QED  BY <5>1, <5>2, <4>2, <1>8, <1>9
      <4> QED  BY <4>1, <4>2, <3>3
    <3> HIDE DEF n
    <3> QED  BY <2>2, <3>1, <3>2, <3>3, <3>4, <1>4, <1>11, <1>12 DEF Upstream
  <2> QED  BY <2>1, <2>2
<1>15. Downstream(w, e, n, f)'
  <2>1. Hand(3)' = 0 /\ n + 0 <= f /\ f - n - 0 = f - s - 1 /\ state'[2] = state[2]
        /\ \A p : n + 0 + p = n + p
    <3>1. Hand(3)' = 0
      BY <1>11 DEF Hand
    <3>2. n + 0 = n
      BY <1>5
    <3> QED  BY <3>1, <3>2, <1>1, <1>5, <1>11
  <2>2. /\ Len(queue[2]) = f - s - 1 \/ (Len(queue[2]) = f - s - 1 + 1 /\ queue[2][f - s - 1 + 1].mem = 0 /\ state[2] = "done")
        /\ \A p \in 1 .. f - s - 1 : queue[2][p] = Left(w, e, n + p)
    BY <1>1, <1>5 DEF Downstream
  <2> HIDE DEF n
  <2> QED  BY <2>1, <2>2, <1>11, <1>12 DEF Downstream
<1>16. PICK v : v = block.valid
  OBVIOUS
<1>17. v \in Nat /\ v <= w[n] /\ v <= B /\ Before(w, s) + v = (IF n = Len(w) THEN e ELSE Before(w, n))
       /\ Before(w, s) \in Nat
  <2>1. w[n] \in 0 .. B /\ Before(w, n) = Before(w, n - 1) + w[n] /\ n - 1 = s /\ Before(w, s) \in Nat
    <3>1. s \in 0 .. Len(w) /\ n - 1 = s
      BY <1>1, <1>5
    <3> QED  BY <3>1, <1>1, <1>5, BeforeFacts
  <2>2. v = IF n = Len(w) THEN e - Before(w, s) ELSE w[n]
    BY <2>1, <1>5, <1>16 DEF Left
  <2>3. CASE n = Len(w)
    <3>1. f = Len(w) /\ f # 0 /\ f - 1 = s
      BY <2>3, <1>1, <1>5
    <3>2. Before(w, s) <= e /\ e <= Before(w, n)
      <4>1. CASE Gone
        BY <4>1, <3>1, <2>3, <1>1 DEF Client, Destroyed
      <4>2. CASE ~Gone
        <5>1. e = Before(w, n)
          BY <4>2, <2>3, <1>1 DEF Client
        <5> QED  BY <5>1, <2>1
      <4> QED  BY <4>1, <4>2
    <3>3. B \in Nat /\ w[n] \in Nat
      BY <2>1, Sizes
    <3> HIDE DEF n
    <3> QED  BY <2>1, <2>2, <2>3, <3>2, <3>3, SMTT(20)
  <2>4. CASE n # Len(w)
    <3>1. v = w[n] /\ v \in Nat /\ v <= B
      BY <2>1, <2>2, <2>4, Sizes
    <3> HIDE DEF n
    <3> QED  BY <2>1, <2>4, <3>1
  <2> QED  BY <2>3, <2>4
<1>18. PICK more : more = [k \in 1 .. v |-> memory[Cell(n, 1) + k - 1]]
  OBVIOUS
<1>19. more \in Seq(Int) /\ Len(more) = v /\ \A k \in 1 .. v : more[k] = Before(w, s) + k
  <2>1. \A k \in 1 .. v : memory[Cell(n, 1) + k - 1] = Before(w, s) + k
    <3> SUFFICES ASSUME NEW k \in 1 .. v  PROVE memory[Cell(n, 1) + k - 1] = Before(w, s) + k
      OBVIOUS
    <3>1. k \in 1 .. B /\ k <= w[n] /\ k \in Int
      <4>1. w[n] \in Int /\ B \in Int
        <5>1. w[n] \in 0 .. B
          BY <1>1, <1>5, BeforeFacts
        <5> HIDE DEF n
        <5> QED  BY <5>1, Sizes
      <4> HIDE DEF n
      <4> QED  BY <4>1, <1>17
    <3>2. memory[Cell(n, k)] = Before(w, n - 1) + k
      BY <3>1, <1>1, <1>5 DEF Stored
    <3>3. Cell(n, k) = Cell(n, 1) + k - 1
      <4>1. Cell(n, k) = Cell(n, 1) + (k - 1)
        BY <3>1, <1>6
      <4> HIDE DEF n
      <4> QED  BY <4>1, <3>1, <1>6
    <3>4. n - 1 = s
      OBVIOUS
    <3> QED  BY <3>2, <3>3, <3>4
  <2>2. \A k \in 1 .. v : more[k] = Before(w, s) + k /\ more[k] \in Int
    <3> SUFFICES ASSUME NEW k \in 1 .. v  PROVE more[k] = Before(w, s) + k /\ more[k] \in Int
      OBVIOUS
    <3>1. more[k] = Before(w, s) + k
      BY <2>1, <1>18
    <3> QED  BY <3>1, <1>17
  <2>3. more \in [1 .. v -> Int]
    BY <2>2, <1>18
  <2> QED  BY <2>2, <2>3, <1>17
<1>20. Sent(w, e, n)' /\ sent' \in Seq(Int)
  <2>1. sent' = sent \o more /\ sent \in Seq(Int)
    BY <1>1, <1>4, <1>7, <1>16, <1>18 DEF Types
  <2>2. /\ sent' \in Seq(Int) /\ Len(sent') = Len(sent) + v
        /\ \A k \in 1 .. Len(sent) : sent'[k] = sent[k]
        /\ \A k \in 1 .. v : sent'[Len(sent) + k] = more[k]
    <3>1. PICK old \in Seq(Int), tail \in Seq(Int) : old = sent /\ tail = more
      BY <2>1, <1>19
    <3>2. Len(tail) = v
      BY <3>1, <1>19
    <3>3. /\ old \o tail \in Seq(Int) /\ Len(old \o tail) = Len(old) + Len(tail)
          /\ \A k \in 1 .. Len(old) : (old \o tail)[k] = old[k]
          /\ \A k \in 1 .. Len(tail) : (old \o tail)[Len(old) + k] = tail[k]
      BY Joins
    <3> QED  BY <3>1, <3>2, <3>3, <2>1
  <2>3. Len(sent) = Before(w, s) /\ \A k \in 1 .. Len(sent) : sent[k] = k
    <3>1. DOMAIN sent = 1 .. Len(sent)
      BY <2>1
    <3> QED  BY <3>1, <1>1, <1>5 DEF Sent
  <2>4. ASSUME NEW k \in 1 .. Len(sent')  PROVE sent'[k] = k
    <3>1. CASE k \in 1 .. Len(sent)
      BY <3>1, <2>2, <2>3
    <3>2. CASE k \notin 1 .. Len(sent)
      <4>1. PICK i \in 1 .. v : k = Len(sent) + i
        <5>1. PICK l \in Nat : l = Len(sent)
          BY <2>1
        <5>2. k \in Nat /\ k <= l + v /\ l < k /\ v \in Nat
          <6>1. v \in Nat /\ Len(sent') = l + v
            BY <5>1, <2>2, <1>17
          <6> QED  BY <6>1, <5>1, <3>2
        <5>3. k - l \in 1 .. v /\ k = l + (k - l)
          BY ONLY <5>2, l \in Nat
        <5> QED  BY <5>1, <5>3
      <4> QED  BY <4>1, <2>2, <2>3, <1>19
    <3> QED  BY <3>1, <3>2
  <2>5. DOMAIN sent' = 1 .. Len(sent')
    BY <2>2
  <2>6. Len(sent') = IF n = Len(w) THEN e ELSE Before(w, n)
    BY <2>2, <2>3, <1>17
  <2> QED  BY <2>2, <2>4, <2>5, <2>6 DEF Sent
<1>21. n \in Nat /\ s <= n
  OBVIOUS
<1> QED  BY <1>4, <1>11, <1>12, <1>13, <1>14, <1>15, <1>20, <1>21, SinkStep

---------------------------------------------------------------------------
\* The stream and its client.

LEMMA ClientStep ==
  ASSUME NEW w, NEW e \in Nat, NEW s \in Nat, NEW f \in Nat, Now(w, e, s, f), NEW d \in Nat, NEW h \in Nat,
         Apart, UNCHANGED current, Roads', StreamTypes',
         queue'[0] = queue[0], state'[1] = state[1], hitPoison' = hitPoison \/ state[1] = "done",
         Between(w, h + Len(blocks))', Holds(w, h)', Downstream(w, d, s, h)', Sent(w, d, s)', Client(w, d, h)'
  PROVE  Now(w, d, s, h)'
<1>1. Upstream(w, s) /\ Stored(w, s) /\ Types /\ w = use.fills /\ filled \in Nat
  BY NowFacts DEF Now
<1>2. Types'
  BY <1>1 DEF Types, Apart
<1>3. Upstream(w, s)'
  <2>1. CASE state[1] = "done"
    BY <2>1, <1>1 DEF Upstream, Apart
  <2>2. CASE state[1] # "done"
    BY <2>2, <1>1, UpstreamKept DEF Apart
  <2> QED  BY <2>1, <2>2
<1>4. Stored(w, s)'
  BY <1>1, StoredKept DEF Apart
<1>5. w = use'.fills
  BY <1>1 DEF Apart
<1> QED  BY <1>2, <1>3, <1>4, <1>5 DEF Now, Ring

\* The first n of the blocks held, of which h are then sent in all, go behind those on
\* their way to the sink.
Flushing(w, e, s, f, d, held, n, h, line) ==
  /\ Now(w, e, s, f) /\ state[2] # "done" /\ d \in Nat /\ held \in Seq(Blocks) /\ n \in 0 .. Len(held)
  /\ \A p \in 1 .. n : held[p] = Left(w, d, f + p)
  /\ \A k \in s + 1 .. f : Left(w, d, k) = Left(w, e, k)
  /\ h = f + n
  /\ line = queue[2] \o SubSeq(held, 1, n)

LEMMA FlushSends ==
  ASSUME NEW w, NEW e \in Nat, NEW s \in Nat, NEW f \in Nat, NEW d, NEW held, NEW n, NEW h, NEW line,
         Flushing(w, e, s, f, d, held, n, h, line),
         queue' = [queue EXCEPT ![2] = line], UNCHANGED current, state'[3] = state[3]
  PROVE  /\ Downstream(w, d, s, h)'
         /\ queue' \in [0 .. 2 -> Seq(Blocks)] /\ queue'[0] = queue[0] /\ queue'[1] = queue[1]
<1>0. /\ Now(w, e, s, f) /\ state[2] # "done" /\ d \in Nat /\ held \in Seq(Blocks) /\ n \in 0 .. Len(held)
      /\ \A p \in 1 .. n : held[p] = Left(w, d, f + p)
      /\ \A k \in s + 1 .. f : Left(w, d, k) = Left(w, e, k)
      /\ h = f + n
      /\ line = queue[2] \o SubSeq(held, 1, n)
  BY DEF Flushing
<1>1. Downstream(w, e, s, f) /\ Types /\ s <= f
  BY <1>0, NowFacts
<1>2. PICK going \in Seq(Blocks) : going = queue[2]
  BY <1>1 DEF Types, Roads
<1>3. PICK out \in Seq(Blocks) : out = SubSeq(held, 1, n) /\ Len(out) = n /\ \A p \in 1 .. n : out[p] = held[p]
  <2>1. /\ SubSeq(held, 1, n) \in Seq(Blocks) /\ Len(SubSeq(held, 1, n)) = n
        /\ \A p \in 1 .. n : SubSeq(held, 1, n)[p] = held[p]
    BY <1>0, Parts
  <2> QED  BY <2>1
<1>4. /\ line \in Seq(Blocks) /\ Len(line) = Len(going) + n
      /\ \A p \in 1 .. Len(going) : line[p] = going[p]
      /\ \A p \in 1 .. n : line[Len(going) + p] = out[p]
  <2>1. /\ going \o out \in Seq(Blocks) /\ Len(going \o out) = Len(going) + Len(out)
        /\ \A p \in 1 .. Len(going) : (going \o out)[p] = going[p]
        /\ \A p \in 1 .. Len(out) : (going \o out)[Len(going) + p] = out[p]
    BY Joins
  <2>2. line = going \o out
    BY <1>0, <1>2, <1>3
  <2> QED  BY <2>1, <2>2, <1>3, ZenonT(30)
<1>6. /\ queue' \in [0 .. 2 -> Seq(Blocks)] /\ queue'[0] = queue[0] /\ queue'[1] = queue[1] /\ queue'[2] = line
  <2>1. queue \in [0 .. 2 -> Seq(Blocks)]
    BY <1>1 DEF Types, Roads
  <2> QED  BY <2>1, <1>4
<1>8. PICK hand \in {0, 1} : hand = Hand(3) /\ hand = Hand(3)'
  BY DEF Hand
<1>9. PICK left \in Nat : left = f - s - hand
  <2>1. s + hand <= f
    BY <1>1, <1>8 DEF Downstream
  <2>2. f - s - hand \in Nat
    BY <2>1
  <2> QED  BY <2>2
<1>10. /\ Len(going) = left /\ state[3] \notin {"poison", "done"}
       /\ \A p \in 1 .. left : going[p] = Left(w, e, s + hand + p)
       /\ state[3] = "hold" => current[3] = Left(w, e, s + 1)
  BY <1>0, <1>1, <1>2, <1>8, <1>9 DEF Downstream
<1>11. n \in Nat /\ f + n - s - hand = left + n /\ s + hand <= h /\ h = f + n /\ h - s - hand = left + n
  <2>1. n \in Nat /\ hand \in Nat /\ h = f + n
    BY <1>0, <1>8
  <2> QED  BY <2>1, <1>9
<1>12. \A p \in 1 .. left + n : line[p] = Left(w, d, s + hand + p)
  <2> SUFFICES ASSUME NEW p \in 1 .. left + n  PROVE line[p] = Left(w, d, s + hand + p)
    OBVIOUS
  <2>1. CASE p \in 1 .. left
    <3>1. line[p] = Left(w, e, s + hand + p)
      BY <2>1, <1>4, <1>10
    <3>2. s + hand + p \in s + 1 .. f
      <4>1. hand \in Int /\ hand >= 0
        BY <1>8
      <4>2. p \in Int /\ p >= 1 /\ p <= left
        BY <2>1
      <4>3. left = f - s - hand
        BY <1>9
      <4> QED  BY <4>1, <4>2, <4>3
    <3> QED  BY <3>1, <3>2, <1>0
  <2>2. CASE p \notin 1 .. left
    <3>1. p - left \in 1 .. n /\ p = left + (p - left) /\ f + (p - left) = s + hand + p
      <4>1. n \in Int /\ hand \in Int /\ p \in Int /\ 1 <= p /\ p <= left + n /\ left \in Nat
        BY <1>8, <1>11
      <4>2. ~(p <= left)
        BY <2>2, <4>1
      <4>3. left = f - s - hand
        BY <1>9
      <4> QED  BY <4>1, <4>2, <4>3
    <3>2. line[p] = out[p - left] /\ out[p - left] = held[p - left]
      BY <3>1, <1>3, <1>4, <1>10
    <3> QED  BY <3>1, <3>2, <1>0
  <2> QED  BY <2>1, <2>2
<1>13. state'[3] = "hold" => current'[3] = Left(w, d, s + 1)
  <2> SUFFICES ASSUME state[3] = "hold"  PROVE current[3] = Left(w, d, s + 1)
    OBVIOUS
  <2>1. s + 1 \in s + 1 .. f
    BY <1>1, <1>8, <1>9 DEF Hand
  <2> QED  BY <2>1, <1>0, <1>10
<1>14. Downstream(w, d, s, h)'
  <2>1. Len(line) = left + n
    BY <1>4, <1>10
  <2>2. Hand(3)' = hand /\ state'[3] = state[3] /\ queue'[2] = line
    BY <1>6, <1>8
  <2>6. h - s - hand = left + n /\ s + hand <= h
    BY <1>11
  <2>3. s + Hand(3)' <= h /\ Len(queue'[2]) = h - s - Hand(3)'
    BY <2>1, <2>2, <2>6
  <2>4. \A p \in 1 .. h - s - Hand(3)' : queue'[2][p] = Left(w, d, s + Hand(3)' + p)
    BY <2>2, <2>6, <1>12
  <2>5. state'[3] \notin {"poison", "done"}
    BY <2>2, <1>10
  <2> QED  BY <2>3, <2>4, <2>5, <1>13 DEF Downstream
<1> QED  BY <1>6, <1>14

\* Until the stream is destroyed it sends blocks as they came.
LEMMA LeftAsFilled ==
  ASSUME NEW w \in Seq(0 .. B), NEW k \in 1 .. Len(w)
  PROVE  Left(w, Before(w, Len(w)), k) = Filled(w, k)
<1>1. /\ Before(w, k) = Before(w, k - 1) + w[k] /\ Before(w, k - 1) \in Nat /\ w[k] \in Nat
  <2>1. k - 1 \in 0 .. Len(w) /\ w[k] \in 0 .. B
    BY BeforeFacts
  <2> QED  BY <2>1, BeforeFacts, Sizes
<1>2. Before(w, k) - Before(w, k - 1) = w[k]
  BY <1>1
<1> QED  BY <1>2 DEF Left, Filled

Keeping(w, e, s, f, n, h) == Now(w, e, s, f) /\ ~Gone /\ n \in 0 .. Len(blocks) /\ h = f + n

LEMMA FlushKeeps ==
  ASSUME NEW w, NEW e \in Nat, NEW s \in Nat, NEW f \in Nat, NEW n, NEW h, Keeping(w, e, s, f, n, h),
         Reader!Flush(blocks, n), UNCHANGED current, state'[3] = state[3]
  PROVE  /\ Downstream(w, e, s, h)' /\ Holds(w, h)' /\ h + Len(blocks') = f + Len(blocks)
         /\ queue' \in [0 .. 2 -> Seq(Blocks)] /\ queue'[0] = queue[0] /\ queue'[1] = queue[1]
         /\ blocks' \in Seq(Blocks) /\ Len(blocks') = Len(blocks) - n
<1>0. Now(w, e, s, f) /\ ~Gone /\ n \in 0 .. Len(blocks) /\ h = f + n
  BY DEF Keeping
<1>1. /\ w \in Seq(0 .. B) /\ Len(w) \in Nat /\ filled <= Len(w) /\ filled \in Nat
      /\ Len(blocks) \in Nat /\ f + Len(blocks) <= filled /\ Holds(w, f) /\ Client(w, e, f) /\ Types
  BY <1>0, NowFacts
<1>2. PICK held \in Seq(Blocks) : held = blocks
  BY <1>1 DEF Types, StreamTypes
<1>3. \A p \in 1 .. n : held[p] = Left(w, e, f + p)
  <2> SUFFICES ASSUME NEW p \in 1 .. n  PROVE held[p] = Left(w, e, f + p)
    OBVIOUS
  <2>1. p \in 1 .. Len(blocks) /\ f + p \in 1 .. Len(w)
    BY <1>0, <1>1
  <2>2. held[p] = Filled(w, f + p)
    BY <2>1, <1>1, <1>2 DEF Holds
  <2>3. e = Before(w, Len(w))
    BY <1>0, <1>1 DEF Client
  <2> QED  BY <2>1, <2>2, <2>3, <1>1, LeftAsFilled
<1>4. state[2] # "done"
  BY <1>0 DEF Gone
<1>5. /\ Downstream(w, e, s, h)'
      /\ queue' \in [0 .. 2 -> Seq(Blocks)] /\ queue'[0] = queue[0] /\ queue'[1] = queue[1]
      /\ blocks' \in Seq(Blocks) /\ Len(blocks') = Len(held) - n
      /\ \A p \in 1 .. Len(held) - n : blocks'[p] = held[n + p]
  <2>1. PICK line : line = queue[2] \o SubSeq(held, 1, n)
    OBVIOUS
  <2>2. PICK rest : rest = SubSeq(held, n + 1, Len(held))
    OBVIOUS
  <2>3. queue' = [queue EXCEPT ![2] = line] /\ blocks' = rest
    BY <1>2, <2>1, <2>2 DEF Reader!Flush, Reader!Out
  <2>4. Flushing(w, e, s, f, e, held, n, h, line)
    BY <2>1, <2>2, <1>0, <1>2, <1>3, <1>4 DEF Flushing
  <2>5. Downstream(w, e, s, h)'
    BY <2>3, <2>4, FlushSends
  <2>6. queue' \in [0 .. 2 -> Seq(Blocks)] /\ queue'[0] = queue[0] /\ queue'[1] = queue[1]
    BY <2>3, <2>4, FlushSends
  <2>7. blocks' \in Seq(Blocks) /\ Len(blocks') = Len(held) - n
    BY <2>2, <2>3, <1>0, <1>2, Parts
  <2>8. \A p \in 1 .. Len(held) - n : blocks'[p] = held[n + p]
    BY <2>2, <2>3, <1>0, <1>2, Parts
  <2> QED  BY <2>5, <2>6, <2>7, <2>8
<1>6. Holds(w, h)'
  <2> SUFFICES ASSUME NEW p \in 1 .. Len(held) - n  PROVE blocks'[p] = Filled(w, h + p)
    BY <1>5 DEF Holds
  <2>1. n + p \in 1 .. Len(held) /\ f + (n + p) = h + p
    BY <1>0, <1>1, <1>2
  <2>2. blocks'[p] = held[n + p]
    BY <1>5
  <2>3. held[n + p] = Filled(w, f + (n + p))
    BY <2>1, <1>1, <1>2 DEF Holds
  <2> QED  BY <2>1, <2>2, <2>3
<1>7. h + Len(blocks') = f + Len(blocks)
  <2>1. n \in Nat /\ Len(blocks') = Len(blocks) - n
    BY <1>0, <1>2, <1>5
  <2> QED  BY <2>1, <1>0, <1>1
<1> QED  BY <1>2, <1>5, <1>6, <1>7

\* Where the state of the stream and one queue change.
LEMMA Moves ==
  ASSUME Types, NEW x \in {"append", "ready", "aborted", "endpoison", "done"}, state' = [state EXCEPT ![2] = x],
         queue' \in [0 .. 2 -> Seq(Blocks)], UNCHANGED current
  PROVE  Roads' /\ state'[1] = state[1] /\ state'[2] = x /\ state'[3] = state[3]
<1>1. x \in States /\ state \in [1 .. 3 -> States] /\ current \in [1 .. 3 -> Blocks]
      /\ state[1] \in {"unstarted", "consume", "hold", "done"}
      /\ state[3] \in {"unstarted", "consume", "hold", "poison", "done"}
  BY DEF States, Types, Roads
<1>2. state' \in [1 .. 3 -> States] /\ state'[1] = state[1] /\ state'[2] = x /\ state'[3] = state[3]
  BY <1>1
<1>3. state'[2] \in {"unstarted", "append", "ready", "aborted", "endpoison", "done"}
  BY <1>2
<1> QED  BY <1>1, <1>2, <1>3 DEF Roads

\* The stream's own thread leaves what the client has.
Waits == Apart /\ UNCHANGED <<next, mark, rewinds>>

LEMMA StreamStartStep ==
  ASSUME NEW w, NEW e \in Nat, NEW s \in Nat, NEW f \in Nat, Now(w, e, s, f), Reader!StreamStart, Waits
  PROVE  Now(w, e, s, f)'
<1>1. /\ Between(w, f + Len(blocks)) /\ Holds(w, f) /\ Downstream(w, e, s, f)
      /\ Sent(w, e, s) /\ Client(w, e, f) /\ Types
  BY NowFacts
<1>2. /\ state[2] = "unstarted" /\ state' = [state EXCEPT ![2] = "append"] /\ UNCHANGED <<queue, current>>
      /\ UNCHANGED <<blocks, it, cursor, blockEnd, marked, hitPoison, poisoned, next, mark, rewinds>> /\ Apart
  BY DEF Reader!StreamStart, Reader!Goto, Reader!svars, Waits
<1>3. Roads' /\ state'[1] = state[1] /\ state'[2] = "append" /\ state'[3] = state[3]
  <2>1. queue' \in [0 .. 2 -> Seq(Blocks)]
    BY <1>1, <1>2 DEF Types, Roads
  <2> QED  BY <2>1, <1>1, <1>2, Moves
<1>4. StreamTypes'
  BY <1>1, <1>2 DEF Types, StreamTypes
<1>5. Between(w, f + Len(blocks))'
  BY <1>1, <1>2, <1>3 DEF Between, Apart
<1>6. Holds(w, f)' /\ Sent(w, e, s)'
  BY <1>1, <1>2 DEF Holds, Sent, Apart
<1>7. Downstream(w, e, s, f)'
  BY <1>1, <1>2, <1>3, DownstreamKept
<1>8. Client(w, e, f)'
  BY <1>1, <1>2, <1>3 DEF Client, Gone, Behind, Marked
<1> QED  BY <1>2, <1>3, <1>4, <1>5, <1>6, <1>7, <1>8, ClientStep

\* The stream takes an empty block, one with records, or the poison.
LEMMA AppendConsumeStep ==
  ASSUME NEW w, NEW e \in Nat, NEW s \in Nat, NEW f \in Nat, Now(w, e, s, f), Reader!AppendConsume, Waits
  PROVE  Now(w, e, s, f)'
<1>1. /\ w \in Seq(0 .. B) /\ Len(w) \in Nat /\ filled \in Nat /\ filled <= Len(w)
      /\ Len(blocks) \in Nat /\ f + Len(blocks) <= filled
      /\ Upstream(w, s) /\ Between(w, f + Len(blocks)) /\ Holds(w, f) /\ Downstream(w, e, s, f)
      /\ Sent(w, e, s) /\ Client(w, e, f) /\ Types
  BY NowFacts
<1>2. PICK g \in Nat : g = f + Len(blocks)
  BY <1>1
<1>3. PICK line \in Seq(Blocks), held \in Seq(Blocks) : line = queue[1] /\ held = blocks
  BY <1>1 DEF Types, Roads, StreamTypes
<1>4. /\ state[2] = "append" /\ line # << >> /\ queue' = [queue EXCEPT ![1] = Tail(line)]
      /\ UNCHANGED <<current, marked, next, mark, rewinds>> /\ Apart
  BY <1>3 DEF Reader!AppendConsume, Waits
<1>5. /\ Head(line) \in Blocks /\ Head(line) = line[1]
      /\ Tail(line) \in Seq(Blocks) /\ Len(Tail(line)) = Len(line) - 1 /\ Len(line) >= 1 /\ Len(line) \in Nat
      /\ \A p \in 1 .. Len(line) - 1 : Tail(line)[p] = line[p + 1]
  BY <1>4, Ends
<1>6. /\ queue' \in [0 .. 2 -> Seq(Blocks)] /\ queue'[0] = queue[0] /\ queue'[1] = Tail(line) /\ queue'[2] = queue[2]
  <2>1. queue \in [0 .. 2 -> Seq(Blocks)]
    BY <1>1 DEF Types, Roads
  <2> QED  BY <2>1, <1>4, <1>5
<1>7. ~hitPoison /\ ~poisoned /\ Behind(w, f) /\ e = Before(w, Len(w)) /\ Marked(w, f)
  BY <1>1, <1>4 DEF Client, Gone
<1>8. PICK more \in {0, 1} : more = IF state[1] = "done" THEN 1 ELSE 0
  OBVIOUS
<1>9. /\ Len(line) = filled - g + more /\ g <= filled
      /\ \A p \in 1 .. filled - g : line[p] = Filled(w, g + p)
      /\ state[1] = "done" => line[filled - g + 1].mem = 0
  BY <1>1, <1>2, <1>3, <1>7, <1>8 DEF Between
<1>10. /\ g < filled => Head(line) = Filled(w, g + 1) /\ ~Reader!IsPoison(Head(line))
       /\ g = filled => Reader!IsPoison(Head(line)) /\ state[1] = "done"
  <2>1. CASE g < filled
    <3>1. 1 \in 1 .. filled - g /\ g + 1 \in Nat \ {0}
      BY <2>1, <1>1
    <3>2. Head(line) = Filled(w, g + 1)
      BY <3>1, <1>5, <1>9
    <3>3. Wrap(g + 1) \in 1 .. N /\ N \in Nat
      BY <3>1, CellFacts, Sizes
    <3> QED  BY <2>1, <3>2, <3>3 DEF Filled, Reader!IsPoison, Reader!NoMemory
  <2>2. CASE g = filled
    <3>1. state[1] = "done" /\ filled - g + 1 = 1
      BY <2>2, <1>5, <1>8, <1>9
    <3>2. Head(line).mem = 0
      BY <3>1, <1>5, <1>9
    <3> QED  BY <3>1, <3>2, <2>2 DEF Reader!IsPoison, Reader!NoMemory
  <2> QED  BY <2>1, <2>2
<1>11. CASE g = filled
  <2>1. /\ hitPoison' /\ poisoned' /\ state' = [state EXCEPT ![2] = "ready"]
        /\ hitPoison' = TRUE /\ poisoned' = TRUE
        /\ UNCHANGED <<blocks, it, cursor, blockEnd>> /\ state[1] = "done"
    BY <1>3, <1>10, <1>11 DEF Reader!AppendConsume, Reader!Goto
  <2>2. Roads' /\ state'[1] = state[1] /\ state'[2] = "ready" /\ state'[3] = state[3]
    BY <2>1, <1>1, <1>4, <1>6, Moves
  <2>3. StreamTypes'
    BY <1>1, <1>4, <2>1 DEF Types, StreamTypes
  <2>4. Between(w, f + Len(blocks))'
    <3>1. (f + Len(blocks))' = g /\ filled' = filled
      BY <1>2, <1>4, <2>1 DEF Apart
    <3> QED  BY <3>1, <2>1, <1>11 DEF Between
  <2>5. Holds(w, f)' /\ Sent(w, e, s)'
    BY <1>1, <1>4, <2>1 DEF Holds, Sent, Apart
  <2>6. Downstream(w, e, s, f)'
    BY <1>1, <1>4, <1>6, <2>2, DownstreamKept
  <2>7. Client(w, e, f)'
    BY <1>4, <1>7, <2>1, <2>2 DEF Client, Gone, Behind, Marked
  <2> QED  BY <1>4, <1>6, <2>1, <2>2, <2>3, <2>4, <2>5, <2>6, <2>7, ClientStep
<1>12. CASE g < filled
  <2>1. PICK get \in Blocks : get = Head(line) /\ get = Filled(w, g + 1)
    BY <1>5, <1>10, <1>12
  <2>2. /\ g + 1 \in 1 .. Len(w) /\ g \in 0 .. Len(w) /\ g + 1 \in Nat \ {0} /\ g + 1 \in 0 .. Len(w)
        /\ w[g + 1] \in 0 .. B /\ B \in Nat
        /\ Before(w, g) \in Nat /\ Before(w, g + 1) = Before(w, g) + w[g + 1]
    <3>1. g + 1 \in 1 .. Len(w) /\ g \in 0 .. Len(w) /\ g + 1 - 1 = g
      BY <1>1, <1>12
    <3>2. w[g + 1] \in 0 .. B /\ Before(w, g) \in Nat /\ Before(w, g + 1) = Before(w, g + 1 - 1) + w[g + 1]
      BY <3>1, <1>1, BeforeFacts
    <3> QED  BY <3>1, <3>2, Sizes
  <2>3. /\ Append(held, get) \in Seq(Blocks) /\ Len(Append(held, get)) = Len(held) + 1
        /\ \A p \in 1 .. Len(held) : Append(held, get)[p] = held[p]
        /\ Append(held, get)[Len(held) + 1] = get
    BY Ends
  <2>4. /\ blocks' = Append(held, get) /\ UNCHANGED <<hitPoison, poisoned>>
        /\ IF get.valid = 0 THEN UNCHANGED <<state, it, cursor, blockEnd>>
           ELSE /\ state' = [state EXCEPT ![2] = "ready"] /\ it' = Len(blocks)
                /\ cursor' = Reader!Get(get) /\ blockEnd' = Reader!ValidEnd(get)
    BY <1>3, <1>10, <1>12, <2>1 DEF Reader!AppendConsume, Reader!Goto
  <2>5. get.valid = w[g + 1] /\ Reader!Get(get) = Cell(g + 1, 1) /\ Reader!ValidEnd(get) = Cell(g + 1, 1) + w[g + 1]
        /\ Cell(g + 1, 1) \in Nat
    <3>1. get.mem = Wrap(g + 1) /\ get.valid = w[g + 1]
      BY <2>1 DEF Filled
    <3>2. (Wrap(g + 1) - 1) * B + 1 = Cell(g + 1, 1) /\ Cell(g + 1, 1) \in Nat
      BY <2>2, CellFacts
    <3> QED  BY <3>1, <3>2 DEF Reader!Get, Reader!ValidEnd, B
  <2>6. /\ Roads' /\ state'[1] = state[1] /\ state'[3] = state[3]
        /\ state'[2] = IF w[g + 1] = 0 THEN "append" ELSE "ready"
    <3>1. CASE w[g + 1] = 0
      BY <3>1, <2>4, <2>5, <1>1, <1>4, <1>6 DEF Types, Roads
    <3>2. CASE w[g + 1] # 0
      BY <3>2, <2>4, <2>5, <1>1, <1>4, <1>6, Moves
    <3> QED  BY <3>1, <3>2
  <2>7. StreamTypes'
    <3>1. blocks' \in Seq(Blocks)
      BY <2>3, <2>4
    <3>2. it' \in Nat /\ cursor' \in Nat /\ blockEnd' \in Nat
      <4>1. Cell(g + 1, 1) + w[g + 1] \in Nat
        BY <2>2, <2>5
      <4>2. it \in Nat /\ cursor \in Nat /\ blockEnd \in Nat
        BY <1>1 DEF Types, StreamTypes
      <4>3. CASE w[g + 1] = 0
        BY <4>2, <4>3, <2>4, <2>5
      <4>4. CASE w[g + 1] # 0
        BY <4>1, <4>4, <2>4, <2>5, <1>1
      <4> QED  BY <4>3, <4>4
    <3> QED  BY <3>1, <3>2, <2>4, <1>1, <1>4 DEF Types, StreamTypes
  <2>8. Len(held) \in Nat /\ Len(blocks') = Len(held) + 1 /\ f + Len(blocks') = g + 1 /\ g = f + Len(held)
    BY <1>1, <1>2, <1>3, <2>3, <2>4
  <2>9. Between(w, f + Len(blocks))'
    <3>1. (f + Len(blocks))' = g + 1 /\ filled' = filled /\ ~hitPoison' /\ state'[1] = state[1] /\ g + 1 <= filled
      BY <1>1, <1>4, <1>7, <1>12, <2>4, <2>6, <2>8 DEF Apart
    <3>2. Len(queue'[1]) = filled - (g + 1) + more
      <4>1. Len(queue'[1]) = filled - g + more - 1
        <5>1. PICK l \in Nat : l = Len(line)
          BY <1>5
        <5>2. Len(queue'[1]) = l - 1
          BY <5>1, <1>5, <1>6
        <5>3. l = filled - g + more
          BY <5>1, <1>9
        <5>4. l \in Int /\ filled \in Int /\ g \in Int /\ more \in Int
          BY <1>1, <1>8
        <5> QED  BY ONLY <5>2, <5>3, <5>4
      <4>2. filled \in Int /\ g \in Int /\ more \in Int
        BY <1>1, <1>8
      <4> QED  BY ONLY <4>1, <4>2
    <3>3. \A p \in 1 .. filled - (g + 1) : queue'[1][p] = Filled(w, g + 1 + p)
      <4> SUFFICES ASSUME NEW p \in 1 .. filled - (g + 1)  PROVE Tail(line)[p] = Filled(w, g + 1 + p)
        BY <1>6
      <4>1. p + 1 \in 1 .. filled - g /\ p \in 1 .. Len(line) - 1 /\ g + (p + 1) = g + 1 + p
        <5>1. p \in Int /\ 1 <= p /\ p <= filled - (g + 1) /\ more \in Nat /\ filled \in Nat
          BY <1>1, <1>8
        <5> QED  BY <5>1, <1>9
      <4> QED  BY <4>1, <1>5, <1>9
    <3>4. state[1] = "done" => queue'[1][filled - (g + 1) + 1].mem = 0
      <4> SUFFICES ASSUME state[1] = "done"  PROVE Tail(line)[filled - (g + 1) + 1].mem = 0
        BY <1>6
      <4>1. filled - (g + 1) + 1 = filled - g /\ filled - g \in 1 .. Len(line) - 1
        BY <1>1, <1>8, <1>9, <1>12
      <4> QED  BY <4>1, <1>5, <1>9
    <3> QED  BY <3>1, <3>2, <3>3, <3>4, <1>8 DEF Between
  <2>10. Holds(w, f)'
    <3> SUFFICES ASSUME NEW p \in 1 .. Len(held) + 1  PROVE Append(held, get)[p] = Filled(w, f + p)
      BY <2>4, <2>8 DEF Holds
    <3>1. CASE p \in 1 .. Len(held)
      BY <3>1, <1>1, <1>3, <2>3 DEF Holds
    <3>2. CASE p = Len(held) + 1
      <4>1. f + p = g + 1
        BY <3>2, <2>8
      <4> QED  BY <4>1, <3>2, <2>1, <2>3
    <3> QED  BY <3>1, <3>2, <2>8
  <2>11. Sent(w, e, s)'
    BY <1>1, <1>4 DEF Sent, Apart
  <2>12. Downstream(w, e, s, f)'
    <3>1. state[2] = "done" => state'[2] = "done"
      BY <1>4
    <3> QED  BY <3>1, <1>1, <1>4, <1>6, <2>6, DownstreamKept
  <2>13. Marked(w, f)' /\ ~Gone' /\ ~poisoned' /\ ~hitPoison'
    <3>1. blocks' # << >>
      BY <2>3, <2>4, <2>8
    <3> QED  BY <3>1, <1>4, <1>7, <2>4, <2>6 DEF Marked, Gone
  <2>14. next' = Before(w, g) + 1 /\ next' \in Nat
    <3>1. next = Before(w, g) + 1
      BY <1>2, <1>7 DEF Behind
    <3> QED  BY <3>1, <1>4, <2>2, SMTT(20)
  <2>15. CASE w[g + 1] = 0
    <3>1. Behind(w, f)'
      <4>1. ~NoEmpty(w)
        BY <2>2, <2>15 DEF NoEmpty
      <4>2. next' = Before(w, f + Len(blocks')) + 1
        BY <2>2, <2>8, <2>14, <2>15
      <4>3. w[f + Len(blocks')] = 0
        BY <2>8, <2>15
      <4> QED  BY <4>1, <4>2, <4>3 DEF Behind
    <3>2. state'[2] = "append"
      BY <2>6, <2>15
    <3>3. Client(w, e, f)'
      BY <3>1, <3>2, <2>13, <1>7 DEF Client
    <3> QED  BY <1>4, <1>6, <2>4, <2>6, <2>7, <2>9, <2>10, <2>11, <2>12, <3>3, ClientStep
  <2>16. CASE w[g + 1] # 0
    <3>1. Within(w, f)'
      <4>1. it' = Len(held) /\ cursor' = Cell(g + 1, 1) /\ blockEnd' = Cell(g + 1, 1) + w[g + 1]
        BY <1>3, <2>4, <2>5, <2>16
      <4>2. it' < Len(blocks') /\ f + it' = g /\ it' + 1 = Len(blocks') /\ f + it' + 1 = g + 1
        BY <4>1, <2>8
      <4>3. Before(w, g) < next' /\ next' <= Before(w, g + 1) /\ next' - 1 - Before(w, g) = 0
        <5>1. PICK a \in Nat, v \in Nat : a = Before(w, g) /\ v = w[g + 1] /\ v # 0
          BY <2>2, <2>16
        <5>2. next' = a + 1 /\ Before(w, g + 1) = a + v
          BY <5>1, <2>2, <2>14
        <5>3. v # 0
          BY <5>1
        <5>4. a < a + 1 /\ a + 1 <= a + v /\ a + 1 - 1 - a = 0
          BY ONLY <5>3, a \in Nat, v \in Nat
        <5> QED  BY ONLY <5>1, <5>2, <5>4
      <4>4. cursor' = Cell(g + 1, 1) + (next' - 1 - Before(w, g))
        BY <4>1, <4>3, <2>5
      <4> QED  BY <4>1, <4>2, <4>3, <4>4 DEF Within
    <3>2. state'[2] = "ready"
      BY <2>6, <2>16
    <3>3. Client(w, e, f)'
      BY <3>1, <3>2, <2>13, <1>7 DEF Client
    <3> QED  BY <1>4, <1>6, <2>4, <2>6, <2>7, <2>9, <2>10, <2>11, <2>12, <3>3, ClientStep
  <2> QED  BY <2>15, <2>16
<1> QED  BY <1>1, <1>2, <1>11, <1>12

LEMMA PoisonProduceStep ==
  ASSUME NEW w, NEW e \in Nat, NEW s \in Nat, NEW f \in Nat, Now(w, e, s, f), Reader!PoisonProduce, Waits
  PROVE  Now(w, e, s, f)'
<1>1. /\ Between(w, f + Len(blocks)) /\ Holds(w, f) /\ Downstream(w, e, s, f)
      /\ Sent(w, e, s) /\ Client(w, e, f) /\ Types /\ s <= f /\ s + Hand(3) <= f
  BY NowFacts
<1>2. state[2] = "endpoison" /\ Destroyed(w, e, f) /\ hitPoison
  BY <1>1 DEF Reader!PoisonProduce, Client, Gone, Destroyed
<1>3. PICK line \in Seq(Blocks), new \in Blocks : line = queue[2] /\ new = Reader!Poison
  <2>1. Reader!Poison \in Blocks
    BY Sizes DEF Reader!Poison, Reader!NoMemory, Blocks
  <2> QED  BY <2>1, <1>1 DEF Types, Roads
<1>4. /\ queue' = [queue EXCEPT ![2] = Append(line, new)] /\ state' = [state EXCEPT ![2] = "done"]
      /\ hitPoison' = TRUE /\ poisoned' = TRUE
      /\ UNCHANGED <<current, blocks, it, cursor, blockEnd, marked, next, mark, rewinds>> /\ Apart
  BY <1>2, <1>3 DEF Reader!PoisonProduce, Reader!Goto, Reader!Out, Waits
<1>5. /\ Append(line, new) \in Seq(Blocks) /\ Len(Append(line, new)) = Len(line) + 1
      /\ \A p \in 1 .. Len(line) : Append(line, new)[p] = line[p]
      /\ Append(line, new)[Len(line) + 1] = new /\ new.mem = 0
  BY <1>3, Ends DEF Reader!Poison, Reader!NoMemory
<1>6. /\ queue' \in [0 .. 2 -> Seq(Blocks)] /\ queue'[0] = queue[0] /\ queue'[1] = queue[1]
      /\ queue'[2] = Append(line, new)
  BY <1>1, <1>4, <1>5, SMTT(20) DEF Types, Roads
<1>7. Roads' /\ state'[1] = state[1] /\ state'[2] = "done" /\ state'[3] = state[3]
  BY <1>1, <1>4, <1>6, Moves
<1>8. StreamTypes'
  BY <1>1, <1>4 DEF Types, StreamTypes
<1>9. Between(w, f + Len(blocks))'
  BY <1>1, <1>2, <1>4 DEF Between, Apart
<1>10. Holds(w, f)' /\ Sent(w, e, s)'
  BY <1>1, <1>4 DEF Holds, Sent, Apart
<1>11. Downstream(w, e, s, f)'
  <2>1. PICK hand \in {0, 1} : hand = Hand(3) /\ hand = Hand(3)'
    BY <1>7 DEF Hand
  <2>2. PICK left \in Nat : left = f - s - hand
    <3>1. f - s - hand \in Nat
      BY <1>1, <2>1
    <3> QED  BY <3>1
  <2>3. /\ Len(line) = left /\ \A p \in 1 .. left : line[p] = Left(w, e, s + hand + p)
        /\ state[3] \notin {"poison", "done"}
        /\ state[3] = "hold" => current[3] = Left(w, e, s + 1)
    BY <1>1, <1>2, <1>3, <2>1, <2>2 DEF Downstream
  <2>4. Len(queue'[2]) = f - s - Hand(3)' + 1 /\ queue'[2][f - s - Hand(3)' + 1].mem = 0
        /\ s + Hand(3)' <= f
    BY <1>1, <1>5, <1>6, <2>1, <2>2, <2>3
  <2>5. \A p \in 1 .. f - s - Hand(3)' : queue'[2][p] = Left(w, e, s + Hand(3)' + p)
    BY <1>5, <1>6, <2>1, <2>2, <2>3
  <2> QED  BY <1>4, <1>7, <2>3, <2>4, <2>5 DEF Downstream
<1>12. Client(w, e, f)'
  BY <1>2, <1>4, <1>7 DEF Client, Gone, Destroyed
<1>13. hitPoison' = hitPoison
  BY <1>2, <1>4, <1>1 DEF Types, StreamTypes
<1> QED  BY <1>4, <1>6, <1>7, <1>8, <1>9, <1>10, <1>11, <1>12, <1>13, ClientStep

\* The record the client is at, the block it is in, and what the stream has of it.
Record(w, e, f, c) ==
  /\ c \in 1 .. Len(w) /\ c \in Nat /\ c <= f + Len(blocks) /\ it < Len(blocks) /\ it \in Nat
  /\ Before(w, c - 1) \in Nat /\ Before(w, c) \in Nat /\ w[c] \in 1 .. B /\ w[c] \in Nat
  /\ Before(w, c) = Before(w, c - 1) + w[c]
  /\ Before(w, c - 1) < next /\ next <= Before(w, c) /\ next \in Nat /\ c - 1 = f + it
  /\ Cell(c, 1) \in Nat /\ cursor = Cell(c, 1) + (next - 1 - Before(w, c - 1)) /\ blockEnd = Cell(c, 1) + w[c]
  /\ NoEmpty(w) \/ it + 1 = Len(blocks)
  /\ e = Before(w, Len(w)) /\ Marked(w, f) /\ ~Gone

LEMMA AtRecord ==
  ASSUME NEW w, NEW e \in Nat, NEW s \in Nat, NEW f \in Nat, Now(w, e, s, f), state[2] = "ready", ~poisoned,
         NEW c, c = f + it + 1
  PROVE  Record(w, e, f, c)
<1>1. /\ w \in Seq(0 .. B) /\ Len(w) \in Nat /\ filled \in Nat /\ filled <= Len(w)
      /\ Len(blocks) \in Nat /\ f + Len(blocks) <= filled /\ Client(w, e, f) /\ Types
  BY NowFacts
<1>2. Within(w, f) /\ e = Before(w, Len(w)) /\ Marked(w, f) /\ ~Gone
  BY <1>1 DEF Client, Gone
<1>3. it < Len(blocks) /\ it \in Nat /\ next \in Nat
  BY <1>1, <1>2 DEF Within, Types, StreamTypes
<1>4. c - 1 = f + it /\ c \in Nat \ {0} /\ c \in 1 .. Len(w) /\ c - 1 \in 0 .. Len(w) /\ c <= f + Len(blocks)
      /\ c \in 0 .. Len(w)
  BY <1>1, <1>3
<1>5. Before(w, c - 1) \in Nat /\ Before(w, c) \in Nat /\ w[c] \in 0 .. B /\ Before(w, c) = Before(w, c - 1) + w[c]
      /\ B \in Nat
  BY <1>1, <1>4, BeforeFacts, Sizes
<1>6. /\ Before(w, c - 1) < next /\ next <= Before(w, c)
      /\ cursor = Cell(c, 1) + (next - 1 - Before(w, c - 1)) /\ blockEnd = Cell(c, 1) + w[c]
      /\ NoEmpty(w) \/ it + 1 = Len(blocks)
  BY <1>2, <1>4 DEF Within
<1>7. w[c] \in 1 .. B
  <2>1. w[c] # 0
    BY <1>3, <1>5, <1>6
  <2> QED  BY <2>1, <1>5
<1>8. w[c] \in Nat
  BY <1>5
<1>9. Cell(c, 1) \in Nat
  BY <1>4, CellFacts
<1> QED  BY <1>2, <1>3, <1>4, <1>5, <1>6, <1>7, <1>8, <1>9 DEF Record

\* What ReadOn leaves alone.
Reads == Apart /\ UNCHANGED <<current, marked, hitPoison, mark, rewinds>> /\ next' = next + 1

LEMMA ReadInBlock ==
  ASSUME NEW w, NEW e \in Nat, NEW s \in Nat, NEW f \in Nat, Now(w, e, s, f), Reader!Good, Reads,
         cursor + 1 # blockEnd, cursor' = cursor + 1, UNCHANGED <<queue, state, blocks, it, blockEnd, poisoned>>
  PROVE  Now(w, e, s, f)'
<1>1. /\ Between(w, f + Len(blocks)) /\ Holds(w, f) /\ Downstream(w, e, s, f) /\ Sent(w, e, s) /\ Types
  BY NowFacts
<1>2. state[2] = "ready" /\ ~poisoned
  BY DEF Reader!Good, Reader!Ready
<1>3. PICK c : c = f + it + 1 /\ Record(w, e, f, c)
  BY <1>2, AtRecord
<1>4. /\ c \in Nat /\ it < Len(blocks) /\ it \in Nat /\ Before(w, c - 1) \in Nat
      /\ w[c] \in Nat /\ Before(w, c) = Before(w, c - 1) + w[c] /\ next \in Nat /\ Cell(c, 1) \in Nat
      /\ Before(w, c - 1) < next /\ next <= Before(w, c) /\ c - 1 = f + it
      /\ cursor = Cell(c, 1) + (next - 1 - Before(w, c - 1)) /\ blockEnd = Cell(c, 1) + w[c]
      /\ NoEmpty(w) \/ it + 1 = Len(blocks)
      /\ e = Before(w, Len(w)) /\ Marked(w, f) /\ ~Gone
  BY <1>3 DEF Record
<1>5. Within(w, f)'
  <2>1. PICK a \in Nat, z \in Nat, v \in Nat : a = Before(w, c - 1) /\ z = Cell(c, 1) /\ v = w[c]
    BY <1>4
  <2>2. next' = next + 1 /\ next <= a + v /\ a < next /\ cursor = z + (next - 1 - a) /\ cursor + 1 # z + v
        /\ next \in Nat /\ cursor' = cursor + 1
    BY <2>1, <1>4 DEF Reads
  <2>3. next' <= a + v /\ a < next' /\ cursor' = z + (next' - 1 - a)
    BY ONLY <2>2, a \in Nat, z \in Nat, v \in Nat
  <2> QED  BY <2>1, <2>3, <1>3, <1>4 DEF Within
<1>6. Client(w, e, f)'
  BY <1>2, <1>4, <1>5 DEF Client, Gone, Marked, Reads
<1>7. Roads' /\ StreamTypes'
  <2>1. cursor' \in Nat /\ next' \in Nat \ {0}
    <3>1. cursor \in Nat /\ next \in Nat
      BY <1>1, <1>4 DEF Types, StreamTypes
    <3> QED  BY <3>1 DEF Reads
  <2> QED  BY <2>1, <1>1 DEF Types, Roads, StreamTypes, Reads
<1>8. Between(w, f + Len(blocks))' /\ Holds(w, f)' /\ Sent(w, e, s)'
  BY <1>1 DEF Between, Holds, Sent, Reads, Apart
<1>9. Downstream(w, e, s, f)'
  BY <1>1, DownstreamKept DEF Reads
<1> QED  BY <1>6, <1>7, <1>8, <1>9, ClientStep DEF Reads

LEMMA ReadIntoNext ==
  ASSUME NEW w, NEW e \in Nat, NEW s \in Nat, NEW f \in Nat, Now(w, e, s, f), Reader!Good, Reads,
         cursor + 1 = blockEnd, it + 1 < Len(blocks), it' = it + 1,
         cursor' = Reader!Get(blocks[it + 2]), blockEnd' = Reader!ValidEnd(blocks[it + 2]),
         UNCHANGED <<queue, state, blocks, poisoned>>
  PROVE  Now(w, e, s, f)'
<1>1. /\ w \in Seq(0 .. B) /\ Len(w) \in Nat /\ filled \in Nat /\ filled <= Len(w)
      /\ Len(blocks) \in Nat /\ f + Len(blocks) <= filled
      /\ Between(w, f + Len(blocks)) /\ Holds(w, f) /\ Downstream(w, e, s, f) /\ Sent(w, e, s) /\ Types
  BY NowFacts
<1>2. state[2] = "ready" /\ ~poisoned
  BY DEF Reader!Good, Reader!Ready
<1>3. PICK c : c = f + it + 1 /\ Record(w, e, f, c)
  BY <1>2, AtRecord
<1>4. /\ c \in Nat /\ it \in Nat /\ Before(w, c - 1) \in Nat /\ Before(w, c) \in Nat
      /\ w[c] \in Nat /\ Before(w, c) = Before(w, c - 1) + w[c] /\ next \in Nat /\ Cell(c, 1) \in Nat
      /\ Before(w, c - 1) < next /\ next <= Before(w, c) /\ c - 1 = f + it
      /\ cursor = Cell(c, 1) + (next - 1 - Before(w, c - 1)) /\ blockEnd = Cell(c, 1) + w[c]
      /\ NoEmpty(w) \/ it + 1 = Len(blocks)
      /\ e = Before(w, Len(w)) /\ Marked(w, f) /\ ~Gone
  BY <1>3 DEF Record
<1>5. PICK b \in Nat : b = c + 1
  BY <1>4
<1>6. /\ b \in 1 .. Len(w) /\ b - 1 = c /\ b = f + (it + 2) /\ it + 2 \in 1 .. Len(blocks) /\ b \in Nat \ {0}
      /\ it' < Len(blocks) /\ f + it' = c /\ f + it' + 1 = b
  <2>1. it \in Nat /\ Len(blocks) \in Nat /\ c = f + it + 1 /\ c - 1 = f + it /\ c \in Nat
        /\ f + Len(blocks) <= Len(w) /\ Len(w) \in Nat /\ b = c + 1
    BY <1>1, <1>3, <1>4, <1>5
  <2> QED  BY <2>1
<1>7. /\ w[b] \in 0 .. B /\ Before(w, b) = Before(w, c) + w[b] /\ w[b] # 0 /\ B \in Nat
      /\ Cell(b, 1) \in Nat /\ (Wrap(b) - 1) * B + 1 = Cell(b, 1)
  <2>1. NoEmpty(w)
    BY <1>1, <1>4
  <2>2. w[b] \in 0 .. B /\ Before(w, b) = Before(w, b - 1) + w[b]
    BY <1>1, <1>6, BeforeFacts
  <2>3. Cell(b, 1) \in Nat /\ (Wrap(b) - 1) * B + 1 = Cell(b, 1)
    BY <1>6, CellFacts
  <2> QED  BY <2>1, <2>2, <2>3, <1>6, Sizes DEF NoEmpty
<1>8. cursor' = Cell(b, 1) /\ blockEnd' = Cell(b, 1) + w[b]
  <2>1. blocks[it + 2] = Filled(w, b)
    BY <1>1, <1>6 DEF Holds
  <2> QED  BY <2>1, <1>7 DEF Filled, Reader!Get, Reader!ValidEnd, B
<1>9. next' = Before(w, c) + 1
  <2>1. PICK a \in Nat, z \in Nat, v \in Nat : a = Before(w, c - 1) /\ z = Cell(c, 1) /\ v = w[c]
    BY <1>4
  <2>2. next' = next + 1 /\ next <= a + v /\ cursor = z + (next - 1 - a) /\ cursor + 1 = z + v /\ next \in Nat
        /\ Before(w, c) = a + v
    BY <2>1, <1>4 DEF Reads
  <2> QED  BY ONLY <2>2, a \in Nat, z \in Nat, v \in Nat
<1>10. Within(w, f)'
  <2>1. Before(w, c) < next' /\ next' <= Before(w, b) /\ cursor' = Cell(b, 1) + (next' - 1 - Before(w, c))
    <3>0. w[b] \in Nat /\ w[b] >= 1
      BY <1>7
    <3>1. PICK a \in Nat, z \in Nat, v \in Nat : a = Before(w, c) /\ z = Cell(b, 1) /\ v = w[b] /\ v >= 1
      BY <3>0, <1>4, <1>7
    <3>2. a < a + 1 /\ a + 1 <= a + v /\ z = z + (a + 1 - 1 - a)
      BY ONLY <3>1, a \in Nat, z \in Nat, v \in Nat
    <3>3. Before(w, b) = a + v
      BY <3>1, <1>7
    <3> QED  BY <3>1, <3>2, <3>3, <1>8, <1>9
  <2>2. NoEmpty(w)
    BY <1>1, <1>4
  <2> QED  BY <2>1, <2>2, <1>6, <1>8 DEF Within
<1>11. Client(w, e, f)'
  BY <1>2, <1>4, <1>10 DEF Client, Gone, Marked, Reads
<1>12. Roads' /\ StreamTypes'
  <2>1. w[b] \in Nat
    BY <1>7
  <2>2. cursor' \in Nat /\ blockEnd' \in Nat /\ it' \in Nat /\ next' \in Nat \ {0}
    <3>1. \A a, v \in Nat : a + v \in Nat /\ a + 1 \in Nat \ {0}
      OBVIOUS
    <3>2. cursor' \in Nat /\ blockEnd' \in Nat
      BY <3>1, <2>1, <1>7, <1>8
    <3>3. it' \in Nat
      BY <3>1, <1>4
    <3>4. next' \in Nat \ {0}
      BY <3>1, <1>4, <1>9
    <3> QED  BY <3>2, <3>3, <3>4
  <2> QED  BY <2>2, <1>1 DEF Types, Roads, StreamTypes, Reads
<1>13. Between(w, f + Len(blocks))' /\ Holds(w, f)' /\ Sent(w, e, s)'
  BY <1>1 DEF Between, Holds, Sent, Reads, Apart
<1>14. Downstream(w, e, s, f)'
  BY <1>1, DownstreamKept DEF Reads
<1> QED  BY <1>11, <1>12, <1>13, <1>14, ClientStep DEF Reads

\* AppendBlock up to its Consume, with h blocks sent and the client behind all others.
LEMMA AppendBlockKeeps ==
  ASSUME NEW w, NEW e \in Nat, NEW f \in Nat, ~poisoned, state[2] = "ready", Client(w, e, f), Types,
         Reader!AppendBlock(blocks'), UNCHANGED <<hitPoison, current>>, queue' \in [0 .. 2 -> Seq(Blocks)],
         NEW h \in Nat, Len(blocks') \in Nat, Marked(w, h)',
         next' = Before(w, h + Len(blocks')) + 1,
         blocks' # << >> => cursor' = Cell(h + Len(blocks'), 1) + w[h + Len(blocks')]
  PROVE  Client(w, e, h)' /\ Roads' /\ poisoned' \in BOOLEAN /\ state'[1] = state[1] /\ state'[3] = state[3]
<1>1. e = Before(w, Len(w)) /\ poisoned \in BOOLEAN
  BY DEF Client, Gone, Types, StreamTypes
<1>2. CASE Len(blocks') >= N
  <2>1. state' = [state EXCEPT ![2] = "aborted"] /\ poisoned' = poisoned
    BY <1>2 DEF Reader!AppendBlock, Reader!Goto, N
  <2>2. Roads' /\ state'[1] = state[1] /\ state'[2] = "aborted" /\ state'[3] = state[3]
    BY <2>1, Moves
  <2> QED  BY <2>1, <2>2, <1>1 DEF Client, Gone
<1>3. CASE ~(Len(blocks') >= N)
  <2>1. Behind(w, h)'
    <3>1. Len(blocks') < N
      BY <1>3, Sizes
    <3> QED  BY <3>1 DEF Behind
  <2>2. CASE hitPoison
    <3>1. state' = [state EXCEPT ![2] = "ready"] /\ poisoned' /\ poisoned' = TRUE
      BY <1>3, <2>2 DEF Reader!AppendBlock, Reader!Goto, N
    <3>2. Roads' /\ state'[1] = state[1] /\ state'[2] = "ready" /\ state'[3] = state[3]
      BY <3>1, Moves
    <3> QED  BY <2>1, <2>2, <3>1, <3>2, <1>1 DEF Client, Gone
  <2>3. CASE ~hitPoison
    <3>1. state' = [state EXCEPT ![2] = "append"] /\ poisoned' = poisoned
      BY <1>3, <2>3 DEF Reader!AppendBlock, Reader!Goto, N
    <3>2. Roads' /\ state'[1] = state[1] /\ state'[2] = "append" /\ state'[3] = state[3]
      BY <3>1, Moves
    <3> QED  BY <2>1, <2>3, <3>1, <3>2, <1>1 DEF Client, Gone
  <2> QED  BY <2>2, <2>3
<1> QED  BY <1>2, <1>3

\* Past the last block: without a mark the blocks go, then AppendBlock.
LEMMA ReadPastLast ==
  ASSUME NEW w, NEW e \in Nat, NEW s \in Nat, NEW f \in Nat, Now(w, e, s, f), Reader!Good, Reads,
         cursor + 1 = blockEnd, it + 1 = Len(blocks), cursor' = cursor + 1,
         Reader!Release, Reader!AppendBlock(blocks'), UNCHANGED blockEnd
  PROVE  \E h \in Nat : Now(w, e, s, h)'
<1>1. /\ Len(blocks) \in Nat /\ Client(w, e, f) /\ Sent(w, e, s) /\ Types
      /\ Between(w, f + Len(blocks)) /\ Holds(w, f) /\ Downstream(w, e, s, f)
  BY NowFacts
<1>2. state[2] = "ready" /\ ~poisoned
  BY DEF Reader!Good, Reader!Ready
<1>3. PICK c : c = f + it + 1 /\ Record(w, e, f, c)
  BY <1>2, AtRecord
<1>4. /\ c \in Nat /\ it \in Nat /\ Before(w, c - 1) \in Nat
      /\ w[c] \in Nat /\ Before(w, c) = Before(w, c - 1) + w[c] /\ next \in Nat /\ Cell(c, 1) \in Nat
      /\ next <= Before(w, c)
      /\ cursor = Cell(c, 1) + (next - 1 - Before(w, c - 1)) /\ blockEnd = Cell(c, 1) + w[c]
      /\ e = Before(w, Len(w)) /\ Marked(w, f) /\ ~Gone /\ f + Len(blocks) = c
  <2>1. f + Len(blocks) = c
    <3>1. it \in Nat
      BY <1>3 DEF Record
    <3> QED  BY <3>1, <1>3
  <2> QED  BY <2>1, <1>3 DEF Record
<1>5. next' = Before(w, c) + 1 /\ cursor' = Cell(c, 1) + w[c]
  <2>1. PICK a \in Nat, z \in Nat, v \in Nat : a = Before(w, c - 1) /\ z = Cell(c, 1) /\ v = w[c]
    BY <1>4
  <2>2. next' = next + 1 /\ cursor = z + (next - 1 - a) /\ cursor + 1 = z + v /\ next \in Nat
        /\ Before(w, c) = a + v /\ cursor' = cursor + 1
    BY <2>1, <1>4 DEF Reads
  <2>3. next' = a + v + 1 /\ cursor' = z + v
    BY ONLY <2>2, a \in Nat, z \in Nat, v \in Nat
  <2> QED  BY <2>1, <2>2, <2>3
<1>6. next' \in Nat \ {0} /\ cursor' \in Nat
  <2>1. PICK a \in Nat, z \in Nat, v \in Nat : a = Before(w, c - 1) /\ z = Cell(c, 1) /\ v = w[c]
    BY <1>4
  <2>2. next' = a + v + 1 /\ cursor' = z + v
    BY <2>1, <1>4, <1>5
  <2> QED  BY <2>2
<1>7. Sent(w, e, s)' /\ hitPoison' = hitPoison /\ Apart /\ UNCHANGED <<current, marked, mark, rewinds>>
  BY <1>1 DEF Sent, Reads, Apart
<1>8. CASE marked = 0
  <2>1. Reader!Flush(blocks, it + 1) /\ it' = 0 /\ mark = 0
    <3>1. mark = 0
      <4> SUFFICES ASSUME mark # 0  PROVE FALSE
        OBVIOUS
      <4>1. /\ Before(w, f) < mark /\ marked = Cell(f + 1, 1) + (mark - 1 - Before(w, f)) /\ mark \in Nat
            /\ Before(w, f) \in Nat
        <5>1. f \in 0 .. Len(w) /\ w \in Seq(0 .. B)
          BY NowFacts
        <5> QED  BY <5>1, <1>1, <1>4, BeforeFacts DEF Marked, Types, StreamTypes
      <4>2. Cell(f + 1, 1) \in Nat \ {0}
        <5>1. f + 1 \in Nat \ {0}
          OBVIOUS
        <5> QED  BY <5>1, CellFacts
      <4> QED  BY <4>1, <4>2, <1>8
    <3> QED  BY <3>1, <1>8 DEF Reader!Release, Reader!Null
  <2>2. PICK n : n = it + 1
    OBVIOUS
  <2>3. n \in 0 .. Len(blocks) /\ c = f + n /\ Reader!Flush(blocks, n) /\ n = Len(blocks)
    BY <2>1, <2>2, <1>1, <1>3, <1>4
  <2>4. state'[3] = state[3]
    <3>1. state \in [1 .. 3 -> States]
      BY <1>1 DEF Types, Roads
    <3> QED  BY <3>1 DEF Reader!AppendBlock, Reader!Goto
  <2>5. /\ Downstream(w, e, s, c)' /\ Holds(w, c)' /\ c + Len(blocks') = f + Len(blocks)
        /\ queue' \in [0 .. 2 -> Seq(Blocks)] /\ queue'[0] = queue[0] /\ queue'[1] = queue[1]
        /\ blocks' \in Seq(Blocks) /\ Len(blocks') = Len(blocks) - n
    <3>1. Keeping(w, e, s, f, n, c)
      BY <2>3, <1>4 DEF Keeping
    <3> QED  BY <3>1, <2>3, <2>4, <1>7, FlushKeeps
  <2>6. Len(blocks') = 0 /\ blocks' = << >> /\ c + Len(blocks') = c
    BY <2>3, <2>5, <1>1, <1>4
  <2>7. Marked(w, c)'
    BY <2>1, <1>7, <1>8 DEF Marked
  <2>8. Client(w, e, c)' /\ Roads' /\ poisoned' \in BOOLEAN /\ state'[1] = state[1]
    BY <2>5, <2>6, <2>7, <1>1, <1>2, <1>4, <1>5, <1>7, AppendBlockKeeps
  <2>9. StreamTypes'
    BY <2>1, <2>5, <2>8, <1>1, <1>6, <1>7 DEF Types, StreamTypes
  <2>10. Between(w, c + Len(blocks))'
    <3>1. (c + Len(blocks))' = f + Len(blocks) /\ filled' = filled
      BY <2>5, <1>7 DEF Apart
    <3> QED  BY <3>1, <2>5, <2>8, <1>1, <1>7 DEF Between
  <2>11. Now(w, e, s, c)'
    BY <2>5, <2>8, <2>9, <2>10, <1>4, <1>7, ClientStep
  <2> QED  BY <2>11, <1>4
<1>9. CASE marked # 0
  <2>1. UNCHANGED <<queue, blocks>> /\ it' = it + 1
    BY <1>9 DEF Reader!Release, Reader!Null
  <2>2. f + Len(blocks') = c /\ Len(blocks') \in Nat /\ queue' \in [0 .. 2 -> Seq(Blocks)]
    BY <2>1, <1>1, <1>4 DEF Types, Roads
  <2>3. Marked(w, f)'
    BY <2>1, <1>4, <1>7 DEF Marked
  <2>4. Client(w, e, f)' /\ Roads' /\ poisoned' \in BOOLEAN /\ state'[1] = state[1] /\ state'[3] = state[3]
    BY <2>2, <2>3, <1>1, <1>2, <1>5, <1>7, AppendBlockKeeps
  <2>5. StreamTypes'
    <3>1. it' \in Nat
      BY <2>1, <1>4
    <3> QED  BY <3>1, <2>1, <2>4, <1>1, <1>6, <1>7 DEF Types, StreamTypes
  <2>6. Between(w, f + Len(blocks))' /\ Holds(w, f)'
    BY <2>1, <2>4, <1>1, <1>7 DEF Between, Holds, Apart
  <2>7. Downstream(w, e, s, f)'
    <3>1. state[2] = "done" => state'[2] = "done"
      BY <1>2
    <3> QED  BY <3>1, <2>1, <2>4, <1>1, <1>7, DownstreamKept
  <2>8. Now(w, e, s, f)'
    BY <2>1, <2>4, <2>5, <2>6, <2>7, <1>7, ClientStep
  <2> QED  BY <2>8
<1> QED  BY <1>8, <1>9

LEMMA ReadOnStep ==
  ASSUME NEW w, NEW e \in Nat, NEW s \in Nat, NEW f \in Nat, Now(w, e, s, f), Reader!ReadOn
  PROVE  \E h \in Nat : Now(w, e, s, h)'
<1>1. Reader!Good /\ Reads /\ Reader!Advance
  BY DEF Reader!ReadOn, Reader!Advance, Reads, Apart
<1>2. CASE cursor + 1 # blockEnd
  <2>1. cursor' = cursor + 1 /\ UNCHANGED <<queue, state, blocks, it, blockEnd, poisoned>>
    BY <1>1, <1>2 DEF Reader!Advance
  <2>2. Now(w, e, s, f)'
    BY <2>1, <1>1, <1>2, ReadInBlock
  <2> QED  BY <2>2
<1>3. CASE cursor + 1 = blockEnd /\ it + 1 # Len(blocks)
  <2>1. /\ it + 1 < Len(blocks) /\ it' = it + 1
        /\ cursor' = Reader!Get(blocks[it + 2]) /\ blockEnd' = Reader!ValidEnd(blocks[it + 2])
        /\ UNCHANGED <<queue, state, blocks, poisoned>>
    BY <1>1, <1>3 DEF Reader!Advance
  <2>2. Now(w, e, s, f)'
    BY <2>1, <1>1, <1>3, ReadIntoNext
  <2> QED  BY <2>2
<1>4. CASE cursor + 1 = blockEnd /\ it + 1 = Len(blocks)
  <2>1. cursor' = cursor + 1 /\ Reader!Release /\ Reader!AppendBlock(blocks') /\ UNCHANGED blockEnd
    <3>1. ~(it + 1 < Len(blocks))
      <4>1. Len(blocks) \in Nat
        BY NowFacts
      <4> QED  BY <4>1, <1>4
    <3> QED  BY <3>1, <1>1, <1>4 DEF Reader!Advance
  <2> QED  BY <2>1, <1>1, <1>4, ReadPastLast
<1> QED  BY <1>2, <1>3, <1>4

LEMMA MarkStep ==
  ASSUME NEW w, NEW e \in Nat, NEW s \in Nat, NEW f \in Nat, Now(w, e, s, f), Reader!MarkHere
  PROVE  \E h \in Nat : Now(w, e, s, h)'
<1>1. /\ Len(blocks) \in Nat /\ Client(w, e, f) /\ Sent(w, e, s) /\ Types /\ Between(w, f + Len(blocks))
  BY NowFacts
<1>2. /\ state[2] = "ready" /\ ~poisoned /\ marked' = cursor /\ Reader!Flush(blocks, it) /\ it' = 0
      /\ mark' = next /\ Apart /\ UNCHANGED <<current, state, cursor, blockEnd, hitPoison, poisoned, next, rewinds>>
  BY DEF Reader!MarkHere, Reader!Mark, Reader!Good, Reader!Ready, Apart
<1>3. PICK c : c = f + it + 1 /\ Record(w, e, f, c)
  BY <1>2, AtRecord
<1>4. /\ it < Len(blocks) /\ it \in Nat /\ next \in Nat
      /\ Before(w, c - 1) < next /\ next <= Before(w, c)
      /\ cursor = Cell(c, 1) + (next - 1 - Before(w, c - 1)) /\ blockEnd = Cell(c, 1) + w[c]
      /\ NoEmpty(w) \/ it + 1 = Len(blocks)
      /\ e = Before(w, Len(w)) /\ ~Gone /\ c \in Nat
  BY <1>3 DEF Record
<1>5. PICK h \in Nat : h = f + it
  BY <1>4
<1>6. h = c - 1 /\ c = h + 1 /\ it \in 0 .. Len(blocks)
  BY <1>1, <1>3, <1>4, <1>5
<1>7. /\ Downstream(w, e, s, h)' /\ Holds(w, h)' /\ h + Len(blocks') = f + Len(blocks)
      /\ queue' \in [0 .. 2 -> Seq(Blocks)] /\ queue'[0] = queue[0] /\ queue'[1] = queue[1]
      /\ blocks' \in Seq(Blocks) /\ Len(blocks') = Len(blocks) - it
  <2>1. state'[3] = state[3]
    BY <1>2
  <2>2. Keeping(w, e, s, f, it, h)
    BY <1>4, <1>5, <1>6 DEF Keeping
  <2> QED  BY <2>1, <2>2, <1>2, FlushKeeps
<1>8. it' < Len(blocks') /\ (it + 1 = Len(blocks) => it' + 1 = Len(blocks')) /\ h + it' = h
  BY <1>1, <1>2, <1>4, <1>7
<1>9. Within(w, h)'
  BY <1>2, <1>4, <1>6, <1>8 DEF Within
<1>10. Marked(w, h)'
  <2>1. blocks' # << >> /\ next # 0
    <3>1. Len(blocks') # 0
      BY <1>2, <1>7, <1>8
    <3>2. next # 0
      BY <1>1 DEF Types, StreamTypes
    <3> QED  BY <3>1, <3>2
  <2> QED  BY <2>1, <1>2, <1>4, <1>6 DEF Marked
<1>11. Client(w, e, h)'
  BY <1>2, <1>4, <1>9, <1>10 DEF Client, Gone
<1>12. Roads' /\ StreamTypes'
  BY <1>1, <1>2, <1>7 DEF Types, Roads, StreamTypes
<1>13. Between(w, h + Len(blocks))'
  <2>1. (h + Len(blocks))' = f + Len(blocks) /\ filled' = filled
    BY <1>2, <1>7 DEF Apart
  <2> QED  BY <2>1, <1>1, <1>2, <1>7 DEF Between
<1>14. Sent(w, e, s)'
  BY <1>1, <1>2 DEF Sent, Apart
<1>15. Now(w, e, s, h)'
  BY <1>2, <1>7, <1>11, <1>12, <1>13, <1>14, ClientStep
<1> QED  BY <1>15

\* Where the input is at its end all blocks have come to the stream.
LEMMA AllHere ==
  ASSUME NEW w, NEW e \in Nat, NEW s \in Nat, NEW f \in Nat, Now(w, e, s, f), hitPoison
  PROVE  f + Len(blocks) = Len(w) /\ filled = Len(w)
<1>1. Upstream(w, s) /\ Between(w, f + Len(blocks))
  BY NowFacts
<1> QED  BY <1>1 DEF Upstream, Between

\* Where a use has empty blocks its client goes back only with the last block in hand:
\* it is at the end, and its mark is not further away than that block is long.
LEMMA OverNoEmpty ==
  ASSUME UsesFit(Uses), NEW w, NEW e \in Nat, NEW s \in Nat, NEW f \in Nat, Now(w, e, s, f), Near,
         state[2] = "ready", mark # 0, rewinds < use.rewinds \/ (poisoned /\ rewinds = use.rewinds)
  PROVE  NoEmpty(w) \/ Len(blocks) = 1
<1>1. /\ w \in Seq(0 .. B) /\ Len(w) \in Nat /\ Len(blocks) \in Nat /\ w = use.fills
      /\ Client(w, e, f) /\ Types
  BY NowFacts DEF Now
<1> SUFFICES ASSUME ~NoEmpty(w)  PROVE Len(blocks) = 1
  OBVIOUS
<1>2. PICK k : k = Len(w)
  OBVIOUS
<1>3. use.rewinds = 0 /\ use.limit <= w[k]
  <2>1. use \in Uses
    BY <1>1 DEF Types
  <2> QED  BY <2>1, <1>1, <1>2 DEF UsesFit, NoEmpty
<1>4. poisoned
  <2>1. rewinds \in Nat
    BY <1>1 DEF Types, StreamTypes
  <2> QED  BY <2>1, <1>3
<1>5. /\ next = Before(w, k) + 1 /\ f + Len(blocks) = k
  <2>1. Behind(w, f) /\ hitPoison
    BY <1>1, <1>4 DEF Client
  <2>2. f + Len(blocks) = Len(w)
    BY <2>1, AllHere
  <2> QED  BY <2>1, <2>2, <1>2 DEF Behind
<1>6. blocks # << >> /\ mark <= Before(w, f + 1) /\ mark \in Nat
  BY <1>1 DEF Client, Gone, Marked, Types, StreamTypes
<1>7. Len(blocks) # 0
  BY <1>1, <1>6 DEF Types, StreamTypes
<1>8. k \in 1 .. Len(w) /\ k - 1 \in 0 .. Len(w) /\ f + 1 \in 0 .. Len(w)
  BY <1>1, <1>2, <1>5, <1>7
<1>9. PICK a \in Nat, v \in Nat : a = Before(w, k - 1) /\ v = w[k] /\ Before(w, k) = a + v
  <2>1. Before(w, k - 1) \in Nat /\ w[k] \in 0 .. B /\ Before(w, k) = Before(w, k - 1) + w[k] /\ B \in Nat
    BY <1>1, <1>8, BeforeFacts, Sizes
  <2> QED  BY <2>1
<1>10. a < mark
  <2>1. use.limit \in Nat
    BY <1>1, Sizes DEF Types
  <2>2. PICK l \in Nat : l = use.limit
    BY <2>1
  <2>3. a + v + 1 <= mark + l /\ l <= v
    BY <2>2, <1>3, <1>5, <1>9 DEF Near
  <2> QED  BY ONLY <2>3, <1>6, l \in Nat, a \in Nat, v \in Nat
<1>11. ~(f + 1 <= k - 1)
  <2> SUFFICES ASSUME f + 1 <= k - 1  PROVE FALSE
    OBVIOUS
  <2>1. Before(w, f + 1) <= a
    BY <1>1, <1>8, <1>9, BeforeGrows
  <2>2. Before(w, f + 1) \in Nat
    BY <1>1, <1>8, BeforeFacts
  <2> QED  BY <2>1, <2>2, <1>6, <1>10
<1>12. PICK n \in Nat : n = Len(blocks) /\ f + n = k /\ n # 0
  BY <1>1, <1>5, <1>7
<1>13. n = 1
  <2>1. f + n = k /\ n # 0 /\ ~(f + 1 <= k - 1)
    BY <1>11, <1>12
  <2> QED  BY ONLY <2>1, f \in Nat, n \in Nat
<1> QED  BY <1>12, <1>13

\* Rewind leaves the end: the cursor behind the last block has not the address of the
\* mark, as there are fewer blocks than parts of the memory (EndApart).
LEMMA GoBackStep ==
  ASSUME UsesFit(Uses), NEW w, NEW e \in Nat, NEW s \in Nat, NEW f \in Nat, Now(w, e, s, f), Near, Reader!GoBack
  PROVE  Now(w, e, s, f)'
<1>1. /\ w \in Seq(0 .. B) /\ Len(w) \in Nat /\ filled \in Nat /\ filled <= Len(w)
      /\ Len(blocks) \in Nat /\ f + Len(blocks) <= filled /\ w = use.fills
      /\ Between(w, f + Len(blocks)) /\ Holds(w, f) /\ Downstream(w, e, s, f) /\ Sent(w, e, s)
      /\ Client(w, e, f) /\ Types
  BY NowFacts DEF Now
<1>2. /\ mark # 0 /\ (rewinds < use.rewinds \/ (poisoned /\ rewinds = use.rewinds))
      /\ state[2] = "ready" /\ it' = 0 /\ cursor' = marked
      /\ poisoned' = (IF cursor # marked THEN FALSE ELSE poisoned)
      /\ blockEnd' = Reader!ValidEnd(blocks[1]) /\ next' = mark /\ rewinds' = rewinds + 1
      /\ Apart /\ UNCHANGED <<mark, queue, current, state, blocks, marked, hitPoison>>
  BY DEF Reader!GoBack, Reader!Rewind, Reader!Ready, Apart
<1>3. NoEmpty(w) \/ Len(blocks) = 1
  BY <1>2, OverNoEmpty
<1>4. /\ blocks # << >> /\ Before(w, f) < mark /\ mark <= Before(w, f + 1)
      /\ marked = Cell(f + 1, 1) + (mark - 1 - Before(w, f)) /\ e = Before(w, Len(w)) /\ Marked(w, f) /\ ~Gone
  BY <1>1, <1>2 DEF Client, Gone, Marked
<1>5. PICK b \in Nat : b = f + 1
  OBVIOUS
<1>6. 1 \in 1 .. Len(blocks) /\ b \in 1 .. Len(w) /\ b - 1 = f /\ b \in Nat \ {0}
  <2>1. Len(blocks) # 0
    BY <1>1, <1>4 DEF Types, StreamTypes
  <2> QED  BY <2>1, <1>1, <1>5
<1>7. /\ w[b] \in 0 .. B /\ w[b] \in Nat /\ Before(w, b) = Before(w, f) + w[b] /\ Before(w, f) \in Nat
      /\ Cell(b, 1) \in Nat /\ (Wrap(b) - 1) * B + 1 = Cell(b, 1)
      /\ \A j \in 1 .. B : Cell(b, j) = Cell(b, 1) + (j - 1)
  <2>1. f \in 0 .. Len(w)
    BY <1>5, <1>6
  <2>2. w[b] \in 0 .. B /\ Before(w, b) = Before(w, b - 1) + w[b] /\ Before(w, f) \in Nat
    BY <2>1, <1>1, <1>6, BeforeFacts
  <2>3. w[b] \in Nat
    BY <2>2, Sizes
  <2>4. Cell(b, 1) \in Nat /\ (Wrap(b) - 1) * B + 1 = Cell(b, 1)
        /\ \A j \in 1 .. B : Cell(b, j) = Cell(b, 1) + (j - 1)
    BY <1>6, CellFacts
  <2> QED  BY <2>2, <2>3, <2>4, <1>6
<1>8. blockEnd' = Cell(b, 1) + w[b] /\ blockEnd' \in Nat
  <2>1. blocks[1] = Filled(w, b)
    BY <1>1, <1>5, <1>6 DEF Holds
  <2>2. blockEnd' = Cell(b, 1) + w[b]
    BY <2>1, <1>2, <1>7 DEF Filled, Reader!Get, Reader!ValidEnd, B
  <2> QED  BY <2>2, <1>7
<1>9. ~poisoned' /\ poisoned' = FALSE
  <2>1. CASE ~poisoned
    BY <2>1, <1>1, <1>2 DEF Types, StreamTypes
  <2>2. CASE poisoned
    <3>1. Behind(w, f)
      BY <2>2, <1>1, <1>2 DEF Client
    <3>2. PICK k \in Nat : k = f + Len(blocks)
      BY <1>1
    <3>3. k \in 1 .. Len(w) /\ k \in Nat \ {0} /\ b <= k /\ k + 1 < b + N
      <4>1. Len(blocks) < N /\ N \in Nat
        <5>1. CASE NoEmpty(w)
          BY <5>1, <3>1, Sizes DEF Behind
        <5>2. CASE Len(blocks) = 1
          BY <5>2, Sizes
        <5> QED  BY <5>1, <5>2, <1>3
      <4> QED  BY <4>1, <3>2, <1>1, <1>5, <1>6
    <3>4. w[k] # 0 /\ w[k] \in 1 .. B
      <4>1. w[k] # 0
        <5>1. hitPoison
          BY <2>2, <1>1, <1>2 DEF Client
        <5>2. k = Len(w)
          BY <5>1, <3>2, AllHere
        <5>3. use \in Uses /\ use.fills # << >>
          BY <1>1, <1>6 DEF Types
        <5> QED  BY <5>2, <5>3, <1>1 DEF UsesFit
      <4>2. w[k] \in 0 .. B
        BY <3>3, <1>1, BeforeFacts
      <4> QED  BY <4>1, <4>2, Sizes
    <3>5. cursor = Cell(k, 1) + w[k]
      BY <3>1, <3>2, <3>4, <1>4 DEF Behind
    <3>6. PICK j \in 1 .. B : j <= w[b] /\ marked = Cell(b, j)
      <4>1. PICK a \in Nat, v \in Nat, z \in Nat : a = Before(w, f) /\ v = w[b] /\ z = Cell(b, 1)
        BY <1>7
      <4>2. a < mark /\ mark <= a + v /\ v <= B /\ B \in Nat /\ mark \in Nat
        <5>1. w[b] <= B /\ B \in Nat
          BY <1>7, Sizes
        <5>2. Before(w, b) = a + v /\ f + 1 = b
          BY <4>1, <1>5, <1>7
        <5>3. mark \in Nat
          BY <1>1 DEF Types, StreamTypes
        <5> QED  BY <5>1, <5>2, <5>3, <4>1, <1>4
      <4>3. mark - a \in 1 .. B /\ mark - a <= v /\ z + (mark - 1 - a) = z + (mark - a - 1)
        BY ONLY <4>2, a \in Nat, v \in Nat, z \in Nat
      <4>4. Cell(b, mark - a) = z + (mark - a - 1)
        BY <4>1, <4>3, <1>7
      <4>5. marked = z + (mark - 1 - a)
        BY <4>1, <1>4, <1>5
      <4> QED  BY <4>1, <4>3, <4>4, <4>5
    <3>7. cursor # marked
      BY <3>3, <3>4, <3>5, <3>6, <1>6, EndApart
    <3> QED  BY <3>7, <1>2
  <2> QED  BY <2>1, <2>2
<1>10. Within(w, f)'
  <2>1. it' < Len(blocks') /\ f + it' = f /\ f + it' + 1 = b
    BY <1>2, <1>5, <1>6
  <2>2. NoEmpty(w) \/ it' + 1 = Len(blocks')
    BY <1>2, <1>3
  <2> QED  BY <2>1, <2>2, <1>2, <1>4, <1>5, <1>8 DEF Within
<1>11. Client(w, e, f)'
  BY <1>2, <1>4, <1>9, <1>10 DEF Client, Gone, Marked
<1>12. Roads' /\ StreamTypes'
  <2>1. rewinds' \in Nat /\ next' \in Nat \ {0}
    BY <1>1, <1>2 DEF Types, StreamTypes
  <2> QED  BY <2>1, <1>1, <1>2, <1>8, <1>9 DEF Types, Roads, StreamTypes
<1>13. Between(w, f + Len(blocks))' /\ Holds(w, f)' /\ Sent(w, e, s)'
  BY <1>1, <1>2 DEF Between, Holds, Sent, Apart
<1>14. Downstream(w, e, s, f)'
  BY <1>1, <1>2, DownstreamKept
<1> QED  BY <1>2, <1>11, <1>12, <1>13, <1>14, ClientStep

LEMMA PoisonEmptyStep ==
  ASSUME NEW w, NEW e \in Nat, NEW s \in Nat, NEW f \in Nat, Now(w, e, s, f), hitPoison,
         ~poisoned => it = Len(blocks) - 1, Reader!PoisonEmpty, Waits
  PROVE  Now(w, e, s, f)'
<1>1. /\ w \in Seq(0 .. B) /\ Len(w) \in Nat
      /\ Between(w, f + Len(blocks)) /\ Holds(w, f) /\ Downstream(w, e, s, f) /\ Sent(w, e, s)
      /\ Client(w, e, f) /\ Types
  BY NowFacts
<1>2. /\ state[2] = "ready" /\ blocks = << >> /\ state' = [state EXCEPT ![2] = "done"] /\ UNCHANGED <<queue, current>>
      /\ UNCHANGED <<blocks, it, cursor, blockEnd, marked, hitPoison, poisoned, next, mark, rewinds>> /\ Apart
  BY DEF Reader!PoisonEmpty, Reader!Ready, Reader!Goto, Reader!svars, Waits
<1>3. Len(blocks) = 0 /\ f = Len(w)
  <2>1. Len(blocks) = 0
    BY <1>2
  <2> QED  BY <2>1, AllHere
<1>4. poisoned
  <2> SUFFICES ASSUME ~poisoned  PROVE FALSE
    OBVIOUS
  <2>1. it < 0 /\ it \in Nat
    BY <1>1, <1>2, <1>3 DEF Client, Within, Types, StreamTypes
  <2> QED  BY <2>1
<1>5. next = Before(w, f) + 1 /\ e = Before(w, f) /\ f + Len(blocks) = f
  BY <1>1, <1>2, <1>3, <1>4 DEF Client, Behind, Gone
<1>6. Destroyed(w, e, f)
  <2>1. e = next - 1
    BY <1>5
  <2>2. CASE f = 0
    BY <2>1, <2>2, <1>1, <1>2, <1>3, <1>5, BeforeFacts DEF Destroyed
  <2>3. CASE f # 0
    <3>1. f - 1 \in 0 .. Len(w) /\ f \in 0 .. Len(w) /\ f - 1 <= f
      BY <2>3, <1>3
    <3>2. Before(w, f - 1) <= Before(w, f)
      BY <3>1, <1>1, BeforeGrows
    <3>3. Before(w, f - 1) <= e /\ e <= Before(w, f)
      BY <3>2, <1>5
    <3> QED  BY <2>1, <2>3, <3>3, <1>2, <1>3 DEF Destroyed
  <2> QED  BY <2>2, <2>3
<1>7. Roads' /\ state'[1] = state[1] /\ state'[2] = "done" /\ state'[3] = state[3]
  <2>1. queue' \in [0 .. 2 -> Seq(Blocks)]
    BY <1>1, <1>2 DEF Types, Roads
  <2> QED  BY <2>1, <1>1, <1>2, Moves
<1>8. StreamTypes'
  BY <1>1, <1>2 DEF Types, StreamTypes
<1>9. Between(w, f + Len(blocks))'
  BY <1>1, <1>2, <1>7 DEF Between, Apart
<1>10. Holds(w, f)' /\ Sent(w, e, s)'
  BY <1>1, <1>2 DEF Holds, Sent, Apart
<1>11. Downstream(w, e, s, f)'
  BY <1>1, <1>2, <1>7, DownstreamKept
<1>12. Client(w, e, f)'
  BY <1>2, <1>6, <1>7 DEF Client, Gone, Destroyed
<1> QED  BY <1>2, <1>7, <1>8, <1>9, <1>10, <1>11, <1>12, ClientStep

\* The last block is sent up to the record the client is at.
LEMMA LastCut ==
  ASSUME NEW w, NEW e \in Nat, NEW s \in Nat, NEW f \in Nat, Now(w, e, s, f), hitPoison, state[2] = "ready",
         ~poisoned, it = Len(blocks) - 1, blocks # << >>
  PROVE  /\ cursor = Cell(Len(w), 1) + (next - 1 - Before(w, Len(w) - 1))
         /\ Before(w, Len(w) - 1) <= next - 1 /\ next - 1 <= Before(w, Len(w))
<1>1. /\ w \in Seq(0 .. B) /\ Len(w) \in Nat /\ Len(blocks) \in Nat /\ w = use.fills
      /\ Client(w, e, f) /\ Types /\ f + Len(blocks) = Len(w) /\ Len(blocks) # 0
  <2>1. Len(blocks) # 0
    BY NowFacts DEF Types, StreamTypes
  <2> QED  BY <2>1, NowFacts, AllHere DEF Now
<1>2. PICK k : k = Len(w)
  OBVIOUS
<1>3. /\ k \in 1 .. Len(w) /\ w[k] \in 0 .. B /\ w[k] \in Nat /\ Before(w, k - 1) \in Nat
      /\ Before(w, k) = Before(w, k - 1) + w[k]
  <2>1. k \in 1 .. Len(w) /\ k - 1 \in 0 .. Len(w)
    BY <1>1, <1>2
  <2>2. w[k] \in 0 .. B /\ Before(w, k - 1) \in Nat /\ Before(w, k) = Before(w, k - 1) + w[k]
    BY <2>1, <1>1, BeforeFacts
  <2>3. w[k] \in Nat
    BY <2>2, Sizes
  <2> QED  BY <2>1, <2>2, <2>3
<1>4. k = f + it + 1
  BY <1>1, <1>2
<1>5. Record(w, e, f, k)
  BY <1>4, AtRecord
<1>6. /\ cursor = Cell(k, 1) + (next - 1 - Before(w, k - 1)) /\ Before(w, k - 1) < next /\ next <= Before(w, k)
      /\ next \in Nat
  BY <1>5 DEF Record
<1> QED  BY <1>2, <1>3, <1>6

\* Where an assertion of Poison fails the stream is left as it is.
LEMMA PoisonAbortStep ==
  ASSUME NEW w, NEW e \in Nat, NEW s \in Nat, NEW f \in Nat, Now(w, e, s, f),
         poisoned \/ it # Len(blocks) - 1, Reader!PoisonFlush, Waits
  PROVE  Now(w, e, s, f)'
<1>1. /\ Between(w, f + Len(blocks)) /\ Holds(w, f) /\ Downstream(w, e, s, f) /\ Sent(w, e, s)
      /\ Client(w, e, f) /\ Types
  BY NowFacts
<1>2. /\ state[2] = "ready" /\ state' = [state EXCEPT ![2] = "aborted"] /\ UNCHANGED <<queue, current>>
      /\ UNCHANGED <<blocks, it, cursor, blockEnd, marked, hitPoison, poisoned, next, mark, rewinds>> /\ Apart
  BY DEF Reader!PoisonFlush, Reader!Ready, Reader!Goto, Waits
<1>3. Roads' /\ state'[1] = state[1] /\ state'[2] = "aborted" /\ state'[3] = state[3]
  <2>1. queue' \in [0 .. 2 -> Seq(Blocks)]
    BY <1>1, <1>2 DEF Types, Roads
  <2> QED  BY <2>1, <1>1, <1>2, Moves
<1>4. StreamTypes'
  BY <1>1, <1>2 DEF Types, StreamTypes
<1>5. Between(w, f + Len(blocks))' /\ Holds(w, f)' /\ Sent(w, e, s)'
  BY <1>1, <1>2, <1>3 DEF Between, Holds, Sent, Apart
<1>6. Downstream(w, e, s, f)'
  BY <1>1, <1>2, <1>3, DownstreamKept
<1>7. Client(w, e, f)'
  BY <1>1, <1>2, <1>3 DEF Client, Gone, Marked
<1> QED  BY <1>2, <1>3, <1>4, <1>5, <1>6, <1>7, ClientStep

\* Otherwise the destructor sends what is left, the last block up to where the client is.
LEMMA PoisonFlushStep ==
  ASSUME NEW w, NEW e \in Nat, NEW s \in Nat, NEW f \in Nat, Now(w, e, s, f), hitPoison,
         ~poisoned, it = Len(blocks) - 1, Reader!PoisonFlush, Waits
  PROVE  \E d, h \in Nat : Now(w, d, s, h)'
<1>1. /\ w \in Seq(0 .. B) /\ Len(w) \in Nat /\ Len(blocks) \in Nat /\ s <= f
      /\ Between(w, f + Len(blocks)) /\ Holds(w, f) /\ Sent(w, e, s) /\ Client(w, e, f) /\ Types
      /\ f + Len(blocks) = Len(w) /\ filled = Len(w)
  BY NowFacts, AllHere
<1>2. PICK n : n = Len(blocks)
  OBVIOUS
<1>3. PICK held : held = [blocks EXCEPT ![n].valid = cursor - Reader!Get(blocks[n])]
  OBVIOUS
<1>4. /\ state[2] = "ready" /\ blocks # << >> /\ Reader!Flush(held, n) /\ it' = 0
      /\ state' = [state EXCEPT ![2] = "endpoison"]
      /\ UNCHANGED <<current, cursor, blockEnd, marked, hitPoison, poisoned, next, mark, rewinds>> /\ Apart
  BY <1>2, <1>3 DEF Reader!PoisonFlush, Reader!Ready, Reader!Goto, Waits
<1>5. PICK k \in Nat, d \in Nat : k = Len(w) /\ d = next - 1
  <2>1. next \in Nat \ {0}
    BY <1>1 DEF Types, StreamTypes
  <2>2. next - 1 \in Nat
    BY <2>1
  <2> QED  BY <2>2, <1>1
<1>6. /\ n \in 1 .. Len(blocks) /\ n \in Nat /\ k = f + n /\ k \in 1 .. Len(w) /\ k \in Nat \ {0} /\ k # 0
      /\ f < k /\ s # k
  <2>1. Len(blocks) # 0
    BY <1>1, <1>4 DEF Types, StreamTypes
  <2> QED  BY <2>1, <1>1, <1>2, <1>5
<1>7. /\ cursor = Cell(k, 1) + (d - Before(w, k - 1)) /\ Before(w, k - 1) <= d /\ d <= Before(w, k)
  BY <1>4, <1>5, LastCut
<1>8. Cell(k, 1) \in Nat /\ (Wrap(k) - 1) * B + 1 = Cell(k, 1) /\ Before(w, k - 1) \in Nat
  <2>1. k - 1 \in 0 .. Len(w)
    BY <1>1, <1>6
  <2> QED  BY <2>1, <1>1, <1>6, CellFacts, BeforeFacts
<1>9. cursor - Reader!Get(blocks[n]) = d - Before(w, k - 1) /\ blocks[n] = Filled(w, k)
  <2>1. blocks[n] = Filled(w, k)
    BY <1>1, <1>6 DEF Holds
  <2>2. Reader!Get(blocks[n]) = Cell(k, 1)
    BY <2>1, <1>8 DEF Filled, Reader!Get, B
  <2>3. PICK a \in Nat, z \in Nat : a = Before(w, k - 1) /\ z = Cell(k, 1)
    BY <1>8
  <2>4. z + (d - a) - z = d - a
    BY ONLY a \in Nat, z \in Nat, d \in Nat
  <2> QED  BY <2>1, <2>2, <2>3, <2>4, <1>7, SMTT(20)
<1>10. PICK last : last = [mem |-> Wrap(k), valid |-> d - Before(w, k - 1)]
  OBVIOUS
<1>11. last \in Blocks /\ last = Left(w, d, k) /\ last = [blocks[n] EXCEPT !.valid = cursor - Reader!Get(blocks[n])]
  <2>1. Wrap(k) \in 0 .. N /\ d - Before(w, k - 1) \in Int
    <3>1. Wrap(k) \in 1 .. N
      BY <1>6, CellFacts
    <3> QED  BY <3>1, <1>8, Sizes
  <2> QED  BY <2>1, <1>5, <1>9, <1>10 DEF Blocks, Left, Filled
<1>12. /\ held \in Seq(Blocks) /\ Len(held) = n
       /\ \A p \in 1 .. n : held[p] = IF p = n THEN last ELSE blocks[p]
  <2>1. PICK old \in Seq(Blocks) : old = blocks
    BY <1>1 DEF Types, StreamTypes
  <2>2. held = [old EXCEPT ![n] = last]
    BY <2>1, <1>3, <1>11
  <2>3. Len(old) = n /\ n \in 1 .. Len(old)
    BY <2>1, <1>2, <1>6
  <2> QED  BY <2>1, <2>2, <2>3, <1>11
<1>13. \A p \in 1 .. n : held[p] = Left(w, d, f + p)
  <2> SUFFICES ASSUME NEW p \in 1 .. n  PROVE held[p] = Left(w, d, f + p)
    OBVIOUS
  <2>1. CASE p = n
    BY <2>1, <1>6, <1>11, <1>12
  <2>2. CASE p # n
    <3>1. f + p # k /\ p \in 1 .. Len(blocks)
      BY <2>2, <1>2, <1>6
    <3>2. held[p] = Filled(w, f + p)
      BY <3>1, <2>2, <1>1, <1>12 DEF Holds
    <3> QED  BY <3>1, <3>2, <1>5 DEF Filled, Left
  <2> QED  BY <2>1, <2>2
<1>14. \A j \in s + 1 .. f : Left(w, d, j) = Left(w, e, j)
  <2> SUFFICES ASSUME NEW j \in s + 1 .. f  PROVE Left(w, d, j) = Left(w, e, j)
    OBVIOUS
  <2>1. j # k
    BY <1>6
  <2> QED  BY <2>1, <1>5 DEF Left
<1>15. PICK line : line = queue[2] \o SubSeq(held, 1, n)
  OBVIOUS
<1>16. queue' = [queue EXCEPT ![2] = line] /\ blocks' = SubSeq(held, n + 1, Len(held))
  BY <1>4, <1>15 DEF Reader!Flush, Reader!Out
<1>17. Flushing(w, e, s, f, d, held, n, k, line)
  <2>1. n \in 0 .. Len(held) /\ state[2] # "done" /\ k = f + n
    BY <1>4, <1>6, <1>12
  <2> QED  BY <2>1, <1>12, <1>13, <1>14, <1>15 DEF Flushing
<1>18. state'[3] = state[3] /\ UNCHANGED current
  <2>1. state \in [1 .. 3 -> States]
    BY <1>1 DEF Types, Roads
  <2> QED  BY <2>1, <1>4
<1>19. Downstream(w, d, s, k)'
  BY <1>16, <1>17, <1>18, FlushSends
<1>20. queue' \in [0 .. 2 -> Seq(Blocks)] /\ queue'[0] = queue[0] /\ queue'[1] = queue[1]
  BY <1>16, <1>17, <1>18, FlushSends
<1>21. blocks' \in Seq(Blocks) /\ Len(blocks') = 0 /\ blocks' = << >>
  <2>1. n \in 0 .. Len(held) /\ held \in Seq(Blocks)
    BY <1>6, <1>12
  <2>2. blocks' \in Seq(Blocks) /\ Len(blocks') = Len(held) - n
    BY <2>1, <1>16, Parts
  <2>3. Len(blocks') = 0
    BY <2>2, <1>6, <1>12
  <2> QED  BY <2>2, <2>3
<1>22. Roads' /\ state'[1] = state[1] /\ state'[2] = "endpoison"
  BY <1>1, <1>4, <1>18, <1>20, Moves
<1>23. StreamTypes'
  BY <1>1, <1>4, <1>21 DEF Types, StreamTypes
<1>24. Between(w, k + Len(blocks))' /\ Holds(w, k)'
  <2>1. (k + Len(blocks))' = k /\ filled' = filled /\ hitPoison'
    BY <1>4, <1>6, <1>21 DEF Apart
  <2> QED  BY <2>1, <1>1, <1>5, <1>21 DEF Between, Holds
<1>25. Sent(w, d, s)'
  BY <1>1, <1>4, <1>5, <1>6 DEF Sent, Apart
<1>26. Client(w, d, k)'
  <2>1. Destroyed(w, d, k)'
    BY <1>4, <1>5, <1>6, <1>7, <1>21 DEF Destroyed
  <2> QED  BY <2>1, <1>22 DEF Client, Gone
<1>27. Now(w, d, s, k)'
  BY <1>4, <1>20, <1>19, <1>22, <1>23, <1>24, <1>25, <1>26, ClientStep
<1> QED  BY <1>27

---------------------------------------------------------------------------
\* The reader as a whole.

LEMMA Starts ==
  ASSUME Reader!Init
  PROVE  IInv
<1> DEFINE w == use.fills
<1>1. /\ queue = [i \in 0 .. 2 |-> IF i = 0 THEN [b \in 1 .. N |-> [mem |-> b, valid |-> B]] ELSE << >>]
      /\ current = [i \in 1 .. 3 |-> [mem |-> 0, valid |-> 0]]
      /\ state = [i \in 1 .. 3 |-> "unstarted"]
      /\ blocks = << >> /\ it = 0 /\ cursor = 0 /\ blockEnd = 0 /\ marked = 0 /\ hitPoison = FALSE /\ poisoned = FALSE
      /\ use \in Uses /\ filled = 0 /\ memory = [a \in 1 .. N * B |-> 0]
      /\ next = 1 /\ mark = 0 /\ rewinds = 0 /\ sent = << >>
  BY DEF Reader!Init, Reader!LinkInit, Reader!StreamInit, Reader!Populated, Reader!FullBlock, Reader!Poison,
         Reader!NoMemory, Reader!Null, N, B
<1>2. w \in Seq(0 .. B) /\ Len(w) \in Nat /\ Before(w, 0) = 0 /\ Before(w, Len(w)) \in Nat /\ N \in Nat \ {0} /\ B \in Nat
  <2>1. w \in Seq(0 .. B)
    BY <1>1, Sizes
  <2>2. Len(w) \in Nat /\ Len(w) \in 0 .. Len(w)
    BY <2>1
  <2> HIDE DEF w
  <2> QED  BY <2>1, <2>2, BeforeFacts, Sizes
<1>3. PICK full : full = [b \in 1 .. N |-> [mem |-> b, valid |-> B]]
  OBVIOUS
<1>4. full \in Seq(Blocks) /\ Len(full) = N /\ \A p \in 1 .. N : full[p] = Fresh(p)
  <2>1. \A p \in 1 .. N : full[p] \in Blocks /\ full[p] = Fresh(p)
    <3> SUFFICES ASSUME NEW p \in 1 .. N  PROVE full[p] \in Blocks /\ full[p] = Fresh(p)
      OBVIOUS
    <3>1. full[p] = [mem |-> p, valid |-> B] /\ p \in 0 .. N
      BY <1>2, <1>3
    <3>2. Wrap(p) = p
      <4>1. p \in Nat \ {0} /\ p - 1 \in Nat /\ p - 1 \in 0 .. N - 1
        BY <1>2
      <4>2. \A a \in Nat : a \in 0 .. N - 1 => a % N = a
        BY <1>2
      <4>3. (p - 1) % N = p - 1
        BY <4>1, <4>2
      <4> QED  BY <4>1, <4>3 DEF Wrap, Turn
    <3> QED  BY <3>1, <3>2, <1>2 DEF Blocks, Fresh
  <2> QED  BY <2>1, <1>2, <1>3
<1>5. /\ queue[0] = full /\ queue[1] = << >> /\ queue[2] = << >>
      /\ queue \in [0 .. 2 -> Seq(Blocks)]
  <2>1. << >> \in Seq(Blocks)
    OBVIOUS
  <2> QED  BY <2>1, <1>1, <1>3, <1>4
<1>6. Roads
  <2>1. [mem |-> 0, valid |-> 0] \in Blocks
    BY <1>2 DEF Blocks
  <2>2. current \in [1 .. 3 -> Blocks]
    BY <2>1, <1>1
  <2>3. "unstarted" \in States
    BY DEF States
  <2>4. state \in [1 .. 3 -> States] /\ \A i \in 1 .. 3 : state[i] = "unstarted"
    BY <2>3, <1>1
  <2> QED  BY <2>2, <2>4, <1>5 DEF Roads
<1>7. StreamTypes
  <2>1. /\ blocks = << >> /\ it = 0 /\ cursor = 0 /\ blockEnd = 0 /\ marked = 0 /\ hitPoison = FALSE /\ poisoned = FALSE
        /\ next = 1 /\ mark = 0 /\ rewinds = 0
    BY <1>1
  <2>2. << >> \in Seq(Blocks)
    OBVIOUS
  <2>3. blocks \in Seq(Blocks) /\ it \in Nat /\ cursor \in Nat /\ blockEnd \in Nat /\ marked \in Nat
    BY ONLY <2>1, <2>2
  <2>4. next \in Nat \ {0} /\ mark \in Nat /\ rewinds \in Nat
    BY ONLY <2>1
  <2>5. hitPoison \in BOOLEAN /\ poisoned \in BOOLEAN
    BY ONLY <2>1
  <2> QED  BY ONLY <2>3, <2>4, <2>5 DEF StreamTypes
<1>8. Types
  <2>1. memory \in [1 .. N * B -> Int] /\ sent \in Seq(Int) /\ filled \in 0 .. Len(use.fills)
    BY <1>1, <1>2
  <2> QED  BY <2>1, <1>1, <1>6, <1>7 DEF Types
<1>9. state[1] = "unstarted" /\ state[2] = "unstarted" /\ state[3] = "unstarted" /\ Hand(1) = 0 /\ Hand(3) = 0
      /\ Len(blocks) = 0 /\ DOMAIN sent = {} /\ Len(sent) = 0 /\ Len(queue[1]) = 0 /\ Len(queue[2]) = 0
  BY <1>1, <1>5 DEF Hand
<1> HIDE DEF w
<1>10. Upstream(w, 0)
  BY <1>1, <1>2, <1>4, <1>5, <1>9 DEF Upstream
<1>11. Between(w, 0 + Len(blocks)) /\ Holds(w, 0)
  BY <1>1, <1>9 DEF Between, Holds
<1>12. Downstream(w, Before(w, Len(w)), 0, 0)
  BY <1>9 DEF Downstream
<1>13. Stored(w, 0) /\ Sent(w, Before(w, Len(w)), 0)
  BY <1>1, <1>2, <1>9 DEF Stored, Sent
<1>14. Client(w, Before(w, Len(w)), 0)
  <2>1. Behind(w, 0)
    BY <1>1, <1>2, <1>9 DEF Behind
  <2> QED  BY <2>1, <1>1, <1>9 DEF Client, Gone, Marked
<1>15. Now(w, Before(w, Len(w)), 0, 0)
  BY <1>8, <1>10, <1>11, <1>12, <1>13, <1>14 DEF Now, Ring, w
<1> QED  BY <1>2, <1>15 DEF IInv

LEMMA NextKeeps ==
  ASSUME UsesFit(Uses), IInv, Near, Reader!Next
  PROVE  IInv'
<1>0. PICK w : \E s, f, e \in Nat : Now(w, e, s, f)
  BY DEF IInv
<1>1. PICK s \in Nat, f \in Nat, e \in Nat : Now(w, e, s, f)
  BY <1>0
<1>2. SUFFICES \E t, h, d \in Nat : Now(w, d, t, h)'
  BY DEF IInv
<1>3. CASE Reader!UpstreamThread
  <2>1. CASE Reader!FillBlock
    BY <2>1, <1>1, FillBlockStep
  <2>2. CASE Reader!FillEnd
    BY <2>2, <1>1, FillEndStep
  <2>3. CASE /\ Reader!Start(1) \/ Reader!Consume(1)
             /\ UNCHANGED <<use, Reader!svars, filled, memory, Reader!cvars, sent>>
    <3>1. Aside /\ UNCHANGED <<filled, memory, sent>>
      BY <2>3 DEF Aside, Reader!svars, Reader!cvars
    <3> QED  BY <3>1, <2>3, <1>1, UpstreamTakes
  <2> QED  BY <2>1, <2>2, <2>3, <1>3 DEF Reader!UpstreamThread, Reader!Upstream
<1>4. CASE Reader!Client
  <2>1. CASE Reader!ReadOn
    BY <2>1, <1>1, ReadOnStep
  <2>2. CASE Reader!MarkHere
    BY <2>2, <1>1, MarkStep
  <2>3. CASE Reader!GoBack
    BY <2>3, <1>1, GoBackStep
  <2>4. CASE Reader!Destroy
    <3>1. /\ hitPoison /\ (~poisoned => it = Len(blocks) - 1) /\ Waits
          /\ Reader!PoisonEmpty \/ Reader!PoisonFlush
      BY <2>4 DEF Reader!Destroy, Reader!Close, Reader!cvars, Waits, Apart
    <3>2. CASE Reader!PoisonEmpty
      BY <3>1, <3>2, <1>1, PoisonEmptyStep
    <3>3. CASE Reader!PoisonFlush /\ (poisoned \/ it # Len(blocks) - 1)
      BY <3>1, <3>3, <1>1, PoisonAbortStep
    <3>4. CASE Reader!PoisonFlush /\ ~(poisoned \/ it # Len(blocks) - 1)
      BY <3>1, <3>4, <1>1, PoisonFlushStep
    <3> QED  BY <3>1, <3>2, <3>3, <3>4
  <2>5. CASE Reader!Stream
    <3>1. Waits /\ (Reader!StreamStart \/ Reader!AppendConsume \/ Reader!PoisonProduce)
      BY <2>5 DEF Reader!Stream, Reader!StreamThread, Reader!cvars, Waits, Apart
    <3> QED  BY <3>1, <1>1, StreamStartStep, AppendConsumeStep, PoisonProduceStep
  <2> QED  BY <2>1, <2>2, <2>3, <2>4, <2>5, <1>4 DEF Reader!Client
<1>5. CASE Reader!SinkThread
  <2>1. CASE Reader!WriteBlock
    BY <2>1, <1>1, SinkWriteStep
  <2>2. CASE /\ Reader!Start(3) \/ Reader!Consume(3) \/ Reader!PassPoison(3)
             /\ UNCHANGED <<use, Reader!svars, filled, memory, Reader!cvars, sent>>
    <3>1. Aside /\ UNCHANGED <<filled, memory, sent>>
      BY <2>2 DEF Aside, Reader!svars, Reader!cvars
    <3> QED  BY <3>1, <2>2, <1>1, SinkStartStep, SinkConsumeStep, SinkPoisonStep
  <2> QED  BY <2>1, <2>2, <1>5 DEF Reader!SinkThread, Reader!Sink
<1>6. CASE Reader!Finished
  <2>1. UNCHANGED <<queue, current, state, blocks, it, cursor, blockEnd, marked, hitPoison, poisoned, memory, sent,
                    use, filled, next, mark, rewinds>>
    BY <1>6 DEF Reader!Finished, Reader!vars, Reader!lvars, Reader!svars, Reader!cvars
  <2>2. Now(w, e, s, f)'
    BY <2>1, <1>1 DEF Now, Types, Roads, StreamTypes, Ring, Upstream, Between, Holds, Downstream, Stored, Sent, Client,
         Gone, Within, Behind, Marked, Destroyed, Hand
  <2> QED  BY <2>2
<1> QED  BY <1>3, <1>4, <1>5, <1>6 DEF Reader!Next

LEMMA NextNear ==
  ASSUME IInv, Near, Reader!Next
  PROVE  Near'
<1>1. next \in Nat /\ mark \in Nat /\ use.limit \in Nat
  BY Sizes DEF IInv, Now, Types, StreamTypes
<1>2. use' = use
  BY DEF Reader!Next, Reader!UpstreamThread, Reader!FillBlock, Reader!FillEnd, Reader!Client, Reader!ReadOn,
         Reader!MarkHere, Reader!GoBack, Reader!Destroy, Reader!Stream, Reader!SinkThread, Reader!WriteBlock,
         Reader!Finished, Reader!vars
<1>3. CASE Reader!ReadOn
  <2>1. mark' = mark /\ next' = next + 1 /\ (mark # 0 => next - mark < use.limit)
    BY <1>3 DEF Reader!ReadOn
  <2> QED  BY <2>1, <1>1, <1>2 DEF Near
<1>4. CASE Reader!MarkHere
  <2>1. mark' = next /\ next' = next
    BY <1>4 DEF Reader!MarkHere
  <2> QED  BY <2>1, <1>1, <1>2 DEF Near
<1>5. CASE Reader!GoBack
  <2>1. mark' = mark /\ next' = mark
    BY <1>5 DEF Reader!GoBack
  <2> QED  BY <2>1, <1>1, <1>2 DEF Near
<1>6. CASE ~(Reader!ReadOn \/ Reader!MarkHere \/ Reader!GoBack)
  <2>1. mark' = mark /\ next' = next
    BY <1>6 DEF Reader!Next, Reader!UpstreamThread, Reader!FillBlock, Reader!FillEnd, Reader!Client, Reader!Destroy,
         Reader!Stream, Reader!SinkThread, Reader!WriteBlock, Reader!Finished, Reader!vars, Reader!cvars
  <2> QED  BY <2>1, <1>2 DEF Near
<1> QED  BY <1>3, <1>4, <1>5, <1>6

---------------------------------------------------------------------------
\* What the invariant says of the records.

LEMMA InvReads ==
  ASSUME IInv
  PROVE  Reader!InOrder
<1>0. PICK w : \E s, f, e \in Nat : Now(w, e, s, f)
  BY DEF IInv
<1>1. PICK s \in Nat, f \in Nat, e \in Nat : Now(w, e, s, f)
  BY <1>0
<1>2. /\ w \in Seq(0 .. B) /\ Len(w) \in Nat /\ filled \in Nat /\ filled <= Len(w)
      /\ Len(blocks) \in Nat /\ f + Len(blocks) <= filled /\ s <= f
      /\ Stored(w, s) /\ Client(w, e, f) /\ w = use.fills
  BY <1>1, NowFacts DEF Now
<1>3. Reader!Total = Before(w, Len(w))
  BY <1>2, SameSums
<1>4. ASSUME state[2] = "ready", ~poisoned  PROVE memory[cursor] = next /\ next <= Before(w, Len(w)) /\ next \in Nat
  <2>1. PICK c : c = f + it + 1 /\ Record(w, e, f, c)
    BY <1>1, <1>4, AtRecord
  <2>2. /\ c \in 1 .. Len(w) /\ c <= f + Len(blocks) /\ it \in Nat /\ w[c] \in 1 .. B /\ Before(w, c - 1) \in Nat
        /\ Before(w, c) = Before(w, c - 1) + w[c] /\ Before(w, c - 1) < next /\ next <= Before(w, c) /\ next \in Nat
        /\ cursor = Cell(c, 1) + (next - 1 - Before(w, c - 1)) /\ c \in Nat
    BY <2>1 DEF Record
  <2>3. c \in s + 1 .. filled /\ c \in Nat \ {0} /\ c \in 0 .. Len(w)
    <3>1. c = f + it + 1 /\ it \in Nat /\ c \in Nat /\ c <= f + Len(blocks) /\ c \in 1 .. Len(w)
      BY <2>1, <2>2
    <3>2. s <= f /\ f + Len(blocks) <= filled /\ filled \in Nat /\ Len(blocks) \in Nat /\ Len(w) \in Nat
      BY <1>2
    <3>3. s + 1 <= c /\ c <= filled
      BY <3>1, <3>2
    <3> QED  BY <3>1, <3>2, <3>3
  <2>4. PICK a \in Nat, v \in 1 .. B : a = Before(w, c - 1) /\ v = w[c]
    BY <2>2
  <2>5. next - a \in 1 .. B /\ next - a <= v /\ next - 1 - a = next - a - 1 /\ a + (next - a) = next
    <3>1. a < next /\ next <= a + v /\ next \in Nat /\ B \in Nat /\ v \in Nat /\ v <= B
      BY <2>2, <2>4, Sizes
    <3> QED  BY ONLY <3>1, a \in Nat
  <2>6. cursor = Cell(c, next - a)
    <3>1. Cell(c, next - a) = Cell(c, 1) + (next - a - 1)
      BY <2>3, <2>5, CellFacts
    <3> QED  BY <3>1, <2>2, <2>4, <2>5
  <2>7. memory[Cell(c, next - a)] = a + (next - a)
    BY <1>2, <2>3, <2>4, <2>5 DEF Stored
  <2>8. Before(w, c) <= Before(w, Len(w)) /\ Before(w, c) \in Nat /\ Before(w, Len(w)) \in Nat
    <3>1. Len(w) \in 0 .. Len(w) /\ c <= Len(w)
      BY <1>2, <2>2
    <3> QED  BY <3>1, <1>2, <2>3, BeforeGrows, BeforeFacts
  <2>9. memory[cursor] = next
    BY <2>5, <2>6, <2>7
  <2>10. next <= Before(w, Len(w)) /\ next \in Nat
    BY <2>2, <2>8
  <2> QED  BY <2>9, <2>10
<1>5. ASSUME state[2] = "ready", poisoned  PROVE next = Before(w, Len(w)) + 1
  <2>1. Behind(w, f) /\ hitPoison
    BY <1>2, <1>5 DEF Client
  <2>2. f + Len(blocks) = Len(w)
    BY <1>1, <2>1, AllHere
  <2> QED  BY <2>1, <2>2 DEF Behind
<1>6. Before(w, Len(w)) \in Nat
  <2>1. Len(w) \in 0 .. Len(w)
    BY <1>2
  <2> QED  BY <2>1, <1>2, BeforeFacts
<1>7. ASSUME state[2] = "ready", ~poisoned  PROVE next # Before(w, Len(w)) + 1
  BY <1>4, <1>6, <1>7
<1> QED  BY <1>3, <1>4, <1>5, <1>7 DEF Reader!InOrder, Reader!Good, Reader!Ready

LEMMA InvSends ==
  ASSUME IInv
  PROVE  Reader!SentAsRead
<1>0. PICK w : \E s, f, e \in Nat : Now(w, e, s, f)
  BY DEF IInv
<1>1. PICK s \in Nat, f \in Nat, e \in Nat : Now(w, e, s, f)
  BY <1>0
<1>2. Sent(w, e, s) /\ Downstream(w, e, s, f) /\ Client(w, e, f)
  BY <1>1, NowFacts
<1>3. ASSUME Reader!Ended  PROVE Len(sent) = next - 1
  <2>1. state[2] = "done" /\ state[3] = "done"
    BY <1>3 DEF Reader!Ended
  <2>2. s = f /\ f = Len(w) /\ e = next - 1
    BY <2>1, <1>2 DEF Downstream, Client, Gone, Destroyed
  <2> QED  BY <2>2, <1>2 DEF Sent
<1> QED  BY <1>2, <1>3 DEF Sent, Reader!SentAsRead

\* Where the behaviour is one of the reader.
ReaderInv == client = "reader" => IInv /\ Near

LEMMA ReaderInvHolds ==
  ASSUME UsesFit(Uses)
  PROVE  Spec => []ReaderInv
<1>1. Init => ReaderInv
  <2> SUFFICES ASSUME Init, client = "reader"  PROVE IInv /\ Near
    BY DEF ReaderInv
  <2>1. Reader!Init
    BY DEF Init, ReaderInit, WriterInit
  <2>2. Near
    BY <2>1 DEF Reader!Init, Near
  <2> QED  BY <2>1, <2>2, Starts
<1>2. ReaderInv /\ [Next]_vars => ReaderInv'
  <2> SUFFICES ASSUME ReaderInv, [Next]_vars, client' = "reader"  PROVE IInv' /\ Near'
    BY DEF ReaderInv
  <2>1. CASE Reading(Reader!Next)
    BY <2>1, NextKeeps, NextNear DEF Reading, ReaderInv
  <2>2. CASE Writing(Writer!Next)
    BY <2>2 DEF Writing
  <2>3. CASE UNCHANGED vars
    <3>1. client = "reader" /\ UNCHANGED <<queue, current, state, blocks, it, cursor, blockEnd, marked, hitPoison, poisoned,
                                          memory, sent, use, filled, next, mark, rewinds>>
      BY <2>3 DEF vars, streamVars, readerVars
    <3>2. PICK w : \E s, f, e \in Nat : Now(w, e, s, f)
      BY <3>1 DEF ReaderInv, IInv
    <3>4. PICK s \in Nat, f \in Nat, e \in Nat : Now(w, e, s, f)
      BY <3>2
    <3>3. Now(w, e, s, f)'
      BY <3>1, <3>4 DEF Now, Types, Roads, StreamTypes, Ring, Upstream, Between, Holds, Downstream, Stored, Sent, Client,
         Gone, Within, Behind, Marked, Destroyed, Hand
    <3>5. Near'
      BY <3>1 DEF ReaderInv, Near
    <3> QED  BY <3>3, <3>5 DEF IInv
  <2> QED  BY <2>1, <2>2, <2>3 DEF Next
<1> QED  BY <1>1, <1>2, PTL DEF Spec

\* Wherever the client is, it is at the next record of the file, after operator++ as
\* after Rewind, and the end comes when, and only when, all are read
\* (RewindableStream::operator++, Mark and Rewind, rewindable_stream.cc).
THEOREM ReadsInOrderHolds ==
  ASSUME UsesFit(Uses)
  PROVE  Spec => []ReadsInOrder
<1>1. ReaderInv => ReadsInOrder
  BY InvReads DEF ReaderInv, ReadsInOrder
<1> QED  BY <1>1, ReaderInvHolds, PTL

\* What has gone out behind the stream are the records in order, each once, and in
\* the end all that the client went over, the rest of the last block cut off (Flush
\* and Poison, rewindable_stream.cc).
THEOREM SentInOrderHolds ==
  ASSUME UsesFit(Uses)
  PROVE  Spec => []SentInOrder
<1>1. ReaderInv => SentInOrder
  BY InvSends DEF ReaderInv, SentInOrder
<1> QED  BY <1>1, ReaderInvHolds, PTL
=============================================================================
