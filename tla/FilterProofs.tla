---------------------------- MODULE FilterProofs ----------------------------
(***************************************************************************)
(* Every batch of lm/filter/thread.hh has one owner at a time, for any     *)
(* number of threads and batches, any batch size and any input; and the    *)
(* file is the one that a single thread would write, if the input is one   *)
(* of which that can be said.                                              *)
(*                                                                         *)
(* The first invariant, IInv, says where the batches are and what numbers  *)
(* they have.  The second one, OInv, says what lines they hold: those the  *)
(* reader has given away and the file has not got yet, in order and        *)
(* without a gap; and how much of each batch has been filtered.            *)
(***************************************************************************)
EXTENDS FilterController, FiniteSetTheorems, SequenceTheorems, TLAPS

---------------------------------------------------------------------------
\* Where b occurs in a sequence, or a function with a finite domain, and how often.
At(s, b) == {i \in DOMAIN s : s[i] = b}
Count(s, b) == Cardinality(At(s, b))

Is(x, b) == IF x = b THEN 1 ELSE 0

LEMMA CountType ==
  ASSUME NEW f, IsFiniteSet(DOMAIN f), NEW b
  PROVE  /\ IsFiniteSet(At(f, b))
         /\ Count(f, b) \in Nat
         /\ \A i \in DOMAIN f : f[i] = b => Count(f, b) >= 1
<1>1. At(f, b) \subseteq DOMAIN f /\ \A i \in DOMAIN f : f[i] = b <=> i \in At(f, b)
  BY DEF At
<1>2. IsFiniteSet(At(f, b))
  BY <1>1, FS_Subset
<1>3. Count(f, b) \in Nat
  BY <1>2, FS_CardinalityType DEF Count
<1>4. Count(f, b) = 0 <=> At(f, b) = {}
  BY <1>2, FS_EmptySet DEF Count
<1>5. ASSUME NEW i \in DOMAIN f, f[i] = b PROVE Count(f, b) >= 1
  <2>1. i \in At(f, b)
    BY <1>1, <1>5
  <2> QED BY <1>3, <1>4, <2>1
<1> QED BY <1>2, <1>3, <1>5

LEMMA CountSeq ==
  ASSUME NEW R, NEW s \in Seq(R), NEW b
  PROVE  /\ IsFiniteSet(At(s, b))
         /\ Count(s, b) \in Nat
         /\ \A i \in 1 .. Len(s) : s[i] = b => Count(s, b) >= 1
<1>1. s \in [1 .. Len(s) -> R] /\ Len(s) \in Nat
  OBVIOUS
<1>2. IsFiniteSet(1 .. Len(s))
  BY <1>1, FS_Interval
<1> QED BY <1>1, <1>2, CountType

LEMMA CountEmpty == \A b : Count(<< >>, b) = 0
  BY FS_EmptySet DEF Count, At

LEMMA CountAppend ==
  ASSUME NEW R, NEW s \in Seq(R), NEW y \in R, NEW b
  PROVE  Count(Append(s, y), b) = Count(s, b) + Is(y, b)
<1> DEFINE g == Append(s, y)
           n == Len(s) + 1
<1>1. IsFiniteSet(At(s, b)) /\ Count(s, b) \in Nat
  BY CountSeq
<1>2. DOMAIN s = 1 .. Len(s) /\ DOMAIN g = 1 .. n /\ Len(s) \in Nat
  BY AppendProperties
<1>3. g[n] = y /\ \A i \in 1 .. Len(s) : g[i] = s[i]
  BY AppendProperties
<1>4. n \notin At(s, b)
  BY <1>2 DEF At
<1>5. CASE y = b
  <2>1. At(g, b) = At(s, b) \cup {n}
    BY <1>2, <1>3, <1>5 DEF At
  <2>2. Count(g, b) = Count(s, b) + 1
    BY <1>1, <1>4, <2>1, FS_AddElement DEF Count
  <2> QED BY <1>5, <2>2 DEF Is
<1>6. CASE y # b
  <2>1. At(g, b) = At(s, b)
    BY <1>2, <1>3, <1>6 DEF At
  <2> QED BY <1>1, <1>6, <2>1 DEF Is, Count
<1> QED BY <1>5, <1>6

LEMMA CountTail ==
  ASSUME NEW R, NEW s \in Seq(R), s # << >>, NEW b
  PROVE  Count(Tail(s), b) = Count(s, b) - Is(Head(s), b)
<1> DEFINE t == Tail(s)
           U == At(s, b) \ {1}
           f == [i \in At(t, b) |-> i + 1]
<1>1. IsFiniteSet(At(s, b)) /\ Count(s, b) \in Nat
  BY CountSeq
<1>2. t \in Seq(R) /\ Len(t) = Len(s) - 1 /\ \A i \in 1 .. Len(t) : t[i] = s[i + 1]
  BY HeadTailProperties
<1>3. DOMAIN s = 1 .. Len(s) /\ DOMAIN t = 1 .. Len(t) /\ Len(s) \in Nat /\ Len(t) \in Nat
  BY <1>2
<1>4. IsFiniteSet(At(t, b))
  BY <1>2, CountSeq
<1>5. f \in [At(t, b) -> U]
  BY <1>2, <1>3 DEF At
<1>6. \A i \in At(t, b), j \in At(t, b) : f[i] = f[j] => i = j
  BY <1>3 DEF At
<1>7. ASSUME NEW k \in U PROVE k - 1 \in At(t, b) /\ f[k - 1] = k
  BY <1>2, <1>3 DEF At
<1>8. Cardinality(At(t, b)) = Cardinality(U)
  <2> HIDE DEF f, t, U
  <2>1. f \in Injection(At(t, b), U)
    BY <1>5, <1>6 DEF Injection, IsInjective
  <2>2. f \in Surjection(At(t, b), U)
    BY <1>5, <1>7 DEF Surjection
  <2>3. ExistsBijection(At(t, b), U)
    BY <2>1, <2>2 DEF ExistsBijection, Bijection
  <2> QED BY <1>4, <2>3, FS_Bijection
<1>9. Cardinality(U) = (IF 1 \in At(s, b) THEN Count(s, b) - 1 ELSE Count(s, b))
  BY <1>1, FS_RemoveElement DEF Count
<1>10. 1 \in At(s, b) <=> Head(s) = b
  BY <1>3 DEF At
<1> QED BY <1>1, <1>8, <1>9, <1>10 DEF Is, Count

LEMMA CountPush ==
  ASSUME NEW R, NEW s \in Seq(R), NEW y \in R, NEW b
  PROVE  Count(<<y>> \o s, b) = Count(s, b) + Is(y, b)
<1> DEFINE t == <<y>> \o s
<1>1. t \in Seq(R) /\ t # << >> /\ Head(t) = y /\ Tail(t) = s
  BY ConcatProperties, ConcatSimplifications, HeadTailProperties, SeqEqual
<1>2. Count(s, b) \in Nat /\ Count(t, b) \in Nat
  BY <1>1, CountSeq
<1> HIDE DEF t
<1>3. Count(s, b) = Count(t, b) - Is(y, b)
  BY <1>1, CountTail
<1>4. Count(t, b) = Count(s, b) + Is(y, b)
  BY <1>2, <1>3 DEF Is
<1> QED BY <1>4 DEF t

\* Filling an empty place of the line adds one occurrence, and empty places
\* before it add none.
LEMMA CountPlaced ==
  ASSUME ordering \in Seq(Batches \cup {Null}), NEW pos \in Nat \ {0}, NEW c \in Batches,
         pos <= Len(ordering) => ordering[pos] = Null, NEW b \in Batches
  PROVE  /\ Placed(pos, c) \in Seq(Batches \cup {Null})
         /\ Count(Placed(pos, c), b) = Count(ordering, b) + Is(c, b)
<1> DEFINE n == IF pos > Len(ordering) THEN pos ELSE Len(ordering)
           g == Placed(pos, c)
<1>1. b # Null /\ c # Null
  BY ControllerAssumption
<1>2. /\ DOMAIN ordering = 1 .. Len(ordering) /\ Len(ordering) \in Nat /\ n \in Nat
      /\ \A i \in 1 .. Len(ordering) : ordering[i] \in Batches \cup {Null}
  OBVIOUS
<1>3. /\ g = [i \in 1 .. n |-> IF i = pos THEN c
                               ELSE IF i <= Len(ordering) THEN ordering[i] ELSE Null]
  BY DEF Placed
<1>4. \A i \in 1 .. n : g[i] \in Batches \cup {Null}
  BY <1>2, <1>3
<1>5. g \in Seq(Batches \cup {Null})
  BY <1>2, <1>3, <1>4, IsASeq
<1>6. IsFiniteSet(At(ordering, b)) /\ Count(ordering, b) \in Nat
  BY CountSeq
<1>7. pos \notin At(ordering, b)
  BY <1>1, <1>2 DEF At
<1>8. CASE c = b
  <2>1. At(g, b) = At(ordering, b) \cup {pos}
    BY <1>1, <1>2, <1>3, <1>8 DEF At
  <2>2. Count(g, b) = Count(ordering, b) + 1
    BY <1>6, <1>7, <2>1, FS_AddElement DEF Count
  <2> QED BY <1>5, <1>8, <2>2 DEF Is
<1>9. CASE c # b
  <2>1. At(g, b) = At(ordering, b)
    BY <1>1, <1>2, <1>3, <1>9 DEF At
  <2>2. Count(g, b) = Count(ordering, b)
    BY <2>1 DEF Count
  <2> QED BY <1>5, <1>6, <1>9, <2>2 DEF Is
<1> QED BY <1>8, <1>9

---------------------------------------------------------------------------
\* The inductive invariant.

Requests == Batches \cup {Null}
Waiting == Seq(Requests)
Holding == [Threads -> Requests]

Types ==
  /\ localRead \in Seq(Batches) /\ toRead \in Seq(Batches)
  /\ filterIn \in Waiting /\ outputIn \in Waiting /\ ordering \in Waiting
  /\ filterHeld \in Holding
  /\ number \in [Batches -> Nat] /\ sequence \in Nat /\ base \in Nat

\* The batches the reader has or will get back, and those on their way.
Home(b) == Count(localRead, b) + Count(toRead, b)
Away(b) == Count(filterIn, b) + Count(filterHeld, b) + Count(outputIn, b) + Count(ordering, b)

Owned == \A b \in Batches : Home(b) + Away(b) = 1

\* While the reader has an open batch, it is the top one.
Open == pc \in {"read", "flush"}

Reading ==
  /\ pc \in {"read", "flush", "new"} => localRead # << >>
  /\ pc \in {"flush", "move"} => resume \in {"new", "collect"}

\* The sequence numbers: those of the batches on their way differ, none has been
\* written yet, and the output worker's line is in their order.  So no batch is
\* put into a place of the line that is taken.
Numbered ==
  /\ base <= sequence
  /\ Open => base < sequence /\ number[Top] = sequence - 1
  /\ \A b \in Batches : Home(b) = 0 =>
       base <= number[b] /\ number[b] < (IF Open THEN sequence - 1 ELSE sequence)
  /\ \A b, c \in Batches : Home(b) = 0 /\ Home(c) = 0 /\ number[b] = number[c] => b = c
  /\ \A i \in 1 .. Len(ordering) : ordering[i] # Null => number[ordering[i]] = base + i - 1

IInv == Types /\ Owned /\ Reading /\ Numbered

\* The counts are natural numbers, in every state with these types.
LEMMA Counted ==
  ASSUME Types, NEW b
  PROVE  /\ Count(localRead, b) \in Nat /\ Count(toRead, b) \in Nat
         /\ Count(filterIn, b) \in Nat /\ Count(filterHeld, b) \in Nat
         /\ Count(outputIn, b) \in Nat /\ Count(ordering, b) \in Nat
         /\ \A i \in 1 .. Len(localRead) : localRead[i] = b => Count(localRead, b) >= 1
         /\ \A i \in 1 .. Len(ordering) : ordering[i] = b => Count(ordering, b) >= 1
         /\ \A i \in 1 .. Len(outputIn) : outputIn[i] = b => Count(outputIn, b) >= 1
  BY CountSeq, CountType, ControllerAssumption DEF Types, Waiting, Holding

LEMMA OwnedIsOneOwner == ASSUME Types, Owned PROVE OneOwner
<1>1. \A b : Places(b) = Count(localRead, b) + Count(filterIn, b) + Count(filterHeld, b)
                         + Count(outputIn, b) + Count(ordering, b) + Count(toRead, b)
  BY DEF Places, Count, At, Types, Holding
<1> QED BY <1>1, Counted DEF Owned, Home, Away, OneOwner

LEMMA InitInvariant == Init => IInv
<1> SUFFICES ASSUME Init PROVE IInv
  OBVIOUS
<1> USE ControllerAssumption
<1> DEFINE n == Cardinality(Batches)
<1>1. n \in Nat /\ n >= 2
  BY FS_CardinalityType, FS_EmptySet
<1>2. localRead \in [1 .. n -> Batches] /\ IsInjective(localRead)
  <2>1. ExistsBijection(1 .. n, Batches)
    BY FS_CardinalityType
  <2>2. PICK f : f \in Bijection(1 .. n, Batches)
    BY <2>1 DEF ExistsBijection
  <2>3. f \in [1 .. n -> Batches] /\ IsInjective(f)
    BY <2>2 DEF Bijection, Injection
  <2> QED BY <2>3 DEF Init, SetToSeq
<1>3. localRead \in Seq(Batches) /\ Len(localRead) = n /\ localRead # << >>
  BY <1>1, <1>2
<1>4. \A b \in Batches : Count(localRead, b) = 1
  <2> SUFFICES ASSUME NEW b \in Batches PROVE Count(localRead, b) = 1
    OBVIOUS
  <2>1. localRead \in Injection(1 .. n, Batches)
    BY <1>2 DEF Injection
  <2>2. IsFiniteSet(1 .. n) /\ Cardinality(1 .. n) = n
    BY <1>1, FS_Interval
  <2>3. localRead \in Surjection(1 .. n, Batches)
    BY <2>1, <2>2, FS_Injection
  <2>4. PICK i \in 1 .. n : localRead[i] = b
    BY <2>3 DEF Surjection
  <2>5. At(localRead, b) = {i}
    BY <1>2, <2>4 DEF At, IsInjective
  <2> QED BY <2>5, FS_Singleton DEF Count
<1>5. \A b \in Batches : Count(filterHeld, b) = 0
  <2>1. \A b \in Batches : At(filterHeld, b) = {}
    BY DEF Init, Filters!Init, At
  <2> QED BY <2>1, FS_EmptySet DEF Count
<1>6. Types
  BY <1>3 DEF Init, Filters!Init, Outputs!Init, Types, Waiting, Holding, Requests
<1>7. \A b \in Batches : Home(b) = 1 /\ Away(b) = 0
  BY <1>4, <1>5, CountEmpty DEF Init, Filters!Init, Outputs!Init, Home, Away
<1>8. Owned
  BY <1>7 DEF Owned
<1>9. Reading
  BY <1>3 DEF Init, Reading
<1>10. Numbered
  <2>1. Top \in Batches
    BY <1>3, HeadTailProperties DEF Top
  <2> QED BY <1>7, <2>1 DEF Init, Numbered, Open
<1> QED BY <1>6, <1>8, <1>9, <1>10 DEF IInv

---------------------------------------------------------------------------
\* The steps.

\* Where a batch in one of these places is.
LEMMA Whereabouts ==
  ASSUME IInv
  PROVE  /\ localRead # << >> => Top \in Batches /\ Home(Top) = 1
         /\ \A i \in 1 .. Len(outputIn) : outputIn[i] \in Batches =>
              Home(outputIn[i]) = 0 /\ Count(ordering, outputIn[i]) = 0
         /\ \A i \in 1 .. Len(ordering) : ordering[i] \in Batches => Home(ordering[i]) = 0
         /\ \A b \in Batches : Home(b) \in Nat /\ Away(b) \in Nat
<1> USE DEF IInv
<1>1. ASSUME localRead # << >> PROVE Top \in Batches /\ Home(Top) = 1
  <2>1. Top \in Batches /\ Top = localRead[1] /\ 1 \in 1 .. Len(localRead)
    BY <1>1, HeadTailProperties DEF Top, Types
  <2>2. Count(localRead, Top) >= 1
    BY <2>1, Counted
  <2> QED BY <2>1, <2>2, Counted DEF Owned, Home, Away
<1>2. ASSUME NEW i \in 1 .. Len(outputIn), outputIn[i] \in Batches
      PROVE  Home(outputIn[i]) = 0 /\ Count(ordering, outputIn[i]) = 0
  <2>1. PICK b \in Batches : b = outputIn[i]
    BY <1>2
  <2>2. Count(outputIn, b) >= 1
    BY <2>1, Counted
  <2>3. Home(b) = 0 /\ Count(ordering, b) = 0
    BY <2>2, Counted DEF Owned, Home, Away
  <2> QED BY <2>1, <2>3
<1>3. ASSUME NEW i \in 1 .. Len(ordering), ordering[i] \in Batches PROVE Home(ordering[i]) = 0
  <2>1. PICK b \in Batches : b = ordering[i]
    BY <1>3
  <2>2. Count(ordering, b) >= 1
    BY <2>1, Counted
  <2>3. Home(b) = 0
    BY <2>2, Counted DEF Owned, Home, Away
  <2> QED BY <2>1, <2>3
<1>4. ASSUME NEW b \in Batches PROVE Home(b) \in Nat /\ Away(b) \in Nat
  BY Counted DEF Home, Away
<1> QED BY <1>1, <1>2, <1>3, <1>4

\* The steps that move no batch and number none.
LEMMA StayInvariant ==
  ASSUME IInv, UNCHANGED <<sequence, localRead, toRead, number, filterIn, filterHeld,
                           outputIn, ordering, base>>,
         Reading', Open' => Open
  PROVE  IInv'
<1>1. Types' /\ Owned'
  BY DEF IInv, Types, Waiting, Holding, Owned, Home, Away
<1>2. Numbered'
  <2>1. \A b \in Batches : Home(b)' = Home(b)
    BY DEF Home
  <2>2. Top' = Top
    BY DEF Top
  <2> QED BY <2>1, <2>2 DEF IInv, Types, Numbered
<1> QED BY <1>1, <1>2 DEF IInv

\* The reader opens its top batch.
LEMMA OpenTopInvariant ==
  ASSUME IInv, ~Open, localRead # << >>, OpenTop, Reading',
         UNCHANGED <<localRead, toRead, filterIn, filterHeld, outputIn, ordering, base>>
  PROVE  IInv'
<1>1. Top \in Batches /\ Home(Top) = 1
  BY Whereabouts
<1>2. /\ number' = [number EXCEPT ![Top] = sequence] /\ sequence' = sequence + 1
  BY DEF OpenTop
<1>3. Types'
  BY <1>1, <1>2 DEF IInv, Types
<1>4. \A b : Home(b)' = Home(b) /\ Away(b)' = Away(b)
  BY DEF Home, Away
<1>5. Owned'
  BY <1>4 DEF IInv, Owned
<1>6. Top' = Top
  BY DEF Top
<1>7. \A b \in Batches : Home(b) = 0 => number'[b] = number[b]
  BY <1>1, <1>2 DEF IInv, Types
<1>8. Numbered'
  <2>1. base' <= sequence' /\ base' < sequence' /\ number'[Top'] = sequence' - 1
    BY <1>1, <1>2, <1>6 DEF IInv, Types, Numbered
  <2>2. ASSUME NEW b \in Batches, Home(b)' = 0
        PROVE  base' <= number'[b] /\ number'[b] < sequence' - 1
    BY <1>2, <1>4, <1>7, <2>2 DEF IInv, Types, Numbered
  <2>3. ASSUME NEW b \in Batches, NEW c \in Batches, Home(b)' = 0, Home(c)' = 0,
               number'[b] = number'[c]
        PROVE  b = c
    BY <1>4, <1>7, <2>3 DEF IInv, Numbered
  <2>4. ASSUME NEW i \in 1 .. Len(ordering'), ordering'[i] # Null
        PROVE  number'[ordering'[i]] = base' + i - 1
    <3>1. ordering[i] \in Batches
      BY <2>4 DEF IInv, Types, Waiting, Requests
    <3>2. Home(ordering[i]) = 0
      BY <3>1, Whereabouts
    <3> QED BY <1>7, <2>4, <3>1, <3>2 DEF IInv, Numbered
  <2>5. \A b \in Batches : Home(b)' = 0 => number'[b] < sequence'
    BY <1>2, <1>3, <2>2 DEF Types
  <2> QED BY <2>1, <2>2, <2>3, <2>4, <2>5 DEF Numbered
<1> QED BY <1>3, <1>5, <1>8 DEF IInv

\* The reader gives its top batch away.
LEMMA FlushInputInvariant == ASSUME IInv, FlushInput PROVE IInv'
<1> USE ControllerAssumption
<1>1. /\ Open /\ ~Open' /\ resume \in {"new", "collect"} /\ localRead # << >>
  BY DEF IInv, Reading, FlushInput, Open
<1>2. Top \in Batches /\ Home(Top) = 1
  BY <1>1, Whereabouts
<1>3. /\ localRead' = Tail(localRead) /\ filterIn' = Append(filterIn, Top)
      /\ UNCHANGED <<sequence, toRead, number, filterHeld, outputIn, ordering, base>>
  BY DEF FlushInput, Filters!Produce, batches, writer, outputPool
<1>4. Types'
  <2>1. localRead' \in Seq(Batches)
    BY <1>1, <1>3, HeadTailProperties DEF IInv, Types
  <2>2. filterIn' \in Waiting
    BY <1>2, <1>3, AppendProperties DEF IInv, Types, Waiting, Requests
  <2> QED BY <1>3, <2>1, <2>2 DEF IInv, Types
<1>5. \A b : Count(localRead', b) = Count(localRead, b) - Is(Top, b)
  BY <1>1, <1>3, CountTail DEF IInv, Types, Top
<1>6. \A b : Count(filterIn', b) = Count(filterIn, b) + Is(Top, b)
  <2>1. filterIn \in Waiting /\ Top \in Requests
    BY <1>2 DEF IInv, Types, Requests
  <2> QED BY <1>3, <2>1, CountAppend DEF Waiting
<1>7. \A b \in Batches : Home(b)' = Home(b) - Is(Top, b) /\ Away(b)' = Away(b) + Is(Top, b)
  BY <1>3, <1>5, <1>6, Counted, SMTT(30) DEF IInv, Home, Away, Is
<1>8. Owned'
  BY <1>7, Whereabouts DEF IInv, Owned, Is
<1>9. Reading'
  BY <1>1 DEF FlushInput, Reading
<1>10. \A b \in Batches : Home(b)' = 0 => Home(b) = 0 \/ b = Top
  BY <1>7, Whereabouts DEF Is
<1>11. number[Top] = sequence - 1 /\ base < sequence
  BY <1>1 DEF IInv, Numbered
<1>12. Numbered'
  <2>1. ASSUME NEW b \in Batches, Home(b)' = 0
        PROVE  base <= number[b] /\ number[b] < sequence
    BY <1>1, <1>10, <1>11, <2>1 DEF IInv, Types, Numbered
  <2>2. ASSUME NEW b \in Batches, NEW c \in Batches, Home(b)' = 0, Home(c)' = 0,
               number[b] = number[c]
        PROVE  b = c
    <3>1. ASSUME NEW d \in Batches, Home(d) = 0 PROVE number[d] # number[Top]
      BY <1>1, <1>11, <3>1 DEF IInv, Types, Numbered
    <3> QED BY <1>10, <2>2, <3>1 DEF IInv, Numbered
  <2> QED BY <1>1, <1>3, <2>1, <2>2 DEF IInv, Types, Numbered
<1> QED BY <1>4, <1>8, <1>9, <1>12 DEF IInv

\* A batch comes back to the reader's stack.
LEMMA MoveReadInvariant ==
  ASSUME IInv, MoveRead, ~Open, ~Open', Reading'
  PROVE  IInv'
<1> DEFINE top == Head(toRead)
<1>1. /\ toRead # << >> /\ localRead' = <<top>> \o localRead /\ toRead' = Tail(toRead)
      /\ UNCHANGED <<sequence, number, filterIn, filterHeld, outputIn, ordering, base>>
  BY DEF MoveRead, batches, filterPool, outputPool, writer
<1>2. top \in Batches /\ toRead' \in Seq(Batches)
  BY <1>1, HeadTailProperties DEF IInv, Types
<1>3. localRead' \in Seq(Batches)
  BY <1>1, <1>2, ConcatProperties DEF IInv, Types
<1>4. Types'
  BY <1>1, <1>2, <1>3 DEF IInv, Types
<1>5. \A b : Count(localRead', b) = Count(localRead, b) + Is(top, b)
  BY <1>1, <1>2, CountPush DEF IInv, Types
<1>6. \A b : Count(toRead', b) = Count(toRead, b) - Is(top, b)
  BY <1>1, CountTail DEF IInv, Types
<1>7. \A b \in Batches : Home(b)' = Home(b) /\ Away(b)' = Away(b)
  BY <1>1, <1>5, <1>6, Counted DEF IInv, Home, Away, Is
<1>8. Owned'
  BY <1>7 DEF IInv, Owned
<1>9. Numbered'
  BY <1>1, <1>7 DEF IInv, Numbered
<1> QED BY <1>4, <1>8, <1>9 DEF IInv

\* The steps between the queues, but for those of the output worker's line.
LEMMA AwayInvariant ==
  ASSUME IInv, UNCHANGED <<pc, resume, sequence, localRead, toRead, number, ordering, base>>,
         filterIn' \in Waiting, outputIn' \in Waiting, filterHeld' \in Holding,
         \A b \in Batches : Away(b)' = Away(b)
  PROVE  IInv'
<1>1. Types'
  BY DEF IInv, Types
<1>2. \A b : Home(b)' = Home(b)
  BY DEF Home
<1>3. Owned'
  BY <1>2 DEF IInv, Owned
<1>4. Reading'
  BY DEF IInv, Reading
<1>5. Open' = Open /\ Top' = Top
  BY DEF Open, Top
<1>6. Numbered'
  BY <1>2, <1>5 DEF IInv, Numbered
<1> QED BY <1>1, <1>3, <1>4, <1>6 DEF IInv

\* The head of a queue, or the poison, as the threads take it.
LEMMA WaitingTail ==
  ASSUME NEW q \in Waiting, q # << >>
  PROVE  /\ Head(q) \in Requests /\ Tail(q) \in Waiting
         /\ \A b : Count(Tail(q), b) = Count(q, b) - Is(Head(q), b)
  BY HeadTailProperties, CountTail DEF Waiting

LEMMA WaitingAppend ==
  ASSUME NEW q \in Waiting, NEW r \in Requests
  PROVE  /\ Append(q, r) \in Waiting
         /\ \A b : Count(Append(q, r), b) = Count(q, b) + Is(r, b)
  BY AppendProperties, CountAppend DEF Waiting

\* A thread's request changes: so do the counts of the old and the new one.
LEMMA HoldingExcept ==
  ASSUME NEW h \in Holding, NEW g \in Holding, NEW w \in Threads,
         \A v \in Threads \ {w} : g[v] = h[v]
  PROVE  \A b : Count(g, b) = Count(h, b) + Is(g[w], b) - Is(h[w], b)
<1>1. ASSUME NEW b PROVE Count(g, b) = Count(h, b) + Is(g[w], b) - Is(h[w], b)
  <2>1. IsFiniteSet(At(h, b)) /\ Count(h, b) \in Nat
    BY CountType, ControllerAssumption DEF Holding
  <2>2. w \in At(h, b) <=> h[w] = b
    BY DEF At, Holding
  <2>3. CASE g[w] = b
    <3>1. At(g, b) = At(h, b) \cup {w}
      BY <2>3 DEF At, Holding
    <3>2. Count(g, b) = (IF w \in At(h, b) THEN Count(h, b) ELSE Count(h, b) + 1)
      BY <2>1, <3>1, FS_AddElement DEF Count
    <3> QED BY <2>1, <2>2, <2>3, <3>2 DEF Is
  <2>4. CASE g[w] # b
    <3>1. At(g, b) = At(h, b) \ {w}
      BY <2>4 DEF At, Holding
    <3>2. Count(g, b) = (IF w \in At(h, b) THEN Count(h, b) - 1 ELSE Count(h, b))
      BY <2>1, <3>1, FS_RemoveElement DEF Count
    <3> QED BY <2>1, <2>2, <2>4, <3>2 DEF Is
  <2> QED BY <2>3, <2>4
<1> QED BY <1>1

LEMMA FilterConsumeInvariant ==
  ASSUME IInv, NEW w \in Threads, FilterConsume(w) PROVE IInv'
<1> USE ControllerAssumption
<1>1. /\ filterIn # << >> /\ filterIn' = Tail(filterIn) /\ filterHeld[w] = Null
      /\ Head(filterIn) = Null => filterHeld' = filterHeld
      /\ Head(filterIn) # Null => filterHeld' = [filterHeld EXCEPT ![w] = Head(filterIn)]
      /\ UNCHANGED <<pc, resume, sequence, localRead, toRead, number, outputIn, ordering, base>>
  BY DEF FilterConsume, Filters!Consume, reader, batches, outputPool, writer
<1>2. /\ filterIn \in Waiting /\ filterHeld \in Holding
      /\ Head(filterIn) \in Requests /\ filterIn' \in Waiting
      /\ \A b : Count(filterIn', b) = Count(filterIn, b) - Is(Head(filterIn), b)
  BY <1>1, WaitingTail DEF IInv, Types
<1>3. /\ filterHeld' \in Holding
      /\ \A b \in Batches : Count(filterHeld', b) = Count(filterHeld, b) + Is(Head(filterIn), b)
  <2>1. CASE Head(filterIn) = Null
    BY <1>1, <1>2, <2>1, Counted DEF IInv, Is
  <2>2. CASE Head(filterIn) # Null
    <3>1. /\ filterHeld' \in Holding /\ filterHeld'[w] = Head(filterIn)
          /\ \A v \in Threads \ {w} : filterHeld'[v] = filterHeld[v]
      BY <1>1, <1>2, <2>2 DEF Holding
    <3>2. \A b : Count(filterHeld', b) = Count(filterHeld, b) + Is(Head(filterIn), b) - Is(Null, b)
      BY <1>1, <1>2, <3>1, HoldingExcept
    <3> QED BY <3>1, <3>2, Counted DEF IInv, Is
  <2> QED BY <2>1, <2>2
<1>4. ASSUME NEW b \in Batches PROVE Away(b)' = Away(b)
  <2>1. /\ Count(filterIn, b) \in Nat /\ Count(filterHeld, b) \in Nat
    BY Counted DEF IInv
  <2>2. /\ Count(filterIn', b) = Count(filterIn, b) - Is(Head(filterIn), b)
        /\ Count(filterHeld', b) = Count(filterHeld, b) + Is(Head(filterIn), b)
    BY <1>2, <1>3
  <2>3. Count(filterIn', b) + Count(filterHeld', b) = Count(filterIn, b) + Count(filterHeld, b)
    BY <2>1, <2>2 DEF Is
  <2> QED BY <1>1, <2>3 DEF Away
<1>5. outputIn' \in Waiting
  BY <1>1 DEF IInv, Types
<1> QED BY <1>1, <1>2, <1>3, <1>4, <1>5, AwayInvariant

LEMMA FilterDoneInvariant ==
  ASSUME IInv, NEW w \in Threads, FilterDone(w) PROVE IInv'
<1> USE ControllerAssumption
<1> DEFINE r == filterHeld[w]
<1>1. /\ r # Null /\ filterHeld' = [filterHeld EXCEPT ![w] = Null]
      /\ outputIn' = Append(outputIn, r)
      /\ UNCHANGED <<pc, resume, sequence, localRead, toRead, number, filterIn, ordering, base>>
  BY DEF FilterDone, Filters!Handled, Outputs!Produce, reader, batches, writer
<1>2. /\ filterIn' \in Waiting /\ outputIn \in Waiting /\ filterHeld \in Holding
  BY <1>1 DEF IInv, Types
<1>3. r \in Batches /\ r \in Requests /\ Null \in Requests
  BY <1>1, <1>2 DEF Holding, Requests
<1>4. /\ outputIn' \in Waiting
      /\ \A b : Count(outputIn', b) = Count(outputIn, b) + Is(r, b)
  BY <1>1, <1>2, <1>3, WaitingAppend
<1>5. /\ filterHeld' \in Holding
      /\ \A b : Count(filterHeld', b) = Count(filterHeld, b) + Is(Null, b) - Is(r, b)
  <2>1. /\ filterHeld' \in Holding /\ filterHeld'[w] = Null
        /\ \A v \in Threads \ {w} : filterHeld'[v] = filterHeld[v]
    BY <1>1, <1>2, <1>3 DEF Holding
  <2> QED BY <1>2, <2>1, HoldingExcept
<1>6. ASSUME NEW b \in Batches PROVE Away(b)' = Away(b)
  <2>1. /\ Count(filterHeld, b) \in Nat /\ Count(outputIn, b) \in Nat
        /\ Count(filterIn, b) \in Nat /\ Count(ordering, b) \in Nat
    BY Counted DEF IInv
  <2>2. Is(Null, b) = 0
    BY DEF Is
  <2>3. /\ Count(filterHeld', b) = Count(filterHeld, b) + 0 - Is(r, b)
        /\ Count(outputIn', b) = Count(outputIn, b) + Is(r, b)
    BY <1>4, <1>5, <2>2
  <2> HIDE DEF r
  <2>4. Is(r, b) \in Int
    BY DEF Is
  <2> QED BY <1>1, <2>1, <2>3, <2>4 DEF Away
<1> QED BY <1>1, <1>2, <1>4, <1>5, <1>6, AwayInvariant

LEMMA PoisonInvariant == ASSUME IInv, PoisonFilters \/ PoisonOutput PROVE IInv'
<1> USE ControllerAssumption
<1>1. /\ \/ filterIn' = Append(filterIn, Null) /\ outputIn' = outputIn
         \/ filterIn' = filterIn /\ outputIn' = Append(outputIn, Null)
      /\ UNCHANGED <<pc, resume, sequence, localRead, toRead, number, filterHeld, ordering, base>>
  BY DEF PoisonFilters, PoisonOutput, Filters!ProducePoison, Outputs!ProducePoison,
         reader, batches, filterPool, outputPool, writer
<1>2. filterIn \in Waiting /\ outputIn \in Waiting /\ filterHeld' \in Holding
  BY <1>1 DEF IInv, Types
<1>3. /\ filterIn' \in Waiting /\ outputIn' \in Waiting
      /\ \A b \in Batches : Count(filterIn', b) = Count(filterIn, b)
                            /\ Count(outputIn', b) = Count(outputIn, b)
  <2>1. /\ Append(filterIn, Null) \in Waiting /\ Append(outputIn, Null) \in Waiting
        /\ \A b : /\ Count(Append(filterIn, Null), b) = Count(filterIn, b) + Is(Null, b)
                  /\ Count(Append(outputIn, Null), b) = Count(outputIn, b) + Is(Null, b)
    BY <1>2, WaitingAppend DEF Requests
  <2>2. ASSUME NEW b \in Batches
        PROVE  /\ Count(Append(filterIn, Null), b) = Count(filterIn, b)
               /\ Count(Append(outputIn, Null), b) = Count(outputIn, b)
    <3>1. Count(filterIn, b) \in Nat /\ Count(outputIn, b) \in Nat /\ Is(Null, b) = 0
      BY Counted DEF IInv, Is
    <3> QED BY <2>1, <3>1
  <2> QED BY <1>1, <1>2, <2>1, <2>2
<1>4. \A b \in Batches : Away(b)' = Away(b)
  BY <1>1, <1>3 DEF Away
<1> QED BY <1>1, <1>2, <1>3, <1>4, AwayInvariant

\* A batch is put in line: the place of its number is free, since the batch that
\* has the place would have the same number.
LEMMA OutputConsumeInvariant == ASSUME IInv, OutputConsume PROVE IInv'
<1> USE ControllerAssumption
<1> DEFINE r == Head(outputIn)
<1>1. /\ outputIn # << >> /\ outputIn' = Tail(outputIn)
      /\ r = Null => ordering' = ordering
      /\ r # Null => ordering' = Placed(number[r] - base + 1, r)
      /\ UNCHANGED <<pc, resume, sequence, localRead, toRead, number, filterIn, filterHeld, base>>
  BY DEF OutputConsume, Outputs!Consume, reader, batches, filterPool
<1>2. /\ outputIn \in Waiting /\ r \in Requests /\ outputIn' \in Waiting
      /\ \A b : Count(outputIn', b) = Count(outputIn, b) - Is(r, b)
  BY <1>1, WaitingTail DEF IInv, Types
<1>3. CASE r = Null
  <2>1. /\ UNCHANGED <<pc, resume, sequence, localRead, toRead, number, ordering, base>>
        /\ filterIn' \in Waiting /\ outputIn' \in Waiting /\ filterHeld' \in Holding
    BY <1>1, <1>2, <1>3 DEF IInv, Types
  <2>2. ASSUME NEW b \in Batches PROVE Away(b)' = Away(b)
    <3>1. Count(outputIn, b) \in Nat /\ Is(r, b) = 0
      BY <1>3, Counted DEF IInv, Is
    <3> QED BY <1>1, <1>2, <1>3, <3>1 DEF Away
  <2> QED BY <2>1, <2>2, AwayInvariant
<1>4. CASE r # Null
  <2> DEFINE pos == number[r] - base + 1
  <2>1. r \in Batches /\ r = outputIn[1] /\ 1 \in 1 .. Len(outputIn)
    BY <1>1, <1>2, <1>4 DEF Requests, Waiting
  <2>2. Home(r) = 0 /\ Count(ordering, r) = 0
    BY <2>1, Whereabouts
  <2>3. pos \in Nat \ {0} /\ number[r] = base + pos - 1
    BY <2>1, <2>2 DEF IInv, Types, Numbered
  <2> HIDE DEF r, pos
  <2>4. ordering \in Waiting /\ Len(ordering) \in Nat
    BY DEF IInv, Types, Waiting
  <2>5. pos <= Len(ordering) => ordering[pos] = Null
    <3>1. SUFFICES ASSUME pos <= Len(ordering), ordering[pos] # Null PROVE FALSE
      OBVIOUS
    <3>2. pos \in 1 .. Len(ordering)
      BY <2>3, <2>4, <3>1
    <3>3. ordering[pos] \in Batches
      BY <2>4, <3>1, <3>2 DEF Waiting, Requests
    <3>4. Home(ordering[pos]) = 0 /\ number[ordering[pos]] = number[r]
      BY <2>3, <3>1, <3>2, <3>3, Whereabouts DEF IInv, Numbered
    <3>5. ordering[pos] = r
      BY <2>1, <2>2, <3>3, <3>4 DEF IInv, Numbered
    <3>6. Count(ordering, r) >= 1
      BY <3>2, <3>5, Counted DEF IInv
    <3> QED BY <2>2, <3>6
  <2>6. ordering' = Placed(pos, r)
    BY <1>1, <1>4 DEF r, pos
  <2>7. /\ ordering' \in Waiting
        /\ \A b \in Batches : Count(ordering', b) = Count(ordering, b) + Is(r, b)
    BY <2>1, <2>3, <2>4, <2>5, <2>6, CountPlaced DEF Waiting, Requests
  <2>8. Types'
    BY <1>1, <1>2, <2>7 DEF IInv, Types
  <2>9. \A b : Home(b)' = Home(b)
    BY <1>1 DEF Home
  <2>10. ASSUME NEW b \in Batches PROVE Away(b)' = Away(b)
    <3>1. /\ Count(outputIn, b) \in Nat /\ Count(ordering, b) \in Nat
          /\ Count(filterIn, b) \in Nat /\ Count(filterHeld, b) \in Nat
          /\ Is(r, b) \in Int
      BY Counted DEF IInv, Is
    <3>2. /\ Count(outputIn', b) = Count(outputIn, b) - Is(r, b)
          /\ Count(ordering', b) = Count(ordering, b) + Is(r, b)
      BY <1>2, <2>7 DEF r
    <3> QED BY <1>1, <3>1, <3>2 DEF Away
  <2>11. Owned' /\ Reading'
    BY <1>1, <2>9, <2>10 DEF IInv, Owned, Reading
  <2>12. ASSUME NEW i \in 1 .. Len(ordering'), ordering'[i] # Null
         PROVE  number[ordering'[i]] = base + i - 1
    <3>1. ordering'[i] = (IF i = pos THEN r
                          ELSE IF i <= Len(ordering) THEN ordering[i] ELSE Null)
      BY <2>3, <2>4, <2>6 DEF Placed
    <3>2. CASE i = pos
      BY <2>3, <3>1, <3>2
    <3>3. CASE i # pos
      <4>1. i \in 1 .. Len(ordering) /\ ordering'[i] = ordering[i]
        BY <2>4, <2>12, <3>1, <3>3
      <4> QED BY <2>12, <4>1 DEF IInv, Numbered
    <3> QED BY <3>2, <3>3
  <2>13. Open' = Open /\ Top' = Top
    BY <1>1 DEF Open, Top
  <2>14. Numbered'
    BY <1>1, <2>9, <2>12, <2>13 DEF IInv, Numbered
  <2> QED BY <2>8, <2>11, <2>14 DEF IInv
<1> QED BY <1>3, <1>4

\* The front batch is written and goes home: the next number is due.
LEMMA FlushFrontInvariant == ASSUME IInv, FlushFront PROVE IInv'
<1> USE ControllerAssumption
<1> DEFINE f == Head(ordering)
<1>1. /\ ordering # << >> /\ f # Null
      /\ ordering' = Tail(ordering) /\ toRead' = Append(toRead, f) /\ base' = base + 1
      /\ UNCHANGED <<pc, resume, sequence, localRead, number, filterIn, filterHeld, outputIn>>
  BY DEF FlushFront, FrontReady, reader, filterPool, outputPool
<1>2. /\ ordering \in Waiting /\ f \in Requests /\ ordering' \in Waiting
      /\ \A b : Count(ordering', b) = Count(ordering, b) - Is(f, b)
  BY <1>1, WaitingTail DEF IInv, Types
<1>3. f \in Batches /\ f = ordering[1] /\ 1 \in 1 .. Len(ordering)
  BY <1>1, <1>2 DEF Requests, Waiting
<1>4. Home(f) = 0 /\ number[f] = base
  BY <1>1, <1>3, Whereabouts DEF IInv, Types, Numbered
<1> HIDE DEF f
<1>5. /\ toRead' \in Seq(Batches)
      /\ \A b : Count(toRead', b) = Count(toRead, b) + Is(f, b)
  BY <1>1, <1>3, AppendProperties, CountAppend DEF IInv, Types
<1>6. Types'
  BY <1>1, <1>2, <1>5 DEF IInv, Types
<1>7. ASSUME NEW b \in Batches
      PROVE  Home(b)' = Home(b) + Is(f, b) /\ Away(b)' = Away(b) - Is(f, b)
  <2>1. /\ Count(outputIn, b) \in Nat /\ Count(ordering, b) \in Nat
        /\ Count(filterIn, b) \in Nat /\ Count(filterHeld, b) \in Nat
        /\ Count(localRead, b) \in Nat /\ Count(toRead, b) \in Nat
        /\ Is(f, b) \in Int
    BY Counted DEF IInv, Is
  <2> QED BY <1>1, <1>2, <1>5, <2>1, SMTT(30) DEF Home, Away
<1>8. Owned' /\ Reading'
  BY <1>1, <1>7, Whereabouts DEF IInv, Owned, Reading, Is
<1>9. \A b \in Batches : Home(b)' = 0 => Home(b) = 0 /\ b # f
  BY <1>4, <1>7, Whereabouts DEF Is
<1>10. Open' = Open /\ Top' = Top
  BY <1>1 DEF Open, Top
<1>11. base < sequence /\ (Open => base < sequence - 1)
  BY <1>3, <1>4 DEF IInv, Types, Numbered
<1>12. Numbered'
  <2>1. base' <= sequence /\ (Open => base' < sequence /\ number[Top] = sequence - 1)
    BY <1>1, <1>11 DEF IInv, Types, Numbered
  <2>2. ASSUME NEW b \in Batches, Home(b)' = 0
        PROVE  base' <= number[b] /\ number[b] < (IF Open THEN sequence - 1 ELSE sequence)
    <3>1. Home(b) = 0 /\ number[b] # base
      BY <1>3, <1>4, <1>9, <2>2 DEF IInv, Numbered
    <3> QED BY <1>1, <3>1 DEF IInv, Types, Numbered
  <2>3. ASSUME NEW i \in 1 .. Len(ordering'), ordering'[i] # Null
        PROVE  number[ordering'[i]] = base' + i - 1
    <3>1. ordering'[i] = ordering[i + 1] /\ i + 1 \in 1 .. Len(ordering)
      BY <1>1, <1>2, HeadTailProperties DEF Waiting
    <3> QED BY <1>1, <2>3, <3>1 DEF IInv, Types, Numbered
  <2> QED BY <1>1, <1>9, <1>10, <2>1, <2>2, <2>3 DEF IInv, Numbered
<1> QED BY <1>6, <1>8, <1>12 DEF IInv

LEMMA ReaderInvariant == ASSUME IInv, Reader PROVE IInv'
<1> USE ControllerAssumption DEF batches, filterPool, outputPool, writer
<1> DEFINE Still == UNCHANGED <<sequence, localRead, toRead, number, filterIn, filterHeld,
                                outputIn, ordering, base>>
<1>1. CASE ReadLine
  <2>1. Still /\ Reading' /\ (Open' => Open)
    BY <1>1 DEF ReadLine, IInv, Reading, Open
  <2> QED BY <2>1, StayInvariant
<1>2. CASE EndOrder
  <2>1. Still /\ Reading' /\ (Open' => Open)
    BY <1>2 DEF EndOrder, IInv, Reading, Open
  <2> QED BY <2>1, StayInvariant
<1>3. CASE SkipFlush
  <2>1. Still /\ Reading' /\ (Open' => Open)
    BY <1>3 DEF SkipFlush, IInv, Reading, Open
  <2> QED BY <2>1, StayInvariant
<1>4. CASE FlushInput
  BY <1>4, FlushInputInvariant
<1>5. CASE AwaitBatch \/ Collect
  <2>1. MoveRead /\ ~Open /\ ~Open' /\ localRead' = <<Head(toRead)>> \o localRead
    BY <1>5 DEF AwaitBatch, Collect, MoveRead, IInv, Reading, Open
  <2>2. toRead # << >> /\ Head(toRead) \in Batches
    BY <2>1, HeadTailProperties DEF MoveRead, IInv, Types
  <2>3. localRead' # << >>
    BY <2>1, <2>2, ConcatProperties DEF IInv, Types
  <2>4. Reading'
    BY <1>5, <2>3 DEF AwaitBatch, Collect, MoveRead, IInv, Reading
  <2> QED BY <2>1, <2>4, MoveReadInvariant
<1>6. CASE NewInput
  <2>1. /\ UNCHANGED <<localRead, toRead, filterIn, filterHeld, outputIn, ordering, base>>
        /\ ~Open /\ localRead # << >> /\ OpenTop /\ Reading'
    BY <1>6 DEF NewInput, IInv, Reading, Open
  <2> QED BY <2>1, OpenTopInvariant
<1>7. CASE EndLength
  <2>1. Len(localRead) >= 2
    BY <1>7, FS_CardinalityType, FS_EmptySet DEF EndLength, QueueSize
  <2>2. localRead # << >>
    BY <2>1 DEF IInv, Types
  <2>3. /\ UNCHANGED <<localRead, toRead, filterIn, filterHeld, outputIn, ordering, base>>
        /\ ~Open /\ OpenTop /\ Reading'
    BY <1>7, <2>2 DEF EndLength, IInv, Reading, Open
  <2> QED BY <2>2, <2>3, OpenTopInvariant
<1>8. CASE PoisonFilters \/ PoisonOutput
  BY <1>8, PoisonInvariant
<1>9. CASE JoinFilters \/ JoinOutput
  <2>1. Still /\ Reading' /\ (Open' => Open)
    BY <1>9 DEF JoinFilters, JoinOutput, IInv, Reading, Open
  <2> QED BY <2>1, StayInvariant
<1> QED BY <1>1, <1>2, <1>3, <1>4, <1>5, <1>6, <1>7, <1>8, <1>9 DEF Reader

LEMMA StepInvariant == IInv /\ [Next]_vars => IInv'
<1> SUFFICES ASSUME IInv, [Next]_vars PROVE IInv'
  OBVIOUS
<1>1. CASE Reader
  BY <1>1, ReaderInvariant
<1>2. CASE \E w \in Threads : FilterConsume(w) \/ FilterDone(w)
  BY <1>2, FilterConsumeInvariant, FilterDoneInvariant
<1>6. CASE \E w \in Threads : FilterNext(w)
  <2>1. /\ UNCHANGED <<sequence, localRead, toRead, number, filterIn, filterHeld, outputIn,
                       ordering, base>>
        /\ Reading' /\ (Open' => Open)
    BY <1>6 DEF FilterNext, reader, outputPool, writer, IInv, Reading, Open
  <2> QED BY <2>1, StayInvariant
<1>3. CASE OutputConsume
  BY <1>3, OutputConsumeInvariant
<1>4. CASE FlushFront
  BY <1>4, FlushFrontInvariant
<1>5. CASE OutputDone \/ UNCHANGED vars
  <2>1. /\ UNCHANGED <<sequence, localRead, toRead, number, filterIn, filterHeld, outputIn,
                       ordering, base>>
        /\ Reading' /\ (Open' => Open)
    BY <1>5 DEF OutputDone, Outputs!Handled, vars, reader, batches, filterPool, outputPool,
               writer, IInv, Reading, Open
  <2> QED BY <2>1, StayInvariant
<1> QED BY <1>1, <1>2, <1>3, <1>4, <1>5, <1>6 DEF Next, Finished

\* Every state of lm/filter/thread.hh has each batch in one place and different sequence
\* numbers on those that are on their way.
THEOREM FilterInvariance == Spec => []IInv
<1> QED BY InitInvariant, StepInvariant, PTL DEF Spec

\* However many threads and batches there are, and however they interleave, a
\* batch is with the reader, in one queue, with one filter thread or in the
\* output worker's line, never in two of these places and never lost: what the
\* threads of lm/filter/thread.hh do to its buffers without a lock is theirs.
THEOREM BatchesHaveOneOwner == Spec => []OneOwner
<1>1. IInv => OneOwner
  BY OwnedIsOneOwner DEF IInv
<1> QED BY <1>1, FilterInvariance, PTL

---------------------------------------------------------------------------
\* What the batches hold, and what has been written.

LineAt(b, i) == input[b].text[i]
Size(b) == input[b].actual

\* The lines the reader has given away, and those that come before a batch.
Given == IF Open THEN line - Size(Top) ELSE line
Start(b) == IF Home(b) = 0 THEN LineAt(b, 1) - 1 ELSE Given

\* Where the reader is: past the input, in Flush, or about to open a batch.
Closing == pc \in {"poisonFilters", "poisonOutput", "done"}
Collecting == pc = "collect" \/ (pc \in {"flush", "move"} /\ resume = "collect")
Opening == pc = "new" \/ (pc = "move" /\ resume = "new")

Lengths == {0} \cup {Length(l) : l \in Nat}
Pieces == (0 .. BatchSize) \X Lengths \X Lengths
Verdicts == {{}} \cup {Verdict(l) : l \in Nat}
Records == [systems : Verdicts, line : Pieces]
InputBuffers == [text : [1 .. BatchSize -> Nat], capacity : [1 .. BatchSize -> Lengths],
                 actual : 0 .. BatchSize]
OutputBuffers == [annotated : Seq(Records), last : Pieces, stray : BOOLEAN]

Meant(j) == VerdictsMeant(j) /\ NoneDropped(j) /\ NoneMistaken(j)

Inputs ==
  /\ job \in Jobs /\ Meant(job)
  /\ line \in Nat /\ length \in 1 .. Len(Ends) + 1
  /\ input \in [Batches -> InputBuffers] /\ buffer \in [Batches -> OutputBuffers]

\* The reader is in the order it should be in, its batch holds the lines since
\* the last it gave away, and every batch begins where one may.
Reads ==
  /\ pc \in {"read", "flush", "new", "move", "collect"} \/ Closing
  /\ length <= Len(Ends) => StartOf(job, length) <= line /\ line <= Ends[length]
  /\ length = Len(Ends) + 1 => Arpa /\ Closing
  /\ ~Arpa => length = 1
  /\ Closing => /\ line = Ends[Len(Ends)]
                /\ Arpa => length = Len(Ends) + 1 /\ \A b \in Batches : Home(b) # 0
  /\ Collecting => Arpa /\ line = Ends[length]
  /\ Opening => Cut(job, length, line)
  /\ Open => Cut(job, length, Given) /\ \A i \in 1 .. Size(Top) : LineAt(Top, i) = Given + i
  /\ pc = "read" => Size(Top) < BatchSize
  /\ pc = "flush" /\ resume = "new" => Size(Top) = BatchSize

\* k lines behind line c, of order m: no more fit.
Whole(m, c, k) ==
  /\ m \in DOMAIN Ends /\ Cut(job, m, c) /\ c + k <= Ends[m]
  /\ k = BatchSize \/ c + k = Ends[m]
Filled(b) ==
  /\ Size(b) > 0
  /\ \A i \in 1 .. Size(b) : LineAt(b, i) = LineAt(b, 1) + i - 1
  /\ \E m \in 1 .. length : Whole(m, LineAt(b, 1) - 1, Size(b))

\* The batches on their way have lines that were given away, in their order.
Contained ==
  /\ \A b \in Batches : Home(b) = 0 => Filled(b) /\ LineAt(b, Size(b)) <= Given
  /\ \A b, c \in Batches : Home(b) = 0 /\ Home(c) = 0 /\ number[b] < number[c] =>
       LineAt(b, Size(b)) < LineAt(c, 1)

\* The file has got as far as line n: what comes behind it is on its way.
Holds(b, l) == Home(b) = 0 /\ \E i \in 1 .. Size(b) : LineAt(b, i) = l
Spread(n) ==
  /\ StartOf(job, length) <= n /\ n <= Given
  /\ \A b \in Batches : Home(b) = 0 => n < LineAt(b, 1)
  /\ \A l \in n + 1 .. Given : \E b \in Batches : Holds(b, l)

LinesTo(n) == {Item("ngram", l, Verdict(l)) : l \in {k \in 1 .. n : Verdict(k) # {}}}
EndsTo(n) == {Item("end", k, All) : k \in {m \in 1 .. n : Arpa}}
Filed(n) ==
  /\ file \in Seq(LinesTo(n) \cup EndsTo(length - 1))
  /\ \A x \in LinesTo(n) \cup EndsTo(length - 1) : \E k \in 1 .. Len(file) : file[k] = x
  /\ \A j, k \in 1 .. Len(file) : j < k => Before(file[j], file[k])

Written(n) == n \in Nat /\ Spread(n) /\ Filed(n)

\* A file without sections: no number was skipped.
Due == IF Open \/ Closing THEN sequence - 1 ELSE sequence
Gapless ==
  ~Arpa =>
    /\ \A s \in base .. Due - 1 : \E b \in Batches : Home(b) = 0 /\ number[b] = s
    /\ \A b \in Batches : Home(b) = 0 => number[b] < Due

\* The poison comes when the reader is past the input, behind every batch.
Poisoned(q) == \A i, j \in 1 .. Len(q) : i < j /\ q[i] = Null => q[j] = Null
Drained(q) == \A i \in 1 .. Len(q) : q[i] = Null
Joining == pc \in {"poisonOutput", "done"}
FilterPool ==
  /\ filterLive \subseteq Threads /\ Poisoned(filterIn)
  /\ \A i \in 1 .. Len(filterIn) : filterIn[i] = Null => Closing
  /\ filterLive # Threads => Closing /\ Drained(filterIn)
  /\ \A w \in Threads : filterHeld[w] # Null => w \in filterLive
  /\ Joining => filterLive = {}
OutputPool ==
  /\ outputLive \subseteq {Writer} /\ Poisoned(outputIn)
  /\ \A i \in 1 .. Len(outputIn) : outputIn[i] = Null => Joining
  /\ outputLive # {Writer} => Joining /\ Drained(outputIn)
  /\ outputHeld \in [{Writer} -> Requests]
  /\ outputHeld[Writer] # Null => Writer \in outputLive
  /\ pc = "done" => outputLive = {}
  /\ outputHeld[Writer] = Null => ~FrontReady

\* The records of a batch of which k lines are filtered.
Annotated(b, k) ==
  LET a == buffer[b].annotated
  IN  /\ \A x, y \in 1 .. Len(a) : x < y => a[x].line[1] < a[y].line[1]
      /\ \A x \in 1 .. Len(a) :
           LET l == LineAt(b, a[x].line[1])
           IN  /\ a[x].line[1] \in 1 .. k /\ Verdict(l) # {}
               /\ a[x].systems = IF Verdict(l) = All THEN {} ELSE Verdict(l)
      /\ \A i \in 1 .. k : Verdict(LineAt(b, i)) # {} => \E x \in 1 .. Len(a) : a[x].line[1] = i

\* last_ points at the last line of the batch that was for single systems, whose text is
\* in place, or it is left from an earlier batch, where it was the last such line.
Solo(l) == Single(job, l)
Room(b, i) == input[b].capacity[i]
NoneFrom(b, i, k) == \A x \in i .. k : ~Solo(LineAt(b, x))
Latest(b, i, k) ==
  /\ i \in 1 .. k /\ Solo(LineAt(b, i)) /\ NoneFrom(b, i + 1, k)
  /\ buffer[b].last[2] = Room(b, i) /\ buffer[b].last[3] = Length(LineAt(b, i))
Old(l, i, start) ==
  /\ l <= start
  /\ \E m \in DOMAIN Ends : /\ Cut(job, m, l - i) /\ l \in BatchOf(job, m, l - i) /\ Solo(l)
                            /\ \A x \in BatchOf(job, m, l - i) : x > l => ~Solo(x)
Left(b, i, k) ==
  /\ i \in 1 .. BatchSize /\ NoneFrom(b, 1, k)
  /\ \E l \in Nat : buffer[b].last[3] = Length(l) /\ Old(l, i, Start(b))
Remembers(b, k) ==
  buffer[b].last = NoPiece \/ Latest(b, buffer[b].last[1], k) \/ Left(b, buffer[b].last[1], k)

Known(b, k) == ~buffer[b].stray /\ Annotated(b, k) /\ Remembers(b, k)

\* How many of its lines are filtered.
Filtered(b, k) ==
  \/ k = 0 /\ (Home(b) # 0 \/ Count(filterIn, b) # 0)
  \/ \E w \in Threads : filterHeld[w] = b /\ k = filtered[w]
  \/ k = Size(b) /\ (Count(outputIn, b) # 0 \/ Count(ordering, b) # 0)
Buffers ==
  /\ filtered \in [Threads -> Nat]
  /\ \A b \in Batches, k \in Nat : Filtered(b, k) => k <= Size(b) /\ Known(b, k)

OInv ==
  /\ Inputs /\ Reads /\ Contained /\ Gapless /\ FilterPool /\ OutputPool /\ Buffers
  /\ \E n : Written(n)

---------------------------------------------------------------------------
\* Arithmetic, sequences, and where a batch ends.

LEMMA Multiples ==
  ASSUME NEW p \in Nat, NEW q \in Nat, NEW size \in Nat \ {0}
  PROVE  /\ q * size \in Nat /\ q * size + size = (q + 1) * size
         /\ q * size <= p * size /\ p * size < q * size + size => p * size = q * size
<1>1. q * size \in Nat /\ p * size \in Nat /\ q * size + size = (q + 1) * size
  OBVIOUS
<1>2. CASE p <= q
  <2>1. p * size <= q * size
    BY <1>2
  <2> QED BY <1>1, <2>1
<1>3. CASE p >= q + 1
  <2>1. (q + 1) * size <= p * size
    BY <1>3
  <2> QED BY <1>1, <2>1
<1> QED BY <1>2, <1>3

\* The line behind a full batch is where the next one may begin.
LEMMA CutNext ==
  ASSUME NEW j \in Jobs, NEW n \in DOMAIN j.ends, NEW c, Cut(j, n, c), c + BatchSize <= j.ends[n]
  PROVE  Cut(j, n, c + BatchSize)
<1> USE ControllerAssumption
<1>1. StartOf(j, n) \in Nat /\ j.ends[n] \in Nat /\ n \in Nat
  BY DEF StartOf
<1>2. c \in Nat /\ StartOf(j, n) <= c
  BY <1>1 DEF Cut
<1>3. PICK q \in 0 .. c : c = StartOf(j, n) + q * BatchSize
  BY DEF Cut
<1>4. q * BatchSize \in Nat /\ q * BatchSize + BatchSize = (q + 1) * BatchSize
  BY <1>2, <1>3, Multiples
<1>5. c + BatchSize = StartOf(j, n) + (q + 1) * BatchSize
  BY <1>1, <1>2, <1>3, <1>4
<1>6. q + 1 \in 0 .. c + BatchSize
  <2>1. q \in Nat /\ q <= c /\ BatchSize \in Nat \ {0}
    BY <1>2, <1>3
  <2> QED BY <1>2, <2>1
<1>7. c + BatchSize \in StartOf(j, n) .. j.ends[n]
  BY <1>1, <1>2
<1> QED BY <1>5, <1>6, <1>7 DEF Cut

\* Where one order ends the next one begins.
LEMMA CutStart ==
  ASSUME NEW j \in Jobs, NEW n \in DOMAIN j.ends
  PROVE  /\ StartOf(j, n) \in Nat /\ j.ends[n] \in Nat /\ StartOf(j, n) <= j.ends[n]
         /\ Cut(j, n, StartOf(j, n))
         /\ \A m \in DOMAIN j.ends : m < n => j.ends[m] <= StartOf(j, n)
         /\ j.ends[n] <= j.ends[Len(j.ends)] /\ Len(j.ends) \in DOMAIN j.ends
<1> USE ControllerAssumption
<1>1. /\ j.ends \in Seq(Nat) /\ DOMAIN j.ends = 1 .. Len(j.ends) /\ Len(j.ends) \in Nat
      /\ \A m, k \in DOMAIN j.ends : m <= k => j.ends[m] <= j.ends[k]
      /\ \A m \in DOMAIN j.ends : j.ends[m] \in Nat
  OBVIOUS
<1>2. StartOf(j, n) \in Nat /\ StartOf(j, n) <= j.ends[n]
  <2>1. CASE n = 1
    <3>1. StartOf(j, n) = 0 /\ j.ends[n] \in Nat
      BY <2>1, <1>1 DEF StartOf
    <3> QED BY <3>1
  <2>2. CASE n # 1
    <3>1. n - 1 \in DOMAIN j.ends /\ n - 1 <= n
      BY <2>2, <1>1
    <3>2. StartOf(j, n) = j.ends[n - 1]
      BY <2>2 DEF StartOf
    <3> QED BY <3>1, <3>2, <1>1
  <2> QED BY <2>1, <2>2
<1>3. Cut(j, n, StartOf(j, n))
  <2>1. 0 * BatchSize = 0
    OBVIOUS
  <2> QED BY <1>1, <1>2, <2>1 DEF Cut
<1>4. ASSUME NEW m \in DOMAIN j.ends, m < n PROVE j.ends[m] <= StartOf(j, n)
  <2>1. n - 1 \in DOMAIN j.ends /\ m <= n - 1 /\ n # 1
    BY <1>1, <1>4, SMTT(30)
  <2> QED BY <1>1, <2>1 DEF StartOf
<1> QED BY <1>1, <1>2, <1>3, <1>4

LEMMA SeqInto ==
  ASSUME NEW S, NEW T, NEW s \in Seq(S), \A i \in 1 .. Len(s) : s[i] \in T
  PROVE  s \in Seq(T)
<1>1. s \in [1 .. Len(s) -> T] /\ Len(s) \in Nat
  OBVIOUS
<1> QED BY <1>1

---------------------------------------------------------------------------
\* What a step does to the batches.

\* The types in a form for the provers.
LEMMA Typed ==
  ASSUME IInv, Inputs
  PROVE  /\ Ends \in Seq(Nat) /\ Len(Ends) \in Nat \ {0} /\ DOMAIN Ends = 1 .. Len(Ends)
         /\ \A m \in 1 .. Len(Ends) : Ends[m] \in Nat
         /\ job.ends = Ends
         /\ \A b \in Batches : /\ Size(b) \in 0 .. BatchSize
                               /\ \A i \in 1 .. BatchSize : LineAt(b, i) \in Nat
                               /\ \A i \in 1 .. Size(b) : LineAt(b, i) \in Nat
         /\ BatchSize \in Nat \ {0}
         /\ line \in Nat /\ length \in 1 .. Len(Ends) + 1
         /\ Given \in Int
         /\ Open => Top \in Batches /\ Home(Top) = 1 /\ localRead # << >>
         /\ \A b \in Batches : Home(b) \in Nat
<1> USE ControllerAssumption
<1>1. /\ Ends \in Seq(Nat) /\ Len(Ends) \in Nat \ {0} /\ DOMAIN Ends = 1 .. Len(Ends)
      /\ \A m \in 1 .. Len(Ends) : Ends[m] \in Nat
      /\ job.ends = Ends
  BY DEF Inputs, Ends
<1>2. Open => Top \in Batches /\ Home(Top) = 1 /\ localRead # << >>
  BY Whereabouts DEF IInv, Reading, Open
<1>3. \A b \in Batches : /\ Size(b) \in 0 .. BatchSize
                         /\ \A i \in 1 .. BatchSize : LineAt(b, i) \in Nat
                         /\ \A i \in 1 .. Size(b) : LineAt(b, i) \in Nat
  BY DEF Inputs, InputBuffers, Size, LineAt
<1>4. line \in Nat /\ length \in 1 .. Len(Ends) + 1
  BY <1>1 DEF Inputs
<1>5. Given \in Int
  BY <1>2, <1>3, <1>4 DEF Given
<1>6. \A b \in Batches : Home(b) \in Nat
  BY Whereabouts
<1> QED BY <1>1, <1>2, <1>3, <1>4, <1>5, <1>6

LEMMA FlushInputHome ==
  ASSUME IInv, FlushInput
  PROVE  /\ Open /\ ~Open' /\ Top \in Batches /\ Home(Top) = 1
         /\ \A b \in Batches : Home(b)' = (IF b = Top THEN 0 ELSE Home(b))
<1>1. /\ Open /\ ~Open' /\ localRead # << >>
  BY DEF IInv, Reading, FlushInput, Open
<1>2. Top \in Batches /\ Home(Top) = 1
  BY <1>1, Whereabouts
<1>3. localRead' = Tail(localRead) /\ toRead' = toRead
  BY DEF FlushInput
<1>4. \A b : Count(localRead', b) = Count(localRead, b) - Is(Top, b)
  BY <1>1, <1>3, CountTail DEF IInv, Types, Top
<1>5. ASSUME NEW b \in Batches PROVE Home(b)' = (IF b = Top THEN 0 ELSE Home(b))
  <2>1. Home(b)' = Home(b) - Is(Top, b)
    BY <1>3, <1>4, Counted DEF IInv, Home, Is
  <2> QED BY <1>2, <2>1, Whereabouts DEF Is
<1> QED BY <1>1, <1>2, <1>5

LEMMA MoveReadHome ==
  ASSUME IInv, MoveRead
  PROVE  \A b \in Batches : Home(b)' = Home(b)
<1> DEFINE top == Head(toRead)
<1>1. /\ toRead # << >> /\ localRead' = <<top>> \o localRead /\ toRead' = Tail(toRead)
  BY DEF MoveRead
<1>2. top \in Batches
  BY <1>1, HeadTailProperties DEF IInv, Types
<1>3. \A b : Count(localRead', b) = Count(localRead, b) + Is(top, b)
  BY <1>1, <1>2, CountPush DEF IInv, Types
<1>4. \A b : Count(toRead', b) = Count(toRead, b) - Is(top, b)
  BY <1>1, CountTail DEF IInv, Types
<1> QED BY <1>3, <1>4, Counted DEF IInv, Home, Is

LEMMA FlushFrontHome ==
  ASSUME IInv, FlushFront, NEW f, f = Head(ordering)
  PROVE  /\ f \in Batches /\ Home(f) = 0 /\ number[f] = base
         /\ \A b \in Batches : Home(b)' = (IF b = f THEN 1 ELSE Home(b))
<1>1. /\ ordering # << >> /\ f # Null /\ toRead' = Append(toRead, f) /\ localRead' = localRead
  BY DEF FlushFront, FrontReady, reader
<1>2. f \in Batches /\ f = ordering[1] /\ 1 \in 1 .. Len(ordering)
  BY <1>1 DEF IInv, Types, Waiting, Requests
<1>3. Home(f) = 0 /\ number[f] = base
  BY <1>1, <1>2, Whereabouts DEF IInv, Types, Numbered
<1>4. \A b : Count(toRead', b) = Count(toRead, b) + Is(f, b)
  BY <1>1, <1>2, CountAppend DEF IInv, Types
<1>5. ASSUME NEW b \in Batches PROVE Home(b)' = (IF b = f THEN 1 ELSE Home(b))
  <2>1. Home(b)' = Home(b) + Is(f, b)
    BY <1>1, <1>4, Counted DEF IInv, Home, Is
  <2> QED BY <1>3, <2>1, Whereabouts DEF Is
<1> QED BY <1>2, <1>3, <1>5

\* The steps that take no line, give none away and write none.
Quiet ==
  /\ UNCHANGED <<job, length, line, sequence, number, input, base, file>>
  /\ \A b \in Batches : Home(b)' = Home(b)
  /\ Given' = Given
  /\ ~Arpa => Due' = Due

LEMMA StillIsQuiet ==
  ASSUME UNCHANGED <<job, pc, length, line, sequence, number, input, base, file, localRead, toRead>>
  PROVE  Quiet
<1>1. \A b : Home(b)' = Home(b)
  BY DEF Home
<1>2. Given' = Given
  BY DEF Given, Open, Size, Top
<1>3. Due' = Due
  BY DEF Due, Open, Closing
<1> QED BY <1>1, <1>2, <1>3 DEF Quiet

\* A file without sections ends where a batch does, so the last batch is empty.
LEMMA RawEnds ==
  ASSUME IInv, Inputs, Reads, pc = "read", ~Arpa, line = Ends[length]
  PROVE  Size(Top) = 0 /\ length = 1 /\ Len(Ends) = 1
<1> DEFINE B == BatchSize
<1>1. length = 1 /\ Len(Ends) = 1 /\ Cut(job, 1, Ends[1])
  BY DEF Reads, Inputs, Meant, NoneDropped, Ends, Arpa
<1>2. Cut(job, 1, Given) /\ Size(Top) < B /\ Given = line - Size(Top)
  BY <1>1 DEF Reads, Open, Given
<1>3. StartOf(job, 1) = 0
  BY DEF StartOf
<1>4. /\ B \in Nat \ {0} /\ line \in Nat /\ Size(Top) \in 0 .. B /\ Ends[1] \in Nat
  BY <1>1, Typed DEF Open
<1>5. PICK q \in 0 .. Given : Given = 0 + q * B
  BY <1>2, <1>3 DEF Cut
<1>6. PICK p \in 0 .. Ends[1] : Ends[1] = 0 + p * B
  BY <1>1, <1>3 DEF Cut
<1>7. Given \in Int
  BY Typed
<1>8. p \in Nat /\ q \in Nat
  BY <1>4, <1>5, <1>6, <1>7
<1>9. q * B \in Nat /\ p * B \in Nat /\ (q * B <= p * B /\ p * B < q * B + B => p * B = q * B)
  BY <1>4, <1>8, Multiples
<1> HIDE DEF B
<1>10. line = p * B /\ Given = q * B
  BY <1>1, <1>5, <1>6, <1>9
<1>11. Size(Top) = 0
  BY <1>2, <1>4, <1>9, <1>10
<1> QED BY <1>1, <1>11

LEMMA QuietSteps ==
  ASSUME IInv, Inputs, Reads, [Next]_vars
  PROVE  Quiet \/ ReadLine \/ FlushInput \/ NewInput \/ EndLength \/ FlushFront
<1> USE DEF batches, filterPool, outputPool, writer, reader
<1>1. CASE EndOrder
  <2>1. /\ pc = "read" /\ line = Ends[length] /\ Open
        /\ UNCHANGED <<job, length, line, sequence, number, input, base, file, localRead, toRead>>
        /\ IF Arpa THEN pc' = "flush" ELSE pc' = "poisonFilters"
    BY <1>1 DEF EndOrder, Open
  <2>2. \A b : Home(b)' = Home(b)
    BY <2>1 DEF Home
  <2>3. Top' = Top /\ (Top' = Top => Size(Top)' = Size(Top)) /\ line \in Int
    BY <2>1, Typed DEF Top, Size
  <2>4. CASE Arpa
    <3>1. Open'
      BY <2>1, <2>4 DEF Open
    <3> QED BY <2>1, <2>2, <2>3, <2>4, <3>1 DEF Quiet, Given
  <2>5. CASE ~Arpa
    <3>1. ~Open' /\ Closing'
      BY <2>1, <2>5 DEF Open, Closing
    <3>2. Size(Top) = 0
      BY <2>1, <2>5, RawEnds
    <3> QED BY <2>1, <2>2, <2>3, <3>1, <3>2 DEF Quiet, Given, Due
  <2> QED BY <2>4, <2>5
<1>2. CASE SkipFlush
  <2>1. /\ pc = "flush" /\ Size(Top) = 0 /\ Open /\ pc' = resume
        /\ UNCHANGED <<job, length, line, sequence, number, input, base, file, localRead, toRead>>
    BY <1>2 DEF SkipFlush, Open, Size
  <2>2. resume = "collect"
    BY <2>1, Typed DEF Reads, IInv, Reading
  <2>3. ~Open' /\ Arpa /\ line \in Int
    BY <2>1, <2>2, Typed DEF Open, Reads, Collecting
  <2>4. \A b : Home(b)' = Home(b)
    BY <2>1 DEF Home
  <2> QED BY <2>1, <2>3, <2>4 DEF Quiet, Given
<1>3. CASE AwaitBatch \/ Collect
  <2>1. /\ MoveRead /\ pc \in {"move", "collect"} /\ pc' \in {"new", "collect"}
        /\ UNCHANGED <<job, length, line, sequence, number, input, base, file>>
    BY <1>3 DEF AwaitBatch, Collect, MoveRead, IInv, Reading
  <2>2. \A b \in Batches : Home(b)' = Home(b)
    BY <2>1, MoveReadHome
  <2>3. ~Open /\ ~Open' /\ ~Closing /\ ~Closing'
    BY <2>1 DEF Open, Closing
  <2> QED BY <2>1, <2>2, <2>3 DEF Quiet, Given, Due
<1>4. CASE JoinFilters \/ JoinOutput
  <2>1. /\ pc \in {"poisonFilters", "poisonOutput"} /\ pc' \in {"poisonOutput", "done"}
        /\ UNCHANGED <<job, length, line, sequence, number, input, base, file, localRead, toRead>>
    BY <1>4 DEF JoinFilters, JoinOutput
  <2>2. ~Open /\ ~Open' /\ Closing /\ Closing'
    BY <2>1 DEF Open, Closing
  <2>3. \A b : Home(b)' = Home(b)
    BY <2>1 DEF Home
  <2> QED BY <2>1, <2>2, <2>3 DEF Quiet, Given, Due
<1>5. CASE PoisonFilters \/ PoisonOutput
  BY <1>5, StillIsQuiet DEF PoisonFilters, PoisonOutput
<1>6. CASE \E w \in Threads : FilterConsume(w) \/ FilterNext(w) \/ FilterDone(w)
  BY <1>6, StillIsQuiet DEF FilterConsume, FilterNext, FilterDone
<1>7. CASE OutputConsume \/ OutputDone \/ UNCHANGED vars
  BY <1>7, StillIsQuiet DEF OutputConsume, OutputDone, vars
<1> QED BY <1>1, <1>2, <1>3, <1>4, <1>5, <1>6, <1>7 DEF Next, Reader, Finished

LEMMA InputAddNGramIs ==
  ASSUME NEW in \in InputBuffers, NEW read \in Nat, in.actual < BatchSize
  PROVE  LET out == InputAddNGram(in, read)
             i == in.actual + 1
         IN  /\ out \in InputBuffers /\ out.actual = i /\ out.text[i] = read
             /\ \A k \in 1 .. BatchSize : k # i => out.text[k] = in.text[k]
<1> DEFINE i == in.actual + 1
           text == [in.text EXCEPT ![i] = read]
           capacity == [in.capacity EXCEPT ![i] = IF Length(read) > @ THEN Length(read) ELSE @]
<1>1. /\ in.text \in [1 .. BatchSize -> Nat] /\ in.capacity \in [1 .. BatchSize -> Lengths]
      /\ in.actual \in 0 .. BatchSize
      /\ in = [text |-> in.text, capacity |-> in.capacity, actual |-> in.actual]
  BY DEF InputBuffers
<1>2. BatchSize \in Nat \ {0}
  BY ControllerAssumption
<1>3. i \in 1 .. BatchSize /\ i \in 0 .. BatchSize
  BY <1>1, <1>2
<1>4. Length(read) \in Lengths
  BY DEF Lengths
<1>5. text \in [1 .. BatchSize -> Nat] /\ text[i] = read
      /\ \A k \in 1 .. BatchSize : k # i => text[k] = in.text[k]
  BY <1>1, <1>3
<1>6. capacity \in [1 .. BatchSize -> Lengths]
  BY <1>1, <1>3, <1>4
<1>7. InputAddNGram(in, read) = [text |-> text, capacity |-> capacity, actual |-> i]
  <2>1. InputAddNGram(in, read) = [in EXCEPT !.text = text, !.capacity = capacity, !.actual = i]
    BY DEF InputAddNGram
  <2> HIDE DEF text, capacity, i
  <2> QED BY <1>1, <2>1
<1> HIDE DEF text, capacity, i
<1>8. InputAddNGram(in, read) \in InputBuffers
  BY <1>3, <1>5, <1>6, <1>7 DEF InputBuffers
<1> QED BY <1>5, <1>7, <1>8 DEF i

LEMMA ReadLineSteps ==
  ASSUME IInv, Inputs, Reads, ReadLine
  PROVE  /\ UNCHANGED <<job, length, sequence, number, base, file, buffer, localRead, toRead>>
         /\ pc = "read" /\ Open /\ Open' /\ Top' = Top /\ Top \in Batches
         /\ length <= Len(Ends) /\ line < Ends[length] /\ line' = line + 1
         /\ \A b \in Batches : Home(b)' = Home(b)
         /\ \A b \in Batches \ {Top} : input'[b] = input[b]
         /\ Size(Top)' = Size(Top) + 1 /\ Size(Top)' \in 1 .. BatchSize
         /\ \A i \in 1 .. Size(Top) + 1 : LineAt(Top, i)' = Given + i
         /\ Given' = Given
         /\ input'[Top] \in InputBuffers
         /\ IF Size(Top)' = BatchSize THEN pc' = "flush" /\ resume' = "new"
                                      ELSE pc' = "read" /\ resume' = resume
<1> DEFINE i == input[Top].actual + 1
           B == BatchSize
<1>1. /\ UNCHANGED <<job, length, sequence, number, base, file, buffer, localRead, toRead>>
      /\ pc = "read" /\ Open /\ line < Ends[length] /\ line' = line + 1
      /\ input' = [input EXCEPT ![Top] = InputAddNGram(@, line + 1)]
      /\ IF input'[Top].actual = B THEN pc' = "flush" /\ resume' = "new"
                                   ELSE pc' = "read" /\ resume' = resume
  BY DEF ReadLine, Open, batches, filterPool, outputPool, writer
<1>2. Open' /\ Top' = Top
  BY <1>1 DEF Open, Top
<1>3. /\ Top \in Batches /\ line \in Nat /\ Size(Top) \in 0 .. B /\ Size(Top) < B /\ B \in Nat \ {0}
      /\ Given = line - Size(Top) /\ Given \in Int
      /\ \A k \in 1 .. Size(Top) : LineAt(Top, k) = Given + k
  BY <1>1, Typed DEF Reads, Given
<1>4. length <= Len(Ends)
  BY <1>1, Typed DEF Reads, Closing
<1>5. \A b \in Batches : Home(b)' = Home(b)
  BY <1>1 DEF Home
<1>6. \A b \in Batches \ {Top} : input'[b] = input[b]
  BY <1>1 DEF Inputs
<1>7. input[Top] \in InputBuffers /\ input'[Top] = InputAddNGram(input[Top], line + 1)
  BY <1>1, <1>3 DEF Inputs
<1>8. i \in 1 .. B /\ i = Size(Top) + 1 /\ line + 1 \in Nat /\ input[Top].actual < B
  BY <1>3 DEF Size
<1>9. /\ input'[Top].actual = i /\ input'[Top].text[i] = line + 1 /\ input'[Top] \in InputBuffers
      /\ \A k \in 1 .. B : k # i => input'[Top].text[k] = input[Top].text[k]
  BY <1>7, <1>8, InputAddNGramIs
<1>10. Size(Top)' = Size(Top) + 1 /\ Size(Top)' \in 1 .. B /\ input'[Top].actual = Size(Top)'
  BY <1>2, <1>8, <1>9 DEF Size
<1>11. ASSUME NEW k \in 1 .. Size(Top) + 1 PROVE LineAt(Top, k)' = Given + k
  <2>1. LineAt(Top, k)' = input'[Top].text[k] /\ LineAt(Top, k) = input[Top].text[k]
    BY <1>2 DEF LineAt
  <2>2. CASE k = i
    BY <1>3, <1>8, <1>9, <2>1, <2>2
  <2>3. CASE k # i
    <3>1. k \in 1 .. Size(Top) /\ k \in 1 .. B
      BY <1>3, <1>8, <2>3
    <3> QED BY <1>3, <1>9, <2>1, <2>3, <3>1
  <2> QED BY <2>2, <2>3
<1>12. Given' = Given
  BY <1>1, <1>2, <1>3, <1>10 DEF Given
<1> QED BY <1>1, <1>2, <1>3, <1>4, <1>5, <1>6, <1>9, <1>10, <1>11, <1>12

\* NewInput, and the end of EndLength.
LEMMA OpenTopSteps ==
  ASSUME IInv, Inputs, OpenTop, localRead # << >>, UNCHANGED <<localRead, toRead>>
  PROVE  /\ Top \in Batches /\ Home(Top) = 1 /\ Top' = Top
         /\ \A b \in Batches : Home(b)' = Home(b)
         /\ \A b \in Batches \ {Top} : input'[b] = input[b] /\ number'[b] = number[b]
         /\ Size(Top)' = 0
         /\ sequence' = sequence + 1 /\ buffer' = buffer
         /\ input' \in [Batches -> InputBuffers]
<1>1. Top \in Batches /\ Home(Top) = 1
  BY Whereabouts
<1>2. Top' = Top
  BY DEF Top
<1>3. \A b \in Batches : Home(b)' = Home(b)
  BY DEF Home
<1>4. /\ input' = [input EXCEPT ![Top] = Clear(@)] /\ number' = [number EXCEPT ![Top] = sequence]
      /\ sequence' = sequence + 1 /\ buffer' = buffer
  BY DEF OpenTop
<1>5. \A b \in Batches \ {Top} : input'[b] = input[b] /\ number'[b] = number[b]
  BY <1>1, <1>4 DEF Inputs, IInv, Types
<1>6. input'[Top].actual = 0
  BY <1>1, <1>4 DEF Inputs, InputBuffers, Clear
<1>7. Size(Top)' = 0
  BY <1>2, <1>6 DEF Size
<1>8. input' \in [Batches -> InputBuffers]
  <2>1. 0 \in 0 .. BatchSize
    BY ControllerAssumption
  <2> QED BY <1>1, <1>4, <2>1 DEF Inputs, InputBuffers, Clear
<1> QED BY <1>1, <1>2, <1>3, <1>4, <1>5, <1>7, <1>8

\* When the reader has as many batches as there are, it has them all.
LEMMA AllHome ==
  ASSUME IInv, Len(localRead) = QueueSize
  PROVE  /\ \A b \in Batches : Home(b) # 0
         /\ localRead # << >>
<1> USE ControllerAssumption
<1> DEFINE n == Cardinality(Batches)
<1>1. n \in Nat /\ n >= 2 /\ Len(localRead) = n
  BY FS_CardinalityType, FS_EmptySet DEF QueueSize
<1>2. localRead \in [1 .. n -> Batches]
  BY <1>1 DEF IInv, Types
<1>3. ASSUME NEW i \in 1 .. n, NEW j \in 1 .. n, localRead[i] = localRead[j] PROVE i = j
  <2>1. PICK b \in Batches : b = localRead[i]
    BY <1>2
  <2>2. Count(localRead, b) <= 1
    BY Counted, SMTT(30) DEF IInv, Owned, Home, Away
  <2>3. IsFiniteSet(At(localRead, b)) /\ i \in At(localRead, b) /\ j \in At(localRead, b)
    <3>1. DOMAIN localRead = 1 .. n /\ localRead \in Seq(Batches)
      BY <1>2 DEF IInv, Types
    <3>2. IsFiniteSet(At(localRead, b))
      BY <3>1, CountSeq
    <3> QED BY <1>3, <2>1, <3>1, <3>2 DEF At
  <2>4. i # j => Cardinality({i, j}) = 2 /\ Cardinality({i, j}) <= Cardinality(At(localRead, b))
    <3>1. {i, j} \subseteq At(localRead, b)
      BY <2>3
    <3>2. Cardinality({i, j}) <= Cardinality(At(localRead, b))
      BY <2>3, <3>1, FS_Subset
    <3>3. i # j => Cardinality({i, j}) = 2
      <4>1. SUFFICES ASSUME i # j PROVE Cardinality({i, j}) = 2
        OBVIOUS
      <4>2. {i, j} = {i} \cup {j} /\ IsFiniteSet({i}) /\ Cardinality({i}) = 1 /\ j \notin {i}
        BY <4>1, FS_Singleton
      <4>3. Cardinality({i} \cup {j}) = Cardinality({i}) + 1
        BY <4>2, FS_AddElement
      <4>4. Cardinality({i}) + 1 = 2
        BY <4>2
      <4> QED BY <4>2, <4>3, <4>4, Zenon
    <3> QED BY <3>2, <3>3
  <2> QED BY <2>2, <2>4, Counted DEF Count, IInv
<1>4. localRead \in Injection(1 .. n, Batches)
  BY <1>2, <1>3 DEF Injection, IsInjective
<1>5. IsFiniteSet(1 .. n) /\ Cardinality(1 .. n) = n
  BY <1>1, FS_Interval
<1>6. localRead \in Surjection(1 .. n, Batches)
  BY <1>4, <1>5, FS_Injection
<1>7. ASSUME NEW b \in Batches PROVE Home(b) # 0
  <2>1. PICK i \in 1 .. n : localRead[i] = b
    BY <1>6 DEF Surjection
  <2>2. Count(localRead, b) >= 1
    BY <1>1, <2>1, Counted DEF IInv
  <2> QED BY <2>2, Counted DEF IInv, Home
<1>8. localRead # << >>
  BY <1>1
<1> QED BY <1>7, <1>8

LEMMA NewInputSteps ==
  ASSUME IInv, Inputs, Reads, NewInput
  PROVE  /\ UNCHANGED <<job, length, line, base, file, buffer>>
         /\ OpenTop /\ localRead # << >> /\ UNCHANGED <<localRead, toRead>>
         /\ ~Open /\ ~Closing /\ Open' /\ pc' = "read" /\ Cut(job, length, line)
         /\ Given = line /\ Given' = line
<1>1. /\ UNCHANGED <<job, length, line, base, file, buffer, localRead, toRead>>
      /\ OpenTop /\ pc = "new" /\ pc' = "read"
  BY DEF NewInput, OpenTop, filterPool, outputPool, writer
<1>2. localRead # << >> /\ Cut(job, length, line)
  BY <1>1 DEF IInv, Reading, Reads, Opening
<1>3. ~Open /\ ~Closing /\ Open'
  BY <1>1 DEF Open, Closing
<1>4. Given = line /\ Given' = line
  BY <1>1, <1>2, <1>3, OpenTopSteps, Typed DEF Given
<1> QED BY <1>1, <1>2, <1>3, <1>4

LEMMA EndLengthSteps ==
  ASSUME IInv, Inputs, Reads, EndLength
  PROVE  /\ UNCHANGED <<job, line, base, buffer>>
         /\ OpenTop /\ localRead # << >> /\ UNCHANGED <<localRead, toRead>>
         /\ \A b \in Batches : Home(b) # 0
         /\ Arpa /\ line = Ends[length] /\ length \in 1 .. Len(Ends) /\ length' = length + 1
         /\ IF length < Len(Ends) THEN pc' = "read" /\ Open' ELSE pc' = "poisonFilters" /\ ~Open'
         /\ file' = Append(file, Item("end", length, All))
         /\ Given = line /\ Given' = line
<1>1. /\ UNCHANGED <<job, line, base, buffer, localRead, toRead>>
      /\ OpenTop /\ pc = "collect" /\ Len(localRead) = QueueSize /\ length' = length + 1
      /\ IF length < Len(Ends) THEN pc' = "read" ELSE pc' = "poisonFilters"
      /\ file' = Append(file, Item("end", length, All))
  BY DEF EndLength, OpenTop, filterPool, outputPool, writer, Item
<1>2. localRead # << >> /\ \A b \in Batches : Home(b) # 0
  BY <1>1, AllHome
<1>3. Arpa /\ line = Ends[length]
  BY <1>1 DEF Reads, Collecting
<1>4. length \in 1 .. Len(Ends)
  BY <1>1, Typed DEF Reads, Closing
<1>5. ~Open /\ (length < Len(Ends) => Open') /\ (~(length < Len(Ends)) => ~Open')
  BY <1>1 DEF Open
<1>6. Given = line /\ Given' = line
  BY <1>1, <1>2, <1>5, OpenTopSteps, Typed DEF Given
<1> QED BY <1>1, <1>2, <1>3, <1>4, <1>5, <1>6

---------------------------------------------------------------------------
\* Contained, Written and Gapless after every step.

\* A batch on its way has its lines in a row.
LEMMA FilledLines ==
  ASSUME IInv, Inputs, Contained, NEW b \in Batches, Home(b) = 0
  PROVE  /\ Size(b) \in 1 .. BatchSize
         /\ LineAt(b, 1) \in Nat \ {0}
         /\ \A i \in 1 .. Size(b) : LineAt(b, i) = LineAt(b, 1) + i - 1
         /\ \A i \in 1 .. Size(b) : LineAt(b, i) \in Nat /\ LineAt(b, i) <= LineAt(b, Size(b))
         /\ LineAt(b, 1) <= LineAt(b, Size(b)) /\ LineAt(b, Size(b)) \in Nat
         /\ LineAt(b, Size(b)) <= Given
         /\ \E m \in 1 .. length : Whole(m, LineAt(b, 1) - 1, Size(b))
<1>1. /\ Size(b) > 0 /\ LineAt(b, Size(b)) <= Given
      /\ \A i \in 1 .. Size(b) : LineAt(b, i) = LineAt(b, 1) + i - 1
      /\ \E m \in 1 .. length : Whole(m, LineAt(b, 1) - 1, Size(b))
  BY DEF Contained, Filled
<1>2. Size(b) \in 1 .. BatchSize /\ BatchSize \in Nat /\ \A i \in 1 .. Size(b) : LineAt(b, i) \in Nat
  BY <1>1, Typed
<1>3. PICK m \in 1 .. length : Whole(m, LineAt(b, 1) - 1, Size(b))
  BY <1>1
<1>4. LineAt(b, 1) - 1 >= 0
  <2>1. m \in DOMAIN job.ends /\ LineAt(b, 1) - 1 \in StartOf(job, m) .. job.ends[m]
    BY <1>3 DEF Whole, Cut, Ends
  <2>2. StartOf(job, m) \in Nat /\ job \in Jobs
    BY <2>1, CutStart DEF Inputs
  <2> QED BY <2>1, <2>2
<1>5. 1 \in 1 .. Size(b) /\ Size(b) \in 1 .. Size(b)
  BY <1>2
<1>6. LineAt(b, 1) \in Nat \ {0} /\ LineAt(b, Size(b)) \in Nat
  BY <1>2, <1>4, <1>5
<1>7. LineAt(b, 1) <= LineAt(b, Size(b))
  BY <1>1, <1>2, <1>5, <1>6
<1>8. \A i \in 1 .. Size(b) : LineAt(b, i) \in Nat /\ LineAt(b, i) <= LineAt(b, Size(b))
  BY <1>1, <1>2, <1>5, <1>6
<1> QED BY <1>1, <1>2, <1>6, <1>7, <1>8

LEMMA ContainedStays ==
  ASSUME IInv, Inputs, Contained, job' = job, length' \in Nat, length <= length',
         Given' \in Int, Given <= Given',
         \A b \in Batches : Home(b)' = 0 =>
           Home(b) = 0 /\ input'[b] = input[b] /\ number'[b] = number[b]
  PROVE  Contained'
<1>1. \A m, c, k : Whole(m, c, k)' <=> Whole(m, c, k)
  BY DEF Whole, Ends
<1>2. ASSUME NEW b \in Batches, Home(b)' = 0
      PROVE  /\ Home(b) = 0 /\ Size(b)' = Size(b) /\ \A i : LineAt(b, i)' = LineAt(b, i)
             /\ LineAt(b, Size(b))' = LineAt(b, Size(b))
  BY <1>2 DEF Size, LineAt
<1>3. ASSUME NEW b \in Batches, Home(b)' = 0 PROVE Filled(b)' /\ (LineAt(b, Size(b)) <= Given)'
  <2>1. Filled(b) /\ LineAt(b, Size(b)) <= Given /\ LineAt(b, Size(b)) \in Nat /\ Given \in Int
    BY <1>2, <1>3, FilledLines, Typed DEF Contained
  <2>2. \A m \in 1 .. length : m \in 1 .. length'
    BY Typed
  <2>3. Filled(b)'
    BY <1>1, <1>2, <1>3, <2>1, <2>2 DEF Filled
  <2> QED BY <1>2, <1>3, <2>1, <2>3
<1>4. ASSUME NEW b \in Batches, NEW c \in Batches, Home(b)' = 0, Home(c)' = 0,
             number'[b] < number'[c]
      PROVE  LineAt(b, Size(b))' < LineAt(c, 1)'
  BY <1>2, <1>4 DEF Contained
<1> QED BY <1>3, <1>4 DEF Contained

LEMMA FlushInputSteps ==
  ASSUME IInv, Inputs, Reads, FlushInput
  PROVE  /\ UNCHANGED <<job, length, line, sequence, number, input, buffer, base, file>>
         /\ ~Closing /\ ~Closing' /\ Given' = line /\ line = Given + Size(Top)
         /\ Size(Top) \in 1 .. BatchSize /\ length \in 1 .. Len(Ends)
         /\ \A i \in 1 .. Size(Top) : LineAt(Top, i) = Given + i
         /\ Whole(length, Given, Size(Top)) /\ Given \in Nat
         /\ pc' \in {"move", resume} /\ resume \in {"new", "collect"} /\ pc = "flush"
<1>1. /\ UNCHANGED <<job, length, line, sequence, number, input, buffer, base, file>>
      /\ pc = "flush" /\ Size(Top) # 0 /\ pc' \in {"move", resume}
  BY DEF FlushInput, batches, writer, Size
<1>2. Open /\ ~Open' /\ Top \in Batches
  BY FlushInputHome
<1>3. resume \in {"new", "collect"}
  BY <1>1 DEF IInv, Reading
<1>4. ~Closing /\ ~Closing'
  BY <1>1, <1>3 DEF Closing
<1>5. /\ line \in Nat /\ Given \in Int /\ Size(Top) \in 0 .. BatchSize /\ BatchSize \in Nat
      /\ length \in 1 .. Len(Ends)
  BY <1>2, <1>4, Typed DEF Reads
<1>6. Given' = line /\ Given = line - Size(Top)
  BY <1>1, <1>2 DEF Given
<1>7. Cut(job, length, Given) /\ \A i \in 1 .. Size(Top) : LineAt(Top, i) = Given + i
  BY <1>2 DEF Reads
<1>8. line = Given + Size(Top) /\ Size(Top) \in 1 .. BatchSize
  BY <1>1, <1>5, <1>6
<1>9. line <= Ends[length]
  BY <1>5, Typed DEF Reads
<1>10. Size(Top) = BatchSize \/ line = Ends[length]
  BY <1>1, <1>3 DEF Reads, Collecting
<1>11. Whole(length, Given, Size(Top))
  BY <1>5, <1>7, <1>8, <1>9, <1>10, Typed DEF Whole
<1>12. Given \in Nat
  <2>1. Given \in StartOf(job, length) .. job.ends[length] /\ length \in DOMAIN job.ends
    BY <1>5, <1>7, Typed DEF Cut
  <2>2. StartOf(job, length) \in Nat
    BY <2>1, CutStart DEF Inputs
  <2> QED BY <2>1, <2>2
<1> QED BY <1>1, <1>3, <1>4, <1>5, <1>6, <1>7, <1>8, <1>11, <1>12

LEMMA ContainedStep ==
  ASSUME IInv, Inputs, Reads, Contained, [Next]_vars
  PROVE  Contained'
<1>1. CASE Quiet
  BY <1>1, ContainedStays, Typed DEF Quiet
<1>2. CASE ReadLine
  <2>1. \A b \in Batches : Home(b)' = 0 =>
          Home(b) = 0 /\ input'[b] = input[b] /\ number'[b] = number[b]
    BY <1>2, ReadLineSteps, Typed
  <2>2. job' = job /\ length' = length /\ Given' = Given
    BY <1>2, ReadLineSteps
  <2> QED BY <2>1, <2>2, ContainedStays, Typed
<1>3. CASE NewInput
  <2>1. \A b \in Batches : Home(b)' = 0 =>
          Home(b) = 0 /\ input'[b] = input[b] /\ number'[b] = number[b]
    BY <1>3, NewInputSteps, OpenTopSteps
  <2>2. job' = job /\ length' = length /\ Given' = Given
    BY <1>3, NewInputSteps
  <2> QED BY <2>1, <2>2, ContainedStays, Typed
<1>4. CASE EndLength
  <2>1. \A b \in Batches : Home(b)' # 0
    BY <1>4, EndLengthSteps, OpenTopSteps
  <2> QED BY <2>1 DEF Contained
<1>5. CASE FlushFront
  <2> DEFINE f == Head(ordering)
  <2>1. \A b \in Batches : Home(b)' = 0 => Home(b) = 0
    BY <1>5, FlushFrontHome
  <2>2. /\ UNCHANGED <<job, length, line, number, input, localRead, pc>>
    BY <1>5 DEF FlushFront, reader
  <2>3. Given' = Given
    BY <2>2 DEF Given, Open, Size, Top
  <2> QED BY <2>1, <2>2, <2>3, ContainedStays, Typed
<1>6. CASE FlushInput
  <2>1. /\ UNCHANGED <<job, length, line, sequence, number, input, buffer, base, file>>
        /\ Given' = line /\ line = Given + Size(Top)
        /\ Size(Top) \in 1 .. BatchSize /\ length \in 1 .. Len(Ends)
        /\ \A i \in 1 .. Size(Top) : LineAt(Top, i) = Given + i
        /\ Whole(length, Given, Size(Top)) /\ Given \in Nat
    BY <1>6, FlushInputSteps
  <2>2. /\ Open /\ Top \in Batches /\ Home(Top) = 1
        /\ \A b \in Batches : Home(b)' = (IF b = Top THEN 0 ELSE Home(b))
    BY <1>6, FlushInputHome
  <2>3. BatchSize \in Nat
    BY Typed
  <2>4. \A m, c, k : Whole(m, c, k)' <=> Whole(m, c, k)
    BY <2>1 DEF Whole, Ends
  <2>5. \A b : Size(b)' = Size(b) /\ LineAt(b, Size(b))' = LineAt(b, Size(b))
               /\ \A i : LineAt(b, i)' = LineAt(b, i)
    BY <2>1 DEF Size, LineAt
  <2>6. \A b : Filled(b)' <=> Filled(b)
    BY <2>1, <2>4, <2>5 DEF Filled
  <2>7. LineAt(Top, 1) = Given + 1 /\ LineAt(Top, Size(Top)) = line
    BY <2>1, <2>3
  <2>8. Filled(Top)
    <3>1. LineAt(Top, 1) - 1 = Given /\ Size(Top) > 0 /\ length \in 1 .. length
      BY <2>1, <2>3, <2>7
    <3>2. \A i \in 1 .. Size(Top) : LineAt(Top, i) = LineAt(Top, 1) + i - 1
      BY <2>1, <2>3, <2>7
    <3> QED BY <2>1, <3>1, <3>2 DEF Filled
  <2>9. ASSUME NEW b \in Batches, Home(b)' = 0 PROVE Filled(b)' /\ (LineAt(b, Size(b)) <= Given)'
    <3>1. CASE b = Top
      BY <2>1, <2>3, <2>5, <2>6, <2>7, <2>8, <3>1
    <3>2. CASE b # Top
      <4>1. Home(b) = 0
        BY <2>2, <2>9, <3>2
      <4>2. Filled(b) /\ LineAt(b, Size(b)) <= Given /\ LineAt(b, Size(b)) \in Nat
        BY <4>1, FilledLines DEF Contained
      <4>3. LineAt(b, Size(b)) <= line
        BY <2>1, <2>3, <4>2
      <4> QED BY <2>1, <2>5, <2>6, <4>2, <4>3
    <3> QED BY <3>1, <3>2
  <2>10. ASSUME NEW b \in Batches, NEW c \in Batches, Home(b)' = 0, Home(c)' = 0,
                number[b] < number[c]
         PROVE  LineAt(b, Size(b)) < LineAt(c, 1)
    <3>1. b # Top => Home(b) = 0 /\ number[b] < number[Top] /\ LineAt(b, Size(b)) < LineAt(Top, 1)
      <4>1. SUFFICES ASSUME b # Top
                     PROVE Home(b) = 0 /\ number[b] < number[Top] /\ LineAt(b, Size(b)) < LineAt(Top, 1)
        OBVIOUS
      <4>2. Home(b) = 0
        BY <2>2, <2>10, <4>1
      <4>3. number[b] < number[Top]
        BY <2>2, <4>2 DEF IInv, Types, Numbered
      <4>4. LineAt(b, Size(b)) <= Given /\ LineAt(b, Size(b)) \in Nat
        BY <4>2, FilledLines
      <4> QED BY <2>1, <2>7, <4>2, <4>3, <4>4
    <3>2. c # Top => Home(c) = 0 /\ number[c] < number[Top]
      BY <2>2, <2>10 DEF IInv, Types, Numbered
    <3>3. number[b] \in Nat /\ number[c] \in Nat
      BY DEF IInv, Types
    <3>4. b # Top
      BY <2>10, <3>2, <3>3
    <3>5. CASE c = Top
      BY <3>1, <3>4, <3>5
    <3>6. CASE c # Top
      BY <2>10, <3>1, <3>2, <3>4, <3>6 DEF Contained
    <3> QED BY <3>5, <3>6
  <2>11. number' = number
    BY <2>1
  <2> QED BY <2>5, <2>9, <2>10, <2>11 DEF Contained
<1> QED BY <1>1, <1>2, <1>3, <1>4, <1>5, <1>6, QuietSteps

\* What Written says of n does not change with what the reader reads.
LEMMA WrittenStays ==
  ASSUME NEW n, Written(n), UNCHANGED <<job, length, file>>, Given' = Given,
         \A b \in Batches : Home(b)' = 0 <=> Home(b) = 0,
         \A b \in Batches : Home(b) = 0 => input'[b] = input[b]
  PROVE  Written(n)'
<1>1. \A b \in Batches : Home(b) = 0 => Size(b)' = Size(b) /\ \A i : LineAt(b, i)' = LineAt(b, i)
  BY DEF Size, LineAt
<1>2. \A b \in Batches : \A l : Holds(b, l)' <=> Holds(b, l)
  BY <1>1 DEF Holds
<1>3. Spread(n)'
  BY <1>1, <1>2 DEF Written, Spread
<1>4. Filed(n)'
  <2>1. (LinesTo(n) \cup EndsTo(length - 1))' = LinesTo(n) \cup EndsTo(length - 1)
    BY DEF LinesTo, EndsTo, Verdict, Arpa
  <2>2. \A x, y : Before(x, y)' <=> Before(x, y)
    BY DEF Before, Place, Ends
  <2> QED BY <2>1, <2>2 DEF Written, Filed
<1> QED BY <1>3, <1>4 DEF Written

\* Everything that is not written yet has been given away.
LEMMA WrittenBounds ==
  ASSUME IInv, Inputs, Reads, NEW n, Written(n)
  PROVE  /\ n \in Nat /\ n <= Given /\ Given <= line /\ n <= line
         /\ length <= Len(Ends) => n <= Ends[length]
         /\ n <= Ends[Len(Ends)]
         /\ \A k \in 1 .. length - 1 : k \in DOMAIN Ends /\ Ends[k] <= n
<1>1. n \in Nat /\ StartOf(job, length) <= n /\ n <= Given
  BY DEF Written, Spread
<1>2. Given <= line /\ line \in Nat /\ Given \in Int
  BY Typed DEF Given
<1>3. length <= Len(Ends) => n <= Ends[length]
  BY <1>1, <1>2, Typed DEF Reads
<1>4. n <= Ends[Len(Ends)]
  <2>1. CASE length <= Len(Ends)
    <3>1. Ends[length] <= Ends[Len(Ends)]
      BY <2>1, Typed, CutStart DEF Inputs
    <3> QED BY <1>1, <1>3, <2>1, <3>1, Typed
  <2>2. CASE length = Len(Ends) + 1
    BY <1>1, <1>2, <2>2, Typed DEF Reads
  <2> QED BY <2>1, <2>2, Typed
<1>5. ASSUME NEW k \in 1 .. length - 1 PROVE k \in DOMAIN Ends /\ Ends[k] <= n
  <2>1. k \in DOMAIN Ends /\ length - 1 \in DOMAIN Ends /\ k <= length - 1 /\ length # 1
    BY <1>5, Typed
  <2>2. Ends[k] <= Ends[length - 1]
    BY <2>1, ControllerAssumption DEF Inputs, Ends
  <2>3. StartOf(job, length) = Ends[length - 1]
    BY <2>1 DEF StartOf, Ends
  <2> QED BY <1>1, <2>1, <2>2, <2>3, Typed
<1> QED BY <1>1, <1>2, <1>3, <1>4, <1>5

\* The order of what is in the file.
LEMMA FiledItems ==
  ASSUME IInv, Inputs, Reads, NEW n, Written(n), NEW x \in LinesTo(n) \cup EndsTo(length - 1)
  PROVE  \/ \E l \in 1 .. n : Verdict(l) # {} /\ x = Item("ngram", l, Verdict(l))
         \/ \E k \in 1 .. length - 1 : Arpa /\ x = Item("end", k, All)
  BY DEF LinesTo, EndsTo

LEMMA FiledBefore ==
  ASSUME IInv, Inputs, Reads, NEW n, Written(n), NEW x \in LinesTo(n) \cup EndsTo(length - 1)
  PROVE  /\ \A l \in Nat : l > n => \A to : Before(x, Item("ngram", l, to))
         /\ \A to : length \in DOMAIN Ends /\ n = Ends[length] => Before(x, Item("end", length, to))
<1> DEFINE p == Place(x)
<1>1. p[1] \in Nat /\ p[2] \in Nat /\ p[1] <= n /\ p[2] <= length - 1 /\ n \in Nat /\ length \in Nat
  <2>1. n \in Nat /\ length \in 1 .. Len(Ends) + 1 /\ Len(Ends) \in Nat
    BY WrittenBounds, Typed
  <2>2. CASE \E l \in 1 .. n : Verdict(l) # {} /\ x = Item("ngram", l, Verdict(l))
    <3>1. PICK l \in 1 .. n : x = Item("ngram", l, Verdict(l))
      BY <2>2
    <3>2. p = <<l, 0>>
      BY <3>1 DEF Place, Item
    <3> QED BY <2>1, <3>2
  <2>3. CASE \E k \in 1 .. length - 1 : Arpa /\ x = Item("end", k, All)
    <3>1. PICK k \in 1 .. length - 1 : x = Item("end", k, All)
      BY <2>3
    <3>2. p = <<Ends[k], k>>
      BY <3>1 DEF Place, Item
    <3>3. Ends[k] <= n /\ Ends[k] \in Nat
      BY <3>1, WrittenBounds, Typed
    <3> QED BY <2>1, <3>1, <3>2, <3>3
  <2> QED BY <2>2, <2>3, FiledItems
<1>2. ASSUME NEW l \in Nat, NEW to, l > n PROVE Before(x, Item("ngram", l, to))
  <2>1. Place(Item("ngram", l, to)) = <<l, 0>>
    BY DEF Place, Item
  <2> QED BY <1>1, <1>2, <2>1 DEF Before
<1>3. ASSUME NEW to, length \in DOMAIN Ends, n = Ends[length]
      PROVE  Before(x, Item("end", length, to))
  <2>1. Place(Item("end", length, to)) = <<Ends[length], length>>
    BY DEF Place, Item
  <2>2. p[2] < length
    BY <1>1
  <2> QED BY <1>1, <1>3, <2>1, <2>2 DEF Before
<1> QED BY <1>2, <1>3

\* One file behind another.
LEMMA Extended ==
  ASSUME NEW S, NEW T, NEW s \in Seq(S), NEW t \in Seq(T),
         \A x \in S : \E k \in 1 .. Len(s) : s[k] = x,
         \A x \in T : \E k \in 1 .. Len(t) : t[k] = x,
         \A j, k \in 1 .. Len(s) : j < k => Before(s[j], s[k]),
         \A j, k \in 1 .. Len(t) : j < k => Before(t[j], t[k]),
         \A x \in S, y \in T : Before(x, y)
  PROVE  LET u == s \o t
         IN  /\ u \in Seq(S \cup T)
             /\ \A x \in S \cup T : \E k \in 1 .. Len(u) : u[k] = x
             /\ \A j, k \in 1 .. Len(u) : j < k => Before(u[j], u[k])
<1> DEFINE u == s \o t
<1>1. /\ Len(s) \in Nat /\ Len(t) \in Nat /\ Len(u) = Len(s) + Len(t)
      /\ \A k \in 1 .. Len(s) : s[k] \in S /\ u[k] = s[k]
      /\ \A k \in 1 .. Len(t) : t[k] \in T /\ u[Len(s) + k] = t[k]
  OBVIOUS
<1>2. u \in Seq(S \cup T)
  <2>1. s \in Seq(S \cup T) /\ t \in Seq(S \cup T)
    <3>1. \A k \in 1 .. Len(s) : s[k] \in S \cup T
      BY <1>1
    <3>2. \A k \in 1 .. Len(t) : t[k] \in S \cup T
      BY <1>1
    <3> QED BY <3>1, <3>2, SeqInto
  <2> QED BY <2>1, ConcatProperties
<1> HIDE DEF u
<1>3. ASSUME NEW k \in 1 .. Len(u)
      PROVE  \/ k \in 1 .. Len(s) /\ u[k] = s[k] /\ u[k] \in S
             \/ k - Len(s) \in 1 .. Len(t) /\ k > Len(s) /\ u[k] = t[k - Len(s)] /\ u[k] \in T
  <2>1. CASE k <= Len(s)
    BY <1>1, <1>3, <2>1, SMTT(30)
  <2>2. CASE k > Len(s)
    <3>1. k - Len(s) \in 1 .. Len(t) /\ k = Len(s) + (k - Len(s))
      BY <1>1, <1>3, <2>2
    <3> QED BY <1>1, <2>2, <3>1
  <2> QED BY <1>1, <2>1, <2>2
<1>4. ASSUME NEW x \in S \cup T PROVE \E k \in 1 .. Len(u) : u[k] = x
  <2>1. CASE x \in S
    <3>1. PICK k \in 1 .. Len(s) : s[k] = x
      BY <2>1
    <3>2. k \in 1 .. Len(u)
      BY <1>1
    <3> QED BY <1>1, <3>1, <3>2
  <2>2. CASE x \in T
    <3>1. PICK k \in 1 .. Len(t) : t[k] = x
      BY <2>2
    <3>2. Len(s) + k \in 1 .. Len(u)
      BY <1>1
    <3> QED BY <1>1, <3>1, <3>2
  <2> QED BY <2>1, <2>2
<1>5. ASSUME NEW j \in 1 .. Len(u), NEW k \in 1 .. Len(u), j < k PROVE Before(u[j], u[k])
  <2> DEFINE First(i) == i \in 1 .. Len(s) /\ u[i] = s[i] /\ u[i] \in S
             Second(i) == i - Len(s) \in 1 .. Len(t) /\ i > Len(s) /\ u[i] = t[i - Len(s)] /\ u[i] \in T
  <2>1. (First(j) \/ Second(j)) /\ (First(k) \/ Second(k)) /\ j \in Int /\ k \in Int
    BY <1>3
  <2>2. CASE First(j) /\ First(k)
    BY <1>5, <2>2
  <2>3. CASE First(j) /\ Second(k)
    BY <2>3
  <2>4. CASE Second(j) /\ First(k)
    BY <1>1, <1>5, <2>1, <2>4
  <2>5. CASE Second(j) /\ Second(k)
    <3>1. j - Len(s) < k - Len(s)
      BY <1>1, <1>5, <2>1
    <3> QED BY <2>5, <3>1
  <2> QED BY <2>1, <2>2, <2>3, <2>4, <2>5
<1> QED BY <1>2, <1>4, <1>5 DEF u

\* The records of a filtered batch are written as the lines they are for, in their order.
LinesIn(m, n) == {Item("ngram", l, Verdict(l)) : l \in {k \in m .. n : Verdict(k) # {}}}

LEMMA FlushedLines ==
  ASSUME IInv, Inputs, Contained, NEW f \in Batches, Home(f) = 0, Annotated(f, Size(f)),
         NEW t, t = Flushed(input[f], buffer[f])
  PROVE  /\ t \in Seq(LinesIn(LineAt(f, 1), LineAt(f, Size(f))))
         /\ \A x \in LinesIn(LineAt(f, 1), LineAt(f, Size(f))) : \E k \in 1 .. Len(t) : t[k] = x
         /\ \A j, k \in 1 .. Len(t) : j < k => Before(t[j], t[k])
<1> DEFINE a == buffer[f].annotated
           T == LinesIn(LineAt(f, 1), LineAt(f, Size(f)))
           L(k) == LineAt(f, a[k].line[1])
<1>1. a \in Seq(Records) /\ DOMAIN a = 1 .. Len(a) /\ Len(a) \in Nat
  BY DEF Inputs, OutputBuffers
<1>2. /\ \A i \in 1 .. Size(f) : LineAt(f, i) = LineAt(f, 1) + i - 1 /\ LineAt(f, i) \in Nat
      /\ Size(f) \in Nat /\ LineAt(f, 1) \in Nat /\ LineAt(f, Size(f)) \in Nat
      /\ LineAt(f, Size(f)) = LineAt(f, 1) + Size(f) - 1
  <2>1. /\ \A i \in 1 .. Size(f) : LineAt(f, i) = LineAt(f, 1) + i - 1 /\ LineAt(f, i) \in Nat
        /\ Size(f) \in 1 .. BatchSize /\ LineAt(f, 1) \in Nat /\ LineAt(f, Size(f)) \in Nat
    BY FilledLines
  <2>2. Size(f) \in 1 .. Size(f) /\ Size(f) \in Nat
    BY <2>1, ControllerAssumption
  <2> QED BY <2>1, <2>2
<1>3. /\ \A j, k \in 1 .. Len(a) : j < k => a[j].line[1] < a[k].line[1]
      /\ \A k \in 1 .. Len(a) :
           /\ a[k].line[1] \in 1 .. Size(f) /\ Verdict(L(k)) # {}
           /\ a[k].systems = IF Verdict(L(k)) = All THEN {} ELSE Verdict(L(k))
      /\ \A i \in 1 .. Size(f) : Verdict(LineAt(f, i)) # {} => \E k \in 1 .. Len(a) : a[k].line[1] = i
  BY DEF Annotated
<1>4. t = [k \in 1 .. Len(a) |-> Sent(input[f], a[k])]
  BY <1>1 DEF Flushed
<1>5. ASSUME NEW k \in 1 .. Len(a)
      PROVE  t[k] = Item("ngram", L(k), Verdict(L(k))) /\ t[k] \in T
  <2>1. Sent(input[f], a[k]) = Item("ngram", L(k), IF a[k].systems = {} THEN All ELSE a[k].systems)
    BY DEF Sent, Item, LineAt
  <2>2. (IF a[k].systems = {} THEN All ELSE a[k].systems) = Verdict(L(k))
    BY <1>3
  <2>3. t[k] = Item("ngram", L(k), Verdict(L(k)))
    BY <1>4, <2>1, <2>2
  <2>4. L(k) \in LineAt(f, 1) .. LineAt(f, Size(f)) /\ Verdict(L(k)) # {}
    <3>1. PICK i \in 1 .. Size(f) : i = a[k].line[1]
      BY <1>3
    <3>2. LineAt(f, i) \in LineAt(f, 1) .. LineAt(f, Size(f))
      BY <1>2
    <3> QED BY <1>3, <3>1, <3>2
  <2> QED BY <2>3, <2>4 DEF LinesIn
<1>6. t \in Seq(T) /\ Len(t) = Len(a)
  <2> HIDE DEF a, T
  <2> QED BY <1>1, <1>4, <1>5
<1>7. ASSUME NEW x \in T PROVE \E k \in 1 .. Len(t) : t[k] = x
  <2>1. PICK l \in LineAt(f, 1) .. LineAt(f, Size(f)) :
          Verdict(l) # {} /\ x = Item("ngram", l, Verdict(l))
    BY <1>7 DEF LinesIn
  <2>2. PICK i \in 1 .. Size(f) : i = l - LineAt(f, 1) + 1
    BY <1>2
  <2>3. LineAt(f, i) = l
    BY <1>2, <2>2
  <2>4. PICK k \in 1 .. Len(a) : a[k].line[1] = i
    BY <1>3, <2>1, <2>3
  <2> QED BY <1>5, <1>6, <2>1, <2>3, <2>4
<1>8. ASSUME NEW j \in 1 .. Len(t), NEW k \in 1 .. Len(t), j < k PROVE Before(t[j], t[k])
  <2>1. j \in 1 .. Len(a) /\ k \in 1 .. Len(a)
    BY <1>6
  <2>2. PICK x \in 1 .. Size(f), y \in 1 .. Size(f) :
          x = a[j].line[1] /\ y = a[k].line[1] /\ x < y
    BY <1>3, <1>8, <2>1
  <2>3. LineAt(f, x) < LineAt(f, y)
    <3>1. LineAt(f, x) = LineAt(f, 1) + x - 1 /\ LineAt(f, y) = LineAt(f, 1) + y - 1
      BY <1>2
    <3>2. LineAt(f, 1) \in Nat
      BY <1>2
    <3>3. x \in Int /\ y \in Int /\ x < y
      BY <2>2
    <3> QED BY <3>1, <3>2, <3>3
  <2>4. /\ t[j] = Item("ngram", LineAt(f, x), Verdict(LineAt(f, x)))
        /\ t[k] = Item("ngram", LineAt(f, y), Verdict(LineAt(f, y)))
    BY <1>5, <2>1, <2>2
  <2>5. Place(t[j]) = <<LineAt(f, x), 0>> /\ Place(t[k]) = <<LineAt(f, y), 0>>
    BY <2>4 DEF Place, Item
  <2> QED BY <2>3, <2>5 DEF Before
<1> QED BY <1>6, <1>7, <1>8

\* The batch that is written next has the lines behind those that are written.
LEMMA FrontIsNext ==
  ASSUME IInv, Inputs, Reads, Contained, NEW n, Written(n),
         NEW f \in Batches, Home(f) = 0, number[f] = base
  PROVE  /\ LineAt(f, 1) = n + 1 /\ LineAt(f, Size(f)) = n + Size(f)
         /\ \A b \in Batches : Home(b) = 0 /\ b # f => n + Size(f) < LineAt(b, 1)
<1>1. /\ n \in Nat /\ n < LineAt(f, 1) /\ Given \in Int
      /\ \A l \in n + 1 .. Given : \E b \in Batches : Holds(b, l)
  BY Typed DEF Written, Spread
<1>2. /\ \A i \in 1 .. Size(f) : LineAt(f, i) = LineAt(f, 1) + i - 1
      /\ Size(f) \in 1 .. BatchSize /\ LineAt(f, 1) \in Nat /\ LineAt(f, Size(f)) \in Nat
      /\ LineAt(f, 1) <= LineAt(f, Size(f)) /\ LineAt(f, Size(f)) <= Given
      /\ \A i \in 1 .. Size(f) : LineAt(f, i) \in Nat
  BY FilledLines
<1>3. ASSUME NEW b \in Batches, Home(b) = 0, b # f
      PROVE  /\ LineAt(f, Size(f)) < LineAt(b, 1) /\ LineAt(b, 1) \in Nat
             /\ \A i \in 1 .. Size(b) : LineAt(b, i) \in Nat /\ LineAt(b, i) >= LineAt(b, 1)
  <2>1. base <= number[b] /\ number[b] # number[f] /\ number[b] \in Nat /\ base \in Nat
    BY <1>3 DEF IInv, Types, Numbered
  <2>2. LineAt(f, Size(f)) < LineAt(b, 1)
    BY <1>3, <2>1 DEF Contained
  <2>3. /\ \A i \in 1 .. Size(b) : LineAt(b, i) = LineAt(b, 1) + i - 1
        /\ LineAt(b, 1) \in Nat /\ Size(b) \in 1 .. BatchSize
    BY <1>3, FilledLines
  <2>4. \A i \in 1 .. Size(b) : LineAt(b, i) \in Nat /\ LineAt(b, i) >= LineAt(b, 1)
    BY <2>3
  <2> QED BY <2>2, <2>3, <2>4
<1>4. LineAt(f, 1) = n + 1
  <2>1. SUFFICES ASSUME LineAt(f, 1) # n + 1 PROVE FALSE
    OBVIOUS
  <2>2. n + 1 < LineAt(f, 1) /\ n + 1 \in n + 1 .. Given
    BY <1>1, <1>2, <2>1
  <2>3. PICK b \in Batches : Holds(b, n + 1)
    BY <1>1, <2>2
  <2>4. PICK i \in 1 .. Size(b) : LineAt(b, i) = n + 1
    BY <2>3 DEF Holds
  <2>5. CASE b = f
    <3>1. LineAt(f, i) >= LineAt(f, 1)
      BY <1>2, <2>4, <2>5
    <3> QED BY <1>1, <1>2, <2>2, <2>4, <2>5, <3>1
  <2>6. CASE b # f
    <3>1. /\ LineAt(f, Size(f)) < LineAt(b, 1) /\ LineAt(b, 1) \in Nat
          /\ LineAt(b, i) >= LineAt(b, 1)
      BY <1>3, <2>3, <2>4, <2>6 DEF Holds
    <3> QED BY <1>1, <1>2, <2>2, <2>4, <3>1
  <2> QED BY <2>5, <2>6
<1>5. LineAt(f, Size(f)) = n + Size(f)
  <2>1. Size(f) \in 1 .. Size(f) /\ Size(f) \in Nat
    BY <1>2, ControllerAssumption
  <2>2. LineAt(f, Size(f)) = LineAt(f, 1) + Size(f) - 1
    BY <1>2, <2>1
  <2> QED BY <1>1, <1>4, <2>1, <2>2
<1> QED BY <1>3, <1>4, <1>5

LEMMA FlushFrontSteps ==
  ASSUME IInv, Inputs, Reads, FlushFront
  PROVE  LET f == Head(ordering)
         IN  /\ f \in Batches /\ Home(f) = 0 /\ number[f] = base /\ Count(ordering, f) # 0
             /\ file' = file \o Flushed(input[f], buffer[f])
             /\ buffer' = [buffer EXCEPT ![f] = AfterFlush(@)]
             /\ base' = base + 1
             /\ UNCHANGED <<job, pc, resume, length, line, sequence, localRead, number, input, filtered>>
             /\ Given' = Given
<1> DEFINE f == Head(ordering)
<1>1. /\ file' = file \o Flushed(input[f], buffer[f])
      /\ buffer' = [buffer EXCEPT ![f] = AfterFlush(@)]
      /\ base' = base + 1 /\ ordering # << >> /\ f # Null
      /\ UNCHANGED <<job, pc, resume, length, line, sequence, localRead, number, input, filtered>>
  BY DEF FlushFront, FrontReady, reader, filterPool
<1>2. f \in Batches /\ Home(f) = 0 /\ number[f] = base
  BY FlushFrontHome
<1>3. Count(ordering, f) # 0
  <2>1. f = ordering[1] /\ 1 \in 1 .. Len(ordering)
    BY <1>1 DEF IInv, Types, Waiting
  <2>2. Count(ordering, f) >= 1
    BY <2>1, Counted DEF IInv
  <2> QED BY <2>2
<1>4. Given' = Given
  BY <1>1 DEF Given, Open, Size, Top
<1> QED BY <1>1, <1>2, <1>3, <1>4

LEMMA FlushFrontWritten ==
  ASSUME IInv, Inputs, Reads, Contained, Buffers, FlushFront, NEW n, Written(n)
  PROVE  \E m : Written(m)'
<1>1. PICK f : f = Head(ordering)
  OBVIOUS
<1>2. /\ f \in Batches /\ Home(f) = 0 /\ number[f] = base /\ Count(ordering, f) # 0
      /\ file' = file \o Flushed(input[f], buffer[f])
      /\ UNCHANGED <<job, length, line, number, input>>
      /\ Given' = Given
  BY <1>1, FlushFrontSteps
<1>3. \A b \in Batches : Home(b)' = (IF b = f THEN 1 ELSE Home(b))
  BY <1>1, FlushFrontHome
<1>4. PICK k : k = n + Size(f)
  OBVIOUS
<1>5. /\ LineAt(f, 1) = n + 1 /\ LineAt(f, Size(f)) = k
      /\ \A b \in Batches : Home(b) = 0 /\ b # f => k < LineAt(b, 1)
  BY <1>2, <1>4, FrontIsNext
<1>6. /\ n \in Nat /\ Given \in Int /\ Size(f) \in 1 .. BatchSize /\ k \in Nat /\ n < k /\ k <= Given
      /\ \A i \in 1 .. Size(f) : LineAt(f, i) \in Nat /\ LineAt(f, i) <= k
  BY <1>2, <1>4, <1>5, FilledLines, Typed, WrittenBounds, SMTT(30)
<1>7. \A b : Size(b)' = Size(b) /\ \A i : LineAt(b, i)' = LineAt(b, i)
  BY <1>2 DEF Size, LineAt
<1>8. Spread(k)'
  <2>1. StartOf(job, length)' = StartOf(job, length) /\ StartOf(job, length) <= n /\ StartOf(job, length) \in Int
    <3>1. StartOf(job, length) \in Nat
      BY Typed, ControllerAssumption DEF StartOf, Ends, Inputs
    <3> QED BY <1>2, <3>1 DEF Written, Spread
  <2>2. (StartOf(job, length) <= k /\ k <= Given)'
    BY <1>2, <1>6, <2>1
  <2>3. ASSUME NEW b \in Batches, Home(b)' = 0 PROVE k < LineAt(b, 1)'
    BY <1>3, <1>5, <1>7, <2>3
  <2>4. ASSUME NEW l \in k + 1 .. Given PROVE \E b \in Batches : Holds(b, l)'
    <3>1. l \in n + 1 .. Given /\ l > k
      BY <1>6, <2>4
    <3>2. PICK b \in Batches : Holds(b, l)
      BY <3>1 DEF Written, Spread
    <3>3. b # f
      BY <1>6, <3>1, <3>2 DEF Holds
    <3>4. Holds(b, l)'
      BY <1>3, <1>7, <3>2, <3>3 DEF Holds
    <3> QED BY <3>4
  <2> QED BY <1>2, <2>2, <2>3, <2>4 DEF Spread
<1>9. Filed(k)'
  <2> DEFINE S == LinesTo(n) \cup EndsTo(length - 1)
             T == LinesIn(n + 1, k)
             t == Flushed(input[f], buffer[f])
  <2>1. Annotated(f, Size(f))
    <3>1. Size(f) \in Nat
      BY <1>2, Typed
    <3>2. Filtered(f, Size(f))
      BY <1>2 DEF Filtered
    <3> QED BY <1>2, <3>1, <3>2 DEF Buffers, Known
  <2>2. /\ t \in Seq(T)
        /\ \A x \in T : \E i \in 1 .. Len(t) : t[i] = x
        /\ \A i, j \in 1 .. Len(t) : i < j => Before(t[i], t[j])
    BY <1>2, <1>5, <2>1, FlushedLines
  <2>3. /\ file \in Seq(S)
        /\ \A x \in S : \E i \in 1 .. Len(file) : file[i] = x
        /\ \A i, j \in 1 .. Len(file) : i < j => Before(file[i], file[j])
    BY DEF Written, Filed
  <2>4. ASSUME NEW x \in S, NEW y \in T PROVE Before(x, y)
    <3>1. PICK l \in n + 1 .. k : y = Item("ngram", l, Verdict(l))
      BY DEF LinesIn
    <3>2. l \in Nat /\ l > n
      BY <1>6
    <3> QED BY <3>1, <3>2, FiledBefore
  <2> HIDE DEF S, T, t
  <2>5. /\ file' \in Seq(S \cup T)
        /\ \A x \in S \cup T : \E i \in 1 .. Len(file') : file'[i] = x
        /\ \A i, j \in 1 .. Len(file') : i < j => Before(file'[i], file'[j])
    <3>1. file' = file \o t
      BY <1>2 DEF t
    <3>2. PICK s \in Seq(S), v \in Seq(T) : s = file /\ v = t
      BY <2>2, <2>3
    <3>3. /\ \A x \in S : \E i \in 1 .. Len(s) : s[i] = x
          /\ \A i, j \in 1 .. Len(s) : i < j => Before(s[i], s[j])
      BY <2>3, <3>2
    <3>4. /\ \A x \in T : \E i \in 1 .. Len(v) : v[i] = x
          /\ \A i, j \in 1 .. Len(v) : i < j => Before(v[i], v[j])
      BY <2>2, <3>2
    <3>5. /\ s \o v \in Seq(S \cup T)
          /\ \A x \in S \cup T : \E i \in 1 .. Len(s \o v) : (s \o v)[i] = x
          /\ \A i, j \in 1 .. Len(s \o v) : i < j => Before((s \o v)[i], (s \o v)[j])
      BY <2>4, <3>3, <3>4, Extended
    <3> QED BY <3>1, <3>2, <3>5
  <2>6. (LinesTo(k) \cup EndsTo(length - 1))' = S \cup T
    <3>1. EndsTo(length - 1)' = EndsTo(length - 1)
      BY <1>2 DEF EndsTo, Arpa
    <3>2. \A l : Verdict(l)' = Verdict(l)
      BY <1>2 DEF Verdict
    <3>3. LinesTo(k)' = LinesTo(n) \cup LinesIn(n + 1, k)
      <4>1. 1 .. k = (1 .. n) \cup (n + 1 .. k)
        BY <1>6
      <4> QED BY <3>2, <4>1 DEF LinesTo, LinesIn
    <3> QED BY <3>1, <3>3 DEF S, T
  <2>7. \A x, y : Before(x, y)' <=> Before(x, y)
    BY <1>2 DEF Before, Place, Ends
  <2> QED BY <2>5, <2>6, <2>7 DEF Filed
<1> QED BY <1>6, <1>8, <1>9 DEF Written

LEMMA EndLengthWritten ==
  ASSUME IInv, Inputs, Reads, EndLength, NEW n, Written(n)
  PROVE  Written(n)'
<1> DEFINE x == Item("end", length, All)
           S == LinesTo(n) \cup EndsTo(length - 1)
<1>1. /\ job' = job /\ Arpa /\ line = Ends[length] /\ length \in 1 .. Len(Ends) /\ length' = length + 1
      /\ \A b \in Batches : Home(b) # 0 /\ Home(b)' # 0
      /\ file' = Append(file, x) /\ Given = line /\ Given' = line
  BY EndLengthSteps, OpenTopSteps
<1>2. n \in Nat /\ n <= line /\ line \in Nat /\ length \in Nat /\ length \in DOMAIN Ends /\ Len(Ends) \in Nat
  BY <1>1, WrittenBounds, Typed
<1>3. n = line
  <2>1. \A l \in n + 1 .. line : \E b \in Batches : Home(b) = 0
    BY <1>1 DEF Written, Spread, Holds
  <2> QED BY <1>1, <1>2, <2>1
<1>4. Spread(n)'
  <2>1. StartOf(job, length)' = line
    BY <1>1, <1>2 DEF StartOf, Ends
  <2>2. ~\E l \in n + 1 .. line : TRUE
    BY <1>2, <1>3
  <2> QED BY <1>1, <1>2, <1>3, <2>1, <2>2 DEF Spread
<1>5. Filed(n)'
  <2>1. /\ file \in Seq(S)
        /\ \A y \in S : \E i \in 1 .. Len(file) : file[i] = y
        /\ \A i, j \in 1 .. Len(file) : i < j => Before(file[i], file[j])
    BY DEF Written, Filed
  <2>2. \A y \in S : Before(y, x)
    BY <1>1, <1>2, <1>3, FiledBefore
  <2>3. (LinesTo(n) \cup EndsTo(length - 1))' = S \cup {x}
    <3>1. LinesTo(n)' = LinesTo(n)
      BY <1>1 DEF LinesTo, Verdict
    <3>2. EndsTo(length - 1)' = EndsTo(length - 1) \cup {x}
      <4>1. 1 .. length' - 1 = (1 .. length - 1) \cup {length}
        BY <1>1, <1>2
      <4> QED BY <1>1, <4>1 DEF EndsTo, Arpa
    <3> QED BY <3>1, <3>2
  <2> HIDE DEF S, x
  <2>4. /\ <<x>> \in Seq({x}) /\ Len(<<x>>) = 1 /\ <<x>>[1] = x
        /\ \A y \in {x} : \E i \in 1 .. Len(<<x>>) : <<x>>[i] = y
        /\ \A i, j \in 1 .. Len(<<x>>) : i < j => Before(<<x>>[i], <<x>>[j])
    OBVIOUS
  <2>5. file' = file \o <<x>>
    BY <1>1, <2>1, AppendIsConcat
  <2>6. /\ file' \in Seq(S \cup {x})
        /\ \A y \in S \cup {x} : \E i \in 1 .. Len(file') : file'[i] = y
        /\ \A i, j \in 1 .. Len(file') : i < j => Before(file'[i], file'[j])
    <3>1. PICK T : T = {x}
      OBVIOUS
    <3>2. PICK s \in Seq(S), v \in Seq(T) : s = file /\ v = <<x>>
      BY <2>1, <2>4, <3>1
    <3>3. /\ \A y \in S : \E i \in 1 .. Len(s) : s[i] = y
          /\ \A i, j \in 1 .. Len(s) : i < j => Before(s[i], s[j])
      BY <2>1, <3>2
    <3>4. /\ \A y \in T : \E i \in 1 .. Len(v) : v[i] = y
          /\ \A i, j \in 1 .. Len(v) : i < j => Before(v[i], v[j])
      BY <2>4, <3>1, <3>2
    <3>5. \A y \in S, z \in T : Before(y, z)
      BY <2>2, <3>1
    <3>6. /\ s \o v \in Seq(S \cup T)
          /\ \A y \in S \cup T : \E i \in 1 .. Len(s \o v) : (s \o v)[i] = y
          /\ \A i, j \in 1 .. Len(s \o v) : i < j => Before((s \o v)[i], (s \o v)[j])
      BY <3>3, <3>4, <3>5, Extended
    <3> QED BY <2>5, <3>1, <3>2, <3>6
  <2>7. \A y, z : Before(y, z)' <=> Before(y, z)
    BY <1>1 DEF Before, Place, Ends
  <2> QED BY <2>3, <2>6, <2>7 DEF Filed
<1> QED BY <1>2, <1>4, <1>5 DEF Written

LEMMA FlushInputWritten ==
  ASSUME IInv, Inputs, Reads, FlushInput, NEW n, Written(n)
  PROVE  Written(n)'
<1>1. /\ UNCHANGED <<job, length, line, sequence, number, input, buffer, base, file>>
      /\ Given' = line /\ line = Given + Size(Top) /\ Given \in Nat
      /\ Size(Top) \in 1 .. BatchSize /\ BatchSize \in Nat
      /\ \A i \in 1 .. Size(Top) : LineAt(Top, i) = Given + i
  BY FlushInputSteps, Typed
<1>2. /\ Open /\ Top \in Batches /\ Home(Top) = 1
      /\ \A b \in Batches : Home(b)' = (IF b = Top THEN 0 ELSE Home(b))
  BY FlushInputHome
<1>3. n \in Nat /\ n <= Given /\ n <= line /\ line \in Nat
  BY WrittenBounds, Typed
<1>4. \A b : Size(b)' = Size(b) /\ \A i : LineAt(b, i)' = LineAt(b, i)
  BY <1>1 DEF Size, LineAt
<1>5. PICK top \in Batches : top = Top /\ Home(top)' = 0
  BY <1>2
<1>6. Spread(n)'
  <2>1. (StartOf(job, length) <= n)' /\ (n <= Given)'
    BY <1>1, <1>3 DEF Written, Spread
  <2>2. ASSUME NEW b \in Batches, Home(b)' = 0 PROVE n < LineAt(b, 1)'
    <3>1. CASE b = Top
      <4>1. LineAt(Top, 1) = Given + 1
        BY <1>1
      <4> QED BY <1>1, <1>3, <1>4, <3>1, <4>1
    <3>2. CASE b # Top
      BY <1>2, <1>4, <2>2, <3>2 DEF Written, Spread
    <3> QED BY <3>1, <3>2
  <2>3. ASSUME NEW l \in n + 1 .. line PROVE \E b \in Batches : Holds(b, l)'
    <3>1. CASE l <= Given
      <4>1. PICK b \in Batches : Holds(b, l)
        BY <1>1, <1>3, <2>3, <3>1 DEF Written, Spread
      <4>2. b # Top
        BY <1>2, <4>1 DEF Holds
      <4>3. Holds(b, l)'
        BY <1>2, <1>4, <4>1, <4>2 DEF Holds
      <4> QED BY <4>3
    <3>2. CASE l > Given
      <4>1. PICK i \in 1 .. Size(Top) : i = l - Given
        BY <1>1, <1>3, <2>3, <3>2
      <4>2. LineAt(Top, i) = l
        BY <1>1, <1>3, <4>1
      <4>3. Holds(top, l)'
        BY <1>4, <1>5, <4>1, <4>2 DEF Holds
      <4> QED BY <4>3
    <3> QED BY <1>1, <1>3, <3>1, <3>2
  <2> QED BY <1>1, <2>1, <2>2, <2>3 DEF Spread
<1>7. Filed(n)'
  <2>1. (LinesTo(n) \cup EndsTo(length - 1))' = LinesTo(n) \cup EndsTo(length - 1)
    BY <1>1 DEF LinesTo, EndsTo, Verdict, Arpa
  <2>2. \A x, y : Before(x, y)' <=> Before(x, y)
    BY <1>1 DEF Before, Place, Ends
  <2> QED BY <1>1, <2>1, <2>2 DEF Written, Filed
<1> QED BY <1>3, <1>6, <1>7 DEF Written

LEMMA WrittenStep ==
  ASSUME IInv, Inputs, Reads, Contained, Buffers, [Next]_vars, \E n : Written(n)
  PROVE  \E n : Written(n)'
<1>1. PICK n : Written(n)
  OBVIOUS
<1>2. CASE Quiet
  <2>1. Written(n)'
    BY <1>1, <1>2, WrittenStays DEF Quiet
  <2> QED BY <2>1
<1>3. CASE ReadLine
  <2>1. /\ UNCHANGED <<job, length, file>> /\ Given' = Given
        /\ \A b \in Batches : Home(b)' = Home(b)
        /\ \A b \in Batches : Home(b) = 0 => input'[b] = input[b]
    BY <1>3, ReadLineSteps, Typed
  <2>2. Written(n)'
    BY <1>1, <2>1, WrittenStays
  <2> QED BY <2>2
<1>4. CASE NewInput
  <2>1. /\ UNCHANGED <<job, length, file>> /\ Given' = Given
        /\ \A b \in Batches : Home(b)' = Home(b)
        /\ \A b \in Batches : Home(b) = 0 => input'[b] = input[b]
    BY <1>4, NewInputSteps, OpenTopSteps
  <2>2. Written(n)'
    BY <1>1, <2>1, WrittenStays
  <2> QED BY <2>2
<1>5. CASE FlushInput
  BY <1>1, <1>5, FlushInputWritten
<1>6. CASE EndLength
  BY <1>1, <1>6, EndLengthWritten
<1>7. CASE FlushFront
  BY <1>1, <1>7, FlushFrontWritten
<1> QED BY <1>2, <1>3, <1>4, <1>5, <1>6, <1>7, QuietSteps

LEMMA GaplessStep ==
  ASSUME IInv, Inputs, Reads, Gapless, [Next]_vars
  PROVE  Gapless'
<1> SUFFICES ASSUME ~Arpa' PROVE /\ (\A s \in base .. Due - 1 : \E b \in Batches : Home(b) = 0 /\ number[b] = s)'
                                 /\ (\A b \in Batches : Home(b) = 0 => number[b] < Due)'
  BY DEF Gapless
<1>1. sequence \in Nat /\ base \in Nat /\ number \in [Batches -> Nat]
  BY DEF IInv, Types
<1>2. ASSUME ~Arpa
      PROVE  /\ \A s \in base .. Due - 1 : \E b \in Batches : Home(b) = 0 /\ number[b] = s
             /\ \A b \in Batches : Home(b) = 0 => number[b] < Due
  BY <1>2 DEF Gapless
<1>3. ASSUME base' = base, Arpa' = Arpa, Due' = Due, \A b \in Batches : Home(b)' = Home(b),
             \A b \in Batches : Home(b) = 0 => number'[b] = number[b]
      PROVE  /\ (\A s \in base .. Due - 1 : \E b \in Batches : Home(b) = 0 /\ number[b] = s)'
             /\ (\A b \in Batches : Home(b) = 0 => number[b] < Due)'
  BY <1>2, <1>3
<1>4. CASE Quiet
  <2>1. Arpa' = Arpa /\ base' = base /\ number' = number /\ \A b \in Batches : Home(b)' = Home(b)
    BY <1>4 DEF Quiet, Arpa
  <2> QED BY <1>3, <1>4, <2>1 DEF Quiet
<1>5. CASE ReadLine
  <2>1. /\ Arpa' = Arpa /\ base' = base /\ number' = number /\ sequence' = sequence /\ Open /\ Open'
        /\ \A b \in Batches : Home(b)' = Home(b)
    BY <1>5, ReadLineSteps DEF Arpa
  <2> QED BY <1>3, <2>1 DEF Due
<1>6. CASE NewInput
  <2>1. /\ job' = job /\ base' = base /\ OpenTop /\ localRead # << >>
        /\ UNCHANGED <<localRead, toRead>> /\ ~Open /\ ~Closing /\ Open'
    BY <1>6, NewInputSteps
  <2>2. /\ sequence' = sequence + 1 /\ \A b \in Batches : Home(b)' = Home(b)
        /\ \A b \in Batches : Home(b) = 0 => number'[b] = number[b]
    BY <2>1, OpenTopSteps
  <2>3. Due' = Due /\ Arpa' = Arpa
    BY <1>1, <2>1, <2>2 DEF Due, Arpa
  <2> QED BY <1>3, <2>1, <2>2, <2>3
<1>7. CASE EndLength
  <2>1. job' = job /\ Arpa
    BY <1>7, EndLengthSteps
  <2> QED BY <2>1 DEF Arpa
<1>8. CASE FlushInput
  <2>1. /\ UNCHANGED <<job, sequence, number, base>> /\ ~Closing /\ ~Closing'
    BY <1>8, FlushInputSteps
  <2>2. /\ Open /\ ~Open' /\ Top \in Batches /\ Home(Top) = 1
        /\ \A b \in Batches : Home(b)' = (IF b = Top THEN 0 ELSE Home(b))
    BY <1>8, FlushInputHome
  <2>3. Due = sequence - 1 /\ Due' = sequence /\ ~Arpa /\ number[Top] = sequence - 1
    BY <2>1, <2>2 DEF Due, Arpa, IInv, Numbered
  <2>4. ASSUME NEW s \in base .. sequence - 1
        PROVE  \E b \in Batches : Home(b)' = 0 /\ number[b] = s
    <3>1. CASE s = sequence - 1
      BY <2>2, <2>3, <3>1
    <3>2. CASE s # sequence - 1
      <4>1. s \in base .. Due - 1
        BY <1>1, <2>3, <2>4, <3>2
      <4>2. PICK b \in Batches : Home(b) = 0 /\ number[b] = s
        BY <1>2, <2>3, <4>1
      <4> QED BY <2>2, <4>2
    <3> QED BY <3>1, <3>2
  <2>5. \A b \in Batches : Home(b)' = 0 => number[b] < sequence
    BY <1>1, <1>2, <2>2, <2>3
  <2> QED BY <2>1, <2>3, <2>4, <2>5
<1>9. CASE FlushFront
  <2>1. PICK f : f = Head(ordering)
    OBVIOUS
  <2>2. /\ f \in Batches /\ Home(f) = 0 /\ number[f] = base /\ base' = base + 1
        /\ UNCHANGED <<job, pc, sequence, number>>
        /\ \A b \in Batches : Home(b)' = (IF b = f THEN 1 ELSE Home(b))
    BY <1>9, <2>1, FlushFrontSteps, FlushFrontHome
  <2>3. Due' = Due /\ ~Arpa
    BY <2>2 DEF Due, Open, Closing, Arpa
  <2>4. ASSUME NEW s \in base' .. Due - 1
        PROVE  \E b \in Batches : Home(b)' = 0 /\ number[b] = s
    <3>1. Due \in Int
      BY <1>1 DEF Due
    <3>2. s \in base .. Due - 1 /\ s # base
      BY <1>1, <2>2, <2>4, <3>1
    <3>3. PICK b \in Batches : Home(b) = 0 /\ number[b] = s
      BY <1>2, <2>3, <3>2
    <3> QED BY <2>2, <3>2, <3>3
  <2> QED BY <1>2, <2>2, <2>3, <2>4
<1> QED BY <1>4, <1>5, <1>6, <1>7, <1>8, <1>9, QuietSteps

---------------------------------------------------------------------------
\* Reads after every step.

\* The steps of the threads leave the reader alone.
LEMMA ReadsStays ==
  ASSUME IInv, Inputs, Reads, UNCHANGED <<reader, input>>,
         \A b \in Batches : Home(b) # 0 => Home(b)' # 0
  PROVE  Reads'
<1>1. UNCHANGED <<job, pc, resume, length, line, sequence, localRead>>
  BY DEF reader
<1>2. /\ Top' = Top /\ Open' = Open /\ Closing' = Closing /\ Collecting' = Collecting /\ Opening' = Opening
      /\ Ends' = Ends /\ Arpa' = Arpa
  BY <1>1 DEF Top, Open, Closing, Collecting, Opening, Ends, Arpa
<1>3. Size(Top)' = Size(Top) /\ \A i : LineAt(Top, i)' = LineAt(Top, i)
  BY <1>2 DEF Size, LineAt
<1>4. Given' = Given
  BY <1>1, <1>2, <1>3 DEF Given
<1> QED BY <1>1, <1>2, <1>3, <1>4 DEF Reads

LEMMA OrderStep ==
  ASSUME IInv, Inputs, Reads, EndOrder
  PROVE  Reads'
<1>1. /\ pc = "read" /\ line = Ends[length] /\ Open /\ ~Closing
      /\ UNCHANGED <<job, length, line, input, localRead, toRead>>
      /\ IF Arpa THEN pc' = "flush" /\ resume' = "collect" ELSE pc' = "poisonFilters"
  BY DEF EndOrder, Open, Closing, batches
<1>2. /\ Top' = Top /\ Ends' = Ends /\ Arpa' = Arpa
  BY <1>1 DEF Top, Ends, Arpa
<1>3. Size(Top)' = Size(Top) /\ \A i : LineAt(Top, i)' = LineAt(Top, i)
  BY <1>1, <1>2 DEF Size, LineAt
<1>4. length \in 1 .. Len(Ends)
  BY <1>1, Typed DEF Reads
<1>5. CASE Arpa
  <2>1. /\ Open' /\ ~Closing' /\ Collecting' /\ ~Opening'
    BY <1>1, <1>5 DEF Open, Closing, Collecting, Opening
  <2>2. Given' = Given
    BY <1>1, <1>2, <1>3, <2>1 DEF Given
  <2> QED BY <1>1, <1>2, <1>3, <1>4, <1>5, <2>1, <2>2 DEF Reads
<1>6. CASE ~Arpa
  <2>1. /\ ~Open' /\ Closing' /\ ~Collecting' /\ ~Opening'
    BY <1>1, <1>6 DEF Open, Closing, Collecting, Opening
  <2>2. length = 1 /\ Len(Ends) = 1
    BY <1>1, <1>6, RawEnds
  <2> QED BY <1>1, <1>2, <1>3, <1>4, <1>6, <2>1, <2>2 DEF Reads
<1> QED BY <1>5, <1>6

\* Flush and FlushInput get a batch back and go on.
LEMMA ReturnStep ==
  ASSUME IInv, Inputs, Reads, SkipFlush \/ AwaitBatch \/ Collect \/ JoinFilters \/ JoinOutput
  PROVE  Reads'
<1>1. /\ UNCHANGED <<job, length, line, input>>
      /\ \/ pc = "flush" /\ pc' = resume /\ resume' = resume /\ Size(Top) = 0
         \/ pc = "move" /\ pc' = resume /\ resume' = resume
         \/ pc = "collect" /\ pc' = pc /\ resume' = resume
         \/ pc \in {"poisonFilters", "poisonOutput"} /\ pc' \in {"poisonOutput", "done"}
      /\ \A b \in Batches : Home(b)' = Home(b)
  <2>1. CASE SkipFlush \/ JoinFilters \/ JoinOutput
    BY <2>1 DEF SkipFlush, JoinFilters, JoinOutput, batches, Size, Home
  <2>2. CASE AwaitBatch \/ Collect
    BY <2>2, MoveReadHome DEF AwaitBatch, Collect, MoveRead, batches
  <2> QED BY <2>1, <2>2
<1>2. pc \in {"flush", "move"} => resume \in {"new", "collect"}
  BY DEF IInv, Reading
<1>3. pc = "flush" => resume = "collect"
  BY <1>1, <1>2, Typed DEF Reads
<1>4. /\ Ends' = Ends /\ Arpa' = Arpa
  BY <1>1 DEF Ends, Arpa
<1>5. /\ ~Open' /\ pc' # "flush" /\ pc' # "read"
      /\ Closing' => Closing
      /\ ~Closing' => ~Closing /\ pc' \in {"new", "collect"}
      /\ Collecting' => Collecting
      /\ Opening' => Opening
  BY <1>1, <1>2, <1>3 DEF Open, Closing, Collecting, Opening
<1> QED BY <1>1, <1>4, <1>5 DEF Reads

LEMMA FlushInputReads ==
  ASSUME IInv, Inputs, Reads, FlushInput
  PROVE  Reads'
<1>1. /\ UNCHANGED <<job, length, line>> /\ ~Closing /\ ~Closing' /\ line = Given + Size(Top)
      /\ length \in 1 .. Len(Ends)
      /\ pc = "flush" /\ pc' \in {"move", resume} /\ resume \in {"new", "collect"}
  BY FlushInputSteps
<1>2. ~Open' /\ Open /\ resume' = resume
  BY FlushInputHome DEF FlushInput
<1>3. Ends' = Ends /\ Arpa' = Arpa
  BY <1>1 DEF Ends, Arpa
<1>4. /\ Collecting' => Collecting
      /\ Opening' => resume = "new"
      /\ pc' \in {"move", "new", "collect"}
  BY <1>1, <1>2 DEF Collecting, Opening
<1>5. resume = "new" => Cut(job, length, line)
  <2>1. SUFFICES ASSUME resume = "new" PROVE Cut(job, length, line)
    OBVIOUS
  <2>2. Size(Top) = BatchSize /\ Cut(job, length, Given) /\ line <= Ends[length]
    BY <1>1, <1>2, <2>1, Typed DEF Reads
  <2>3. Cut(job, length, Given + BatchSize)
    <3>1. job \in Jobs /\ length \in DOMAIN job.ends /\ Given + BatchSize <= job.ends[length]
      BY <1>1, <2>2, Typed DEF Inputs
    <3> QED BY <2>2, <3>1, CutNext
  <2> QED BY <1>1, <2>2, <2>3
<1> QED BY <1>1, <1>2, <1>3, <1>4, <1>5, Typed DEF Reads

LEMMA OpenReads ==
  ASSUME IInv, Inputs, Reads, NewInput \/ EndLength
  PROVE  Reads'
<1>1. /\ OpenTop /\ localRead # << >> /\ UNCHANGED <<localRead, toRead, job, line>>
      /\ Given' = line /\ line \in Nat
  BY NewInputSteps, EndLengthSteps, Typed
<1>2. /\ Size(Top)' = 0 /\ \A b \in Batches : Home(b)' = Home(b)
  BY <1>1, OpenTopSteps
<1>3. Ends' = Ends /\ Arpa' = Arpa
  BY <1>1 DEF Ends, Arpa
<1>4. BatchSize \in Nat \ {0}
  BY ControllerAssumption
<1>5. CASE NewInput
  <2>1. /\ UNCHANGED length /\ ~Closing /\ pc' = "read" /\ Cut(job, length, line)
    BY <1>5, NewInputSteps
  <2>2. ~Closing' /\ ~Collecting' /\ ~Opening'
    BY <2>1 DEF Closing, Collecting, Opening
  <2>3. (\A i \in 1 .. Size(Top) : LineAt(Top, i) = Given + i)'
    BY <1>2
  <2> QED BY <1>1, <1>2, <1>3, <1>4, <2>1, <2>2, <2>3 DEF Reads
<1>6. CASE EndLength
  <2>1. /\ Arpa /\ line = Ends[length] /\ length \in 1 .. Len(Ends) /\ length' = length + 1
        /\ IF length < Len(Ends) THEN pc' = "read" /\ Open' ELSE pc' = "poisonFilters" /\ ~Open'
        /\ \A b \in Batches : Home(b) # 0
    BY <1>6, EndLengthSteps
  <2>2. Len(Ends) \in Nat /\ DOMAIN Ends = 1 .. Len(Ends) /\ job.ends = Ends
    BY Typed
  <2>3. ~Collecting' /\ ~Opening'
    BY <2>1 DEF Collecting, Opening
  <2>4. CASE length < Len(Ends)
    <3>1. /\ length + 1 \in DOMAIN Ends /\ length + 1 # Len(Ends) + 1
          /\ StartOf(job, length + 1) = line /\ StartOf(job, length + 1) <= Ends[length + 1]
          /\ Cut(job, length + 1, line)
      <4>1. length + 1 \in DOMAIN job.ends /\ job \in Jobs
        BY <2>1, <2>2, <2>4 DEF Inputs
      <4>2. StartOf(job, length + 1) = line
        BY <2>1, <2>2 DEF StartOf
      <4> QED BY <2>2, <2>4, <2>1, <4>1, <4>2, CutStart
    <3>2. pc' = "read" /\ ~Closing'
      BY <2>1, <2>4 DEF Closing
    <3>3. (\A i \in 1 .. Size(Top) : LineAt(Top, i) = Given + i)'
      BY <1>2
    <3>4. (length <= Len(Ends) => StartOf(job, length) <= line /\ line <= Ends[length])'
      BY <1>1, <1>3, <2>1, <3>1
    <3>5. (length # Len(Ends) + 1 /\ Arpa /\ Cut(job, length, Given))'
      BY <1>1, <1>3, <2>1, <3>1
    <3>6. (Size(Top) < BatchSize)'
      BY <1>2, <1>4
    <3> QED BY <2>3, <3>2, <3>3, <3>4, <3>5, <3>6 DEF Reads
  <2>5. CASE ~(length < Len(Ends))
    <3>1. length = Len(Ends)
      <4>1. length \in 1 .. Len(Ends) /\ Len(Ends) \in Nat
        BY <2>1, <2>2
      <4> QED BY <2>5, <4>1
    <3>2. pc' = "poisonFilters" /\ Closing' /\ ~Open'
      BY <2>1, <2>5 DEF Closing
    <3>3. (~(length <= Len(Ends)) /\ length = Len(Ends) + 1 /\ Arpa /\ line = Ends[Len(Ends)])'
      BY <1>1, <1>3, <2>1, <2>2, <3>1
    <3>4. (\A b \in Batches : Home(b) # 0)'
      BY <1>2, <2>1
    <3> QED BY <2>3, <3>2, <3>3, <3>4 DEF Reads
  <2> QED BY <2>4, <2>5
<1> QED BY <1>5, <1>6

LEMMA ReadLineReads ==
  ASSUME IInv, Inputs, Reads, ReadLine
  PROVE  Reads'
<1>1. /\ UNCHANGED <<job, length>> /\ pc = "read" /\ Open'
      /\ length <= Len(Ends) /\ line < Ends[length] /\ line' = line + 1
      /\ Size(Top)' = Size(Top) + 1 /\ Size(Top)' \in 1 .. BatchSize
      /\ \A i \in 1 .. Size(Top) + 1 : LineAt(Top, i)' = Given + i
      /\ Given' = Given
      /\ IF Size(Top)' = BatchSize THEN pc' = "flush" /\ resume' = "new"
                                   ELSE pc' = "read" /\ resume' = resume
  BY ReadLineSteps
<1>2. Ends' = Ends /\ Arpa' = Arpa
  BY <1>1 DEF Ends, Arpa
<1>3. ~Closing' /\ ~Collecting' /\ ~Opening' /\ pc' \in {"read", "flush"} /\ ~Closing /\ Open
  BY <1>1 DEF Closing, Collecting, Opening, Open
<1>4. length \in 1 .. Len(Ends) /\ Len(Ends) \in Nat /\ line \in Nat /\ Ends[length] \in Nat
      /\ BatchSize \in Nat
  BY <1>1, Typed
<1>5. StartOf(job, length) <= line /\ Cut(job, length, Given)
  BY <1>3, <1>4 DEF Reads
<1>6. StartOf(job, length) <= line' /\ line' <= Ends[length]
  <2>1. StartOf(job, length) \in Nat
    BY <1>4, CutStart, Typed DEF Inputs
  <2> QED BY <1>1, <1>4, <1>5, <2>1
<1>7. (\A i \in 1 .. Size(Top) : LineAt(Top, i) = Given + i)'
  BY <1>1
<1>8. pc' = "read" => Size(Top)' < BatchSize
  BY <1>1, <1>4
<1>9. ~Arpa => length = 1
  BY DEF Reads
<1> QED BY <1>1, <1>2, <1>3, <1>4, <1>5, <1>6, <1>7, <1>8, <1>9 DEF Reads

LEMMA ReadsStep ==
  ASSUME IInv, Inputs, Reads, [Next]_vars
  PROVE  Reads'
<1> USE DEF batches, filterPool, outputPool, writer
<1>1. CASE PoisonFilters \/ PoisonOutput \/ OutputConsume \/ OutputDone \/ UNCHANGED vars
  <2>1. UNCHANGED <<reader, input, toRead>>
    BY <1>1 DEF PoisonFilters, PoisonOutput, OutputConsume, OutputDone, vars
  <2>2. \A b : Home(b)' = Home(b)
    BY <2>1 DEF Home, reader
  <2> QED BY <2>1, <2>2, ReadsStays
<1>2. CASE \E w \in Threads : FilterConsume(w) \/ FilterNext(w) \/ FilterDone(w)
  <2>1. UNCHANGED <<reader, input, toRead>>
    BY <1>2 DEF FilterConsume, FilterNext, FilterDone
  <2>2. \A b : Home(b)' = Home(b)
    BY <2>1 DEF Home, reader
  <2> QED BY <2>1, <2>2, ReadsStays
<1>3. CASE FlushFront
  <2>1. UNCHANGED <<reader, input>>
    BY <1>3 DEF FlushFront
  <2>2. \A b \in Batches : Home(b) # 0 => Home(b)' # 0
    BY <1>3, FlushFrontHome
  <2> QED BY <2>1, <2>2, ReadsStays
<1> QED BY <1>1, <1>2, <1>3, OrderStep, ReturnStep, FlushInputReads, OpenReads, ReadLineReads
        DEF Next, Reader, Finished

---------------------------------------------------------------------------
\* FilterPool and OutputPool after every step.

Clean(q) == \A i \in 1 .. Len(q) : q[i] # Null

LEMMA PoisonedTail ==
  ASSUME NEW q \in Waiting, q # << >>
  PROVE  /\ Poisoned(q) => Poisoned(Tail(q))
         /\ Poisoned(q) /\ Head(q) = Null => Drained(Tail(q))
         /\ Drained(q) => Drained(Tail(q)) /\ Head(q) = Null
         /\ Clean(q) => Clean(Tail(q)) /\ Head(q) # Null
<1>1. /\ Len(q) \in Nat /\ Len(q) >= 1 /\ Len(Tail(q)) = Len(q) - 1 /\ Head(q) = q[1]
      /\ \A i \in 1 .. Len(Tail(q)) : Tail(q)[i] = q[i + 1] /\ i + 1 \in 1 .. Len(q) /\ 1 < i + 1
      /\ 1 \in 1 .. Len(q)
  BY HeadTailProperties DEF Waiting
<1>2. Poisoned(q) => Poisoned(Tail(q))
  BY <1>1 DEF Poisoned
<1>3. Poisoned(q) /\ Head(q) = Null => Drained(Tail(q))
  BY <1>1 DEF Poisoned, Drained
<1>4. Drained(q) => Drained(Tail(q)) /\ Head(q) = Null
  BY <1>1 DEF Drained
<1>5. Clean(q) => Clean(Tail(q)) /\ Head(q) # Null
  BY <1>1 DEF Clean
<1> QED BY <1>2, <1>3, <1>4, <1>5

LEMMA PoisonedAppend ==
  ASSUME NEW q \in Waiting, NEW r \in Requests
  PROVE  /\ Poisoned(q) => Poisoned(Append(q, Null))
         /\ Drained(q) => Drained(Append(q, Null))
         /\ Clean(q) /\ r # Null => Clean(Append(q, r))
<1>1. \A y \in Requests : /\ Len(q) \in Nat /\ Len(Append(q, y)) = Len(q) + 1
                          /\ Append(q, y)[Len(q) + 1] = y
                          /\ \A i \in 1 .. Len(q) : Append(q, y)[i] = q[i]
  BY AppendProperties DEF Waiting
<1>2. Null \in Requests
  BY DEF Requests
<1>3. Poisoned(q) => Poisoned(Append(q, Null))
  BY <1>1, <1>2 DEF Poisoned
<1>4. Drained(q) => Drained(Append(q, Null))
  BY <1>1, <1>2 DEF Drained
<1>5. Clean(q) /\ r # Null => Clean(Append(q, r))
  BY <1>1 DEF Clean
<1> QED BY <1>3, <1>4, <1>5

LEMMA CleanPoisoned == ASSUME NEW q, Clean(q) PROVE Poisoned(q)
  BY DEF Clean, Poisoned

\* A reader that is past the input stays so.
LEMMA ClosingStays ==
  ASSUME IInv, [Next]_vars
  PROVE  /\ Closing => Closing'
         /\ Joining => Joining'
         /\ Joining' => Joining \/ JoinFilters
         /\ pc' = "done" => pc = "done" \/ JoinOutput
<1> USE DEF Closing, Joining
<1>1. CASE UNCHANGED pc
  BY <1>1
<1>2. CASE ReadLine \/ EndOrder \/ SkipFlush \/ FlushInput \/ AwaitBatch \/ NewInput \/ EndLength
  <2>1. pc \in {"flush", "move"} => resume \in {"new", "collect"}
    BY DEF IInv, Reading
  <2> QED BY <1>2, <2>1 DEF ReadLine, EndOrder, SkipFlush, FlushInput, AwaitBatch, NewInput, EndLength
<1>3. CASE JoinFilters \/ JoinOutput
  BY <1>3 DEF JoinFilters, JoinOutput
<1>4. CASE Collect \/ PoisonFilters \/ PoisonOutput
  BY <1>1, <1>4 DEF Collect, PoisonFilters, PoisonOutput, reader
<1>5. CASE \E w \in Threads : FilterConsume(w) \/ FilterNext(w) \/ FilterDone(w)
  BY <1>1, <1>5 DEF FilterConsume, FilterNext, FilterDone, reader
<1>6. CASE OutputConsume \/ FlushFront \/ OutputDone \/ UNCHANGED vars
  BY <1>1, <1>6 DEF OutputConsume, FlushFront, OutputDone, vars, reader
<1> QED BY <1>2, <1>3, <1>4, <1>5, <1>6 DEF Next, Reader, Finished

LEMMA FilterPoolStep ==
  ASSUME IInv, Reads, FilterPool, [Next]_vars
  PROVE  FilterPool'
<1> USE ControllerAssumption
<1>1. /\ filterLive \subseteq Threads /\ Poisoned(filterIn)
      /\ \A i \in 1 .. Len(filterIn) : filterIn[i] = Null => Closing
      /\ filterLive # Threads => Closing /\ Drained(filterIn)
      /\ \A w \in Threads : filterHeld[w] # Null => w \in filterLive
      /\ Joining => filterLive = {}
      /\ filterIn \in Waiting /\ filterHeld \in Holding
  BY DEF FilterPool, IInv, Types
<1>2. (Closing => Closing') /\ (Joining' => Joining \/ JoinFilters)
  BY ClosingStays
<1>3. ~Closing => Clean(filterIn) /\ filterLive = Threads
  BY <1>1 DEF Clean
<1>4. CASE UNCHANGED <<filterIn, filterHeld, filterLive>>
  <2>1. Joining' => filterLive = {}
    BY <1>1, <1>2 DEF JoinFilters, Filters!Joined
  <2> QED BY <1>1, <1>2, <1>4, <2>1 DEF FilterPool
<1>5. CASE FlushInput
  <2>1. /\ filterIn' = Append(filterIn, Top) /\ UNCHANGED <<filterHeld, filterLive>> /\ pc = "flush"
    BY <1>5 DEF FlushInput, Filters!Produce
  <2>2. ~Closing /\ ~Joining /\ Top \in Batches
    BY <1>5, <2>1, FlushInputHome DEF Closing, Joining
  <2>3. Clean(filterIn')
    BY <1>1, <1>3, <2>1, <2>2, PoisonedAppend DEF Requests
  <2>4. ~Joining'
    <3>1. ~JoinFilters
      BY <2>1 DEF JoinFilters
    <3> QED BY <1>2, <2>2, <3>1
  <2> QED BY <1>1, <1>3, <2>1, <2>2, <2>3, <2>4, CleanPoisoned DEF FilterPool, Clean
<1>6. CASE PoisonFilters
  <2>1. /\ filterIn' = Append(filterIn, Null) /\ UNCHANGED <<filterHeld, filterLive, pc>> /\ Closing
    BY <1>6 DEF PoisonFilters, Filters!ProducePoison, Closing, reader
  <2>2. Closing' /\ ~Joining'
    BY <1>6, <2>1 DEF PoisonFilters, Closing, Joining
  <2>3. Poisoned(filterIn') /\ (Drained(filterIn) => Drained(filterIn'))
    BY <1>1, <2>1, PoisonedAppend DEF Requests
  <2> QED BY <1>1, <2>1, <2>2, <2>3 DEF FilterPool
<1>7. CASE \E w \in Threads : FilterConsume(w)
  <2>1. PICK w \in Threads : FilterConsume(w)
    BY <1>7
  <2>2. /\ w \in filterLive /\ filterHeld[w] = Null /\ filterIn # << >> /\ filterIn' = Tail(filterIn)
        /\ Head(filterIn) = Null => filterLive' = filterLive \ {w} /\ filterHeld' = filterHeld
        /\ Head(filterIn) # Null => /\ filterHeld' = [filterHeld EXCEPT ![w] = Head(filterIn)]
                                    /\ filterLive' = filterLive
        /\ pc' = pc
    BY <2>1 DEF FilterConsume, Filters!Consume, reader
  <2>3. Joining' = Joining /\ Closing' = Closing
    BY <2>2 DEF Joining, Closing
  <2>4. /\ Poisoned(filterIn')
        /\ Head(filterIn) = Null => Drained(filterIn')
        /\ Drained(filterIn) => Drained(filterIn')
        /\ Clean(filterIn) => Clean(filterIn') /\ Head(filterIn) # Null
    BY <1>1, <2>2, PoisonedTail
  <2>5. \A i \in 1 .. Len(filterIn') : filterIn'[i] = Null => Closing'
    BY <1>3, <2>3, <2>4 DEF Clean
  <2>6. filterLive' # Threads => Closing' /\ Drained(filterIn')
    <3>1. CASE Head(filterIn) = Null
      BY <1>3, <2>3, <2>4, <3>1
    <3>2. CASE Head(filterIn) # Null
      BY <1>1, <2>2, <2>3, <2>4, <3>2
    <3> QED BY <3>1, <3>2
  <2>7. \A v \in Threads : filterHeld'[v] # Null => v \in filterLive'
    BY <1>1, <2>2 DEF Holding
  <2>8. filterLive' \subseteq filterLive
    BY <2>2
  <2> QED BY <1>1, <2>3, <2>4, <2>5, <2>6, <2>7, <2>8 DEF FilterPool
<1>8. CASE \E w \in Threads : FilterDone(w)
  <2>1. PICK w \in Threads : FilterDone(w)
    BY <1>8
  <2>2. /\ filterHeld' = [filterHeld EXCEPT ![w] = Null]
        /\ UNCHANGED <<filterIn, filterLive, pc>>
    BY <2>1 DEF FilterDone, Filters!Handled, reader
  <2>3. \A v \in Threads : filterHeld'[v] # Null => v \in filterLive
    BY <1>1, <2>2 DEF Holding
  <2>4. Joining' = Joining /\ Closing' = Closing
    BY <2>2 DEF Joining, Closing
  <2> QED BY <1>1, <2>2, <2>3, <2>4 DEF FilterPool
<1>9. CASE Reader /\ ~FlushInput /\ ~PoisonFilters
  <2>1. UNCHANGED <<filterIn, filterHeld, filterLive>>
    BY <1>9 DEF Reader, ReadLine, EndOrder, SkipFlush, AwaitBatch, NewInput, Collect, EndLength,
               MoveRead, JoinFilters, PoisonOutput, JoinOutput, filterPool
  <2> QED BY <1>4, <2>1
<1>10. CASE (\E w \in Threads : FilterNext(w)) \/ OutputConsume \/ FlushFront \/ OutputDone \/ UNCHANGED vars
  BY <1>4, <1>10 DEF FilterNext, OutputConsume, FlushFront, OutputDone, vars, filterPool
<1> QED BY <1>5, <1>6, <1>7, <1>8, <1>9, <1>10 DEF Next, Finished

LEMMA OutputPoolStep ==
  ASSUME IInv, Reads, FilterPool, OutputPool, [Next]_vars
  PROVE  OutputPool'
<1> USE ControllerAssumption
<1>1. /\ outputLive \subseteq {Writer} /\ Poisoned(outputIn)
      /\ \A i \in 1 .. Len(outputIn) : outputIn[i] = Null => Joining
      /\ outputLive # {Writer} => Joining /\ Drained(outputIn)
      /\ outputHeld \in [{Writer} -> Requests]
      /\ outputHeld[Writer] # Null => Writer \in outputLive
      /\ pc = "done" => outputLive = {}
      /\ outputHeld[Writer] = Null => ~FrontReady
      /\ outputIn \in Waiting /\ ordering \in Waiting
  BY DEF OutputPool, IInv, Types
<1>2. (Joining => Joining') /\ (pc' = "done" => pc = "done" \/ JoinOutput)
  BY ClosingStays
<1>3. ~Joining => Clean(outputIn) /\ outputLive = {Writer}
  BY <1>1 DEF Clean
<1>4. CASE UNCHANGED <<outputIn, outputHeld, outputLive, ordering>>
  <2>1. pc' = "done" => outputLive = {}
    BY <1>1, <1>2 DEF JoinOutput, Outputs!Joined
  <2>2. FrontReady' = FrontReady
    BY <1>4 DEF FrontReady
  <2> QED BY <1>1, <1>2, <1>4, <2>1, <2>2 DEF OutputPool
<1>5. CASE PoisonOutput
  <2>1. /\ outputIn' = Append(outputIn, Null) /\ UNCHANGED <<outputHeld, outputLive, pc, ordering>> /\ Joining
        /\ pc = "poisonOutput"
    BY <1>5 DEF PoisonOutput, Outputs!ProducePoison, Joining, reader, writer
  <2>2. Poisoned(outputIn') /\ (Drained(outputIn) => Drained(outputIn'))
    BY <1>1, <2>1, PoisonedAppend DEF Requests
  <2>3. FrontReady' = FrontReady /\ Joining'
    BY <2>1 DEF FrontReady, Joining
  <2> QED BY <1>1, <2>1, <2>2, <2>3 DEF OutputPool
<1>6. CASE \E w \in Threads : FilterDone(w)
  <2>1. PICK w \in Threads : FilterDone(w)
    BY <1>6
  <2>2. /\ filterHeld[w] # Null /\ outputIn' = Append(outputIn, filterHeld[w])
        /\ UNCHANGED <<outputHeld, outputLive, pc, ordering>>
    BY <2>1 DEF FilterDone, Outputs!Produce, reader, writer
  <2>3. ~Joining /\ filterHeld[w] \in Requests
    BY <2>2 DEF FilterPool, IInv, Types, Holding
  <2>4. Clean(outputIn')
    BY <1>1, <1>3, <2>2, <2>3, PoisonedAppend
  <2>5. FrontReady' = FrontReady /\ Joining' = Joining
    BY <2>2 DEF FrontReady, Joining
  <2> QED BY <1>1, <1>3, <2>2, <2>3, <2>4, <2>5, CleanPoisoned DEF OutputPool, Clean
<1>7. CASE OutputConsume
  <2>1. /\ Writer \in outputLive /\ outputHeld[Writer] = Null /\ outputIn # << >> /\ outputIn' = Tail(outputIn)
        /\ Head(outputIn) = Null => /\ outputLive' = outputLive \ {Writer} /\ outputHeld' = outputHeld
                                    /\ ordering' = ordering
        /\ Head(outputIn) # Null => /\ outputHeld' = [outputHeld EXCEPT ![Writer] = Head(outputIn)]
                                    /\ outputLive' = outputLive
        /\ pc' = pc
    BY <1>7 DEF OutputConsume, Outputs!Consume, reader
  <2>2. Joining' = Joining
    BY <2>1 DEF Joining
  <2>3. /\ Poisoned(outputIn')
        /\ Head(outputIn) = Null => Drained(outputIn')
        /\ Drained(outputIn) => Drained(outputIn')
        /\ Clean(outputIn) => Clean(outputIn') /\ Head(outputIn) # Null
    BY <1>1, <2>1, PoisonedTail
  <2>4. \A i \in 1 .. Len(outputIn') : outputIn'[i] = Null => Joining'
    BY <1>3, <2>2, <2>3 DEF Clean
  <2>5. CASE Head(outputIn) = Null
    <3>1. FrontReady' = FrontReady /\ Joining
      BY <1>3, <2>1, <2>3, <2>5 DEF FrontReady
    <3> QED BY <1>1, <2>1, <2>2, <2>3, <2>4, <2>5, <3>1 DEF OutputPool
  <2>6. CASE Head(outputIn) # Null
    <3>1. Head(outputIn) \in Requests
      BY <1>1, <2>1, WaitingTail
    <3>2. outputHeld' \in [{Writer} -> Requests] /\ outputHeld'[Writer] = Head(outputIn)
      BY <1>1, <2>1, <2>6, <3>1
    <3> QED BY <1>1, <2>1, <2>2, <2>3, <2>4, <2>6, <3>2 DEF OutputPool
  <2> QED BY <2>5, <2>6
<1>8. CASE FlushFront
  <2>1. UNCHANGED <<outputIn, outputHeld, outputLive, pc>> /\ outputHeld[Writer] # Null
    BY <1>8 DEF FlushFront, outputPool, reader
  <2>2. Joining' = Joining
    BY <2>1 DEF Joining
  <2> QED BY <1>1, <2>1, <2>2 DEF OutputPool
<1>9. CASE OutputDone
  <2>1. /\ UNCHANGED <<outputIn, outputLive, pc, ordering>> /\ ~FrontReady
        /\ outputHeld' = [outputHeld EXCEPT ![Writer] = Null]
    BY <1>9 DEF OutputDone, Outputs!Handled, reader, writer
  <2>2. Joining' = Joining /\ FrontReady' = FrontReady
    BY <2>1 DEF Joining, FrontReady
  <2>3. outputHeld' \in [{Writer} -> Requests] /\ outputHeld'[Writer] = Null
    BY <1>1, <2>1 DEF Requests
  <2> QED BY <1>1, <2>1, <2>2, <2>3 DEF OutputPool
<1>10. CASE Reader /\ ~PoisonOutput
  <2>1. UNCHANGED <<outputIn, outputHeld, outputLive, ordering>>
    BY <1>10 DEF Reader, ReadLine, EndOrder, SkipFlush, FlushInput, AwaitBatch, NewInput, Collect, EndLength,
               MoveRead, PoisonFilters, JoinFilters, JoinOutput, outputPool, writer
  <2> QED BY <1>4, <2>1
<1>11. CASE (\E w \in Threads : FilterNext(w) \/ FilterConsume(w)) \/ UNCHANGED vars
  BY <1>4, <1>11 DEF FilterNext, FilterConsume, vars, outputPool, writer
<1> QED BY <1>5, <1>6, <1>7, <1>8, <1>9, <1>10, <1>11 DEF Next, Finished

---------------------------------------------------------------------------
\* How much of a batch is filtered after every step.

LEMMA InOnePlace ==
  ASSUME IInv, NEW b \in Batches
  PROVE  /\ Count(filterIn, b) # 0 => Home(b) = 0
         /\ Count(outputIn, b) # 0 \/ Count(ordering, b) # 0 =>
              Home(b) = 0 /\ ~\E w \in Threads : filterHeld[w] = b
         /\ \A w \in Threads : filterHeld[w] = b =>
              /\ Home(b) = 0 /\ Count(filterIn, b) = 0 /\ Count(outputIn, b) = 0 /\ Count(ordering, b) = 0
              /\ \A v \in Threads : filterHeld[v] = b => v = w
<1>1. /\ Count(localRead, b) \in Nat /\ Count(toRead, b) \in Nat
      /\ Count(filterIn, b) \in Nat /\ Count(filterHeld, b) \in Nat
      /\ Count(outputIn, b) \in Nat /\ Count(ordering, b) \in Nat
  BY Counted DEF IInv
<1>2. Home(b) + Count(filterIn, b) + Count(filterHeld, b) + Count(outputIn, b) + Count(ordering, b) = 1
      /\ Home(b) \in Nat
  BY <1>1 DEF IInv, Owned, Home, Away
<1>3. IsFiniteSet(At(filterHeld, b)) /\ DOMAIN filterHeld = Threads
  BY CountType, ControllerAssumption DEF IInv, Types, Holding
<1>4. ASSUME NEW w \in Threads, filterHeld[w] = b PROVE Count(filterHeld, b) >= 1
  BY <1>3, <1>4, CountType, ControllerAssumption
<1>5. ASSUME NEW w \in Threads, NEW v \in Threads, filterHeld[w] = b, filterHeld[v] = b PROVE v = w
  <2>1. SUFFICES ASSUME v # w PROVE FALSE
    OBVIOUS
  <2>2. {w} \cup {v} \subseteq At(filterHeld, b)
    BY <1>3, <1>5 DEF At
  <2>3. IsFiniteSet({w}) /\ Cardinality({w}) = 1 /\ v \notin {w}
    BY <2>1, FS_Singleton
  <2>4. Cardinality({w} \cup {v}) = Cardinality({w}) + 1
    BY <2>3, FS_AddElement
  <2>5. Cardinality({w} \cup {v}) <= Cardinality(At(filterHeld, b))
    BY <1>3, <2>2, FS_Subset
  <2>6. Count(filterHeld, b) >= 2
    BY <1>1, <2>3, <2>4, <2>5 DEF Count
  <2> QED BY <1>1, <1>2, <2>6
<1>6. Count(filterHeld, b) >= 1 =>
        Home(b) = 0 /\ Count(filterIn, b) = 0 /\ Count(outputIn, b) = 0 /\ Count(ordering, b) = 0
  BY <1>1, <1>2
<1>7. /\ Count(filterIn, b) # 0 => Home(b) = 0
      /\ Count(outputIn, b) # 0 \/ Count(ordering, b) # 0 => Home(b) = 0
  BY <1>1, <1>2
<1> QED BY <1>4, <1>5, <1>6, <1>7

\* A batch that is partly filtered is on its way.
LEMMA FilteredAway ==
  ASSUME IInv, NEW b \in Batches, NEW k, Filtered(b, k), k # 0
  PROVE  Home(b) = 0
  BY InOnePlace DEF Filtered

LEMMA StartGrows ==
  ASSUME IInv, Inputs, Reads, Contained, [Next]_vars, NEW b \in Batches
  PROVE  /\ Start(b) \in Int /\ Start(b)' \in Int /\ Start(b) <= Start(b)'
         /\ job' = job
         /\ Home(b) = 0 => input'[b] = input[b]
<1>1. Start(b) \in Int /\ Given \in Int
  BY FilledLines, Typed DEF Start
<1>2. ASSUME job' = job, Given' = Given, Home(b)' = Home(b), Home(b) = 0 => input'[b] = input[b]
      PROVE  /\ Start(b)' \in Int /\ Start(b) <= Start(b)' /\ job' = job
             /\ Home(b) = 0 => input'[b] = input[b]
  <2>1. Start(b)' = Start(b)
    BY <1>2 DEF Start, LineAt
  <2> QED BY <1>1, <1>2, <2>1
<1>3. CASE Quiet
  <2>1. job' = job /\ Given' = Given /\ Home(b)' = Home(b) /\ input' = input
    BY <1>3 DEF Quiet
  <2> QED BY <1>1, <1>2, <2>1
<1>4. CASE ReadLine
  <2>1. job' = job /\ Given' = Given /\ Home(b)' = Home(b) /\ (Home(b) = 0 => input'[b] = input[b])
    BY <1>4, ReadLineSteps, Typed
  <2> QED BY <1>1, <1>2, <2>1
<1>5. CASE NewInput
  <2>1. job' = job /\ Given' = Given /\ Home(b)' = Home(b) /\ (Home(b) = 0 => input'[b] = input[b])
    BY <1>5, NewInputSteps, OpenTopSteps
  <2> QED BY <1>1, <1>2, <2>1
<1>6. CASE EndLength
  <2>1. job' = job /\ Given' = Given /\ Home(b)' = Home(b) /\ (Home(b) = 0 => input'[b] = input[b])
    BY <1>6, EndLengthSteps, OpenTopSteps
  <2> QED BY <1>1, <1>2, <2>1
<1>7. CASE FlushInput
  <2>1. /\ job' = job /\ input' = input /\ Given' = line /\ line = Given + Size(Top)
        /\ Size(Top) \in 1 .. BatchSize /\ Given \in Nat /\ BatchSize \in Nat
        /\ \A i \in 1 .. Size(Top) : LineAt(Top, i) = Given + i
    BY <1>7, FlushInputSteps, Typed
  <2>2. /\ Top \in Batches /\ Home(Top) = 1
        /\ Home(b)' = (IF b = Top THEN 0 ELSE Home(b))
    BY <1>7, FlushInputHome
  <2>3. LineAt(b, 1)' = LineAt(b, 1)
    BY <2>1 DEF LineAt
  <2>4. CASE b = Top
    <3>1. LineAt(b, 1) = Given + 1
      BY <2>1, <2>4
    <3>2. Start(b) = Given /\ Start(b)' = Given
      BY <2>1, <2>2, <2>3, <2>4, <3>1 DEF Start
    <3> QED BY <1>1, <2>1, <3>2
  <2>5. CASE b # Top
    <3>1. Start(b)' = (IF Home(b) = 0 THEN Start(b) ELSE line)
      BY <2>1, <2>2, <2>3, <2>5 DEF Start
    <3>2. Home(b) # 0 => Start(b) = Given
      BY DEF Start
    <3> QED BY <1>1, <2>1, <3>1, <3>2
  <2> QED BY <2>4, <2>5
<1>8. CASE FlushFront
  <2>1. PICK f : f = Head(ordering)
    OBVIOUS
  <2>2. job' = job /\ input' = input /\ Given' = Given
    BY <1>8, FlushFrontSteps
  <2>3. f \in Batches /\ Home(f) = 0 /\ Home(b)' = (IF b = f THEN 1 ELSE Home(b))
    BY <1>8, <2>1, FlushFrontHome
  <2>4. CASE b # f
    BY <1>1, <1>2, <2>2, <2>3, <2>4
  <2>5. CASE b = f
    <3>1. Start(b) = LineAt(b, 1) - 1 /\ Start(b)' = Given
      BY <2>2, <2>3, <2>5 DEF Start
    <3>2. LineAt(b, 1) \in Nat /\ LineAt(b, 1) <= LineAt(b, Size(b)) /\ LineAt(b, Size(b)) \in Nat
          /\ LineAt(b, Size(b)) <= Given
      BY <2>3, <2>5, FilledLines
    <3> QED BY <1>1, <2>2, <3>1, <3>2
  <2> QED BY <2>4, <2>5
<1> QED BY <1>1, <1>3, <1>4, <1>5, <1>6, <1>7, <1>8, QuietSteps

\* What is known of a batch does not change while its lines and records do not.
LEMMA KnownStays ==
  ASSUME NEW b, NEW k \in Nat, Known(b, k), job' = job, buffer'[b] = buffer[b],
         Start(b) \in Int, Start(b)' \in Int, Start(b) <= Start(b)',
         \A i \in 1 .. k : LineAt(b, i)' = LineAt(b, i) /\ Room(b, i)' = Room(b, i)
  PROVE  Known(b, k)'
<1>1. \A l : (Verdict(l)' = Verdict(l)) /\ (Solo(l)' <=> Solo(l))
  BY DEF Verdict, Solo, Single
<1>2. Annotated(b, k)'
  <2>1. Annotated(b, k)
    BY DEF Known
  <2> QED BY <1>1, <2>1 DEF Annotated
<1>3. \A i \in Nat : i >= 1 /\ NoneFrom(b, i, k) => NoneFrom(b, i, k)'
  BY <1>1 DEF NoneFrom
<1>4. CASE buffer[b].last = NoPiece
  BY <1>2, <1>4 DEF Known, Remembers
<1>5. CASE Latest(b, buffer[b].last[1], k)
  <2> DEFINE i == buffer[b].last[1]
  <2>1. i \in 1 .. k /\ Solo(LineAt(b, i)) /\ NoneFrom(b, i + 1, k)
        /\ buffer[b].last[2] = Room(b, i) /\ buffer[b].last[3] = Length(LineAt(b, i))
    BY <1>5 DEF Latest
  <2>2. i' = i /\ LineAt(b, i)' = LineAt(b, i) /\ Room(b, i)' = Room(b, i)
    <3>1. i' = i
      OBVIOUS
    <3>2. LineAt(b, i)' = input'[b].text[i] /\ \A y \in 1 .. k : input'[b].text[y] = input[b].text[y]
      BY <3>1 DEF LineAt
    <3>3. Room(b, i)' = input'[b].capacity[i]
          /\ \A y \in 1 .. k : input'[b].capacity[y] = input[b].capacity[y]
      BY <3>1 DEF Room
    <3> QED BY <2>1, <3>1, <3>2, <3>3 DEF LineAt, Room
  <2>3. NoneFrom(b, i + 1, k)'
    BY <1>3, <2>1, <2>2
  <2>4. Latest(b, i, k)'
    BY <1>1, <2>1, <2>2, <2>3 DEF Latest
  <2> QED BY <1>2, <2>4 DEF Known, Remembers
<1>6. CASE Left(b, buffer[b].last[1], k)
  <2> DEFINE i == buffer[b].last[1]
  <2>1. i \in 1 .. BatchSize /\ NoneFrom(b, 1, k)
    BY <1>6 DEF Left
  <2>2. PICK l \in Nat : buffer[b].last[3] = Length(l) /\ Old(l, i, Start(b))
    BY <1>6 DEF Left
  <2>3. Old(l, i, Start(b))'
    <3>1. l <= Start(b)'
      BY <2>2 DEF Old
    <3>2. PICK m \in DOMAIN Ends : /\ Cut(job, m, l - i) /\ l \in BatchOf(job, m, l - i) /\ Solo(l)
                                   /\ \A x \in BatchOf(job, m, l - i) : x > l => ~Solo(x)
      BY <2>2 DEF Old
    <3>3. Ends' = Ends /\ i' = i
      BY DEF Ends
    <3>4. /\ m \in DOMAIN Ends' /\ Cut(job', m, l - i) /\ l \in BatchOf(job', m, l - i) /\ Solo(l)'
          /\ \A x \in BatchOf(job', m, l - i) : x > l => ~Solo(x)'
      BY <1>1, <3>2, <3>3
    <3> QED BY <3>1, <3>3, <3>4 DEF Old
  <2>4. Left(b, i, k)'
    BY <1>3, <2>1, <2>2, <2>3 DEF Left
  <2> QED BY <1>2, <2>4 DEF Known, Remembers
<1> QED BY <1>4, <1>5, <1>6 DEF Known, Remembers

\* No line of a batch is taken for the one last_ points at: that one is in another
\* string, where its text is in place, or it is of an earlier batch and of another
\* length, wherever the two texts are.
LEMMA NotMistaken ==
  ASSUME IInv, Inputs, Contained, NEW b \in Batches, Home(b) = 0, NEW k \in Nat, Remembers(b, k),
         k + 1 \in 1 .. Size(b), Solo(LineAt(b, k + 1))
  PROVE  \A same \in SameData(input[b], buffer[b].last, Piece(input[b], k + 1)) :
           ~(same /\ SameLength(buffer[b].last, Piece(input[b], k + 1)))
<1> DEFINE i == k + 1
           l == LineAt(b, i)
           d == LineAt(b, 1) - 1
           p == buffer[b].last
           j == p[1]
<1> SUFFICES ASSUME NEW same \in SameData(input[b], p, Piece(input[b], i)), same,
                    SameLength(p, Piece(input[b], i))
             PROVE  FALSE
  OBVIOUS
<1>1. p[3] = Length(l) /\ Piece(input[b], i)[1] = i
  BY DEF Piece, LineAt, SameLength
<1>2. p # NoPiece
  BY DEF SameData
<1>3. ~Latest(b, j, k)
  <2>1. CASE Latest(b, j, k)
    <3>1. j \in 1 .. k /\ p[2] = Room(b, j)
      BY <2>1 DEF Latest
    <3>2. SameData(input[b], p, Piece(input[b], i)) = {i = j}
      BY <1>1, <1>2, <3>1 DEF SameData, Room
    <3>3. i # j
      BY <3>1
    <3> HIDE DEF i, j
    <3> QED BY <3>2, <3>3, ZenonT(30)
  <2> QED BY <2>1
<1>4. Left(b, j, k)
  BY <1>2, <1>3 DEF Remembers
<1>5. PICK o \in Nat : Length(o) = Length(l) /\ Old(o, j, Start(b))
  BY <1>1, <1>4 DEF Left
<1> DEFINE c == o - j
<1>6. o <= Start(b) /\ Start(b) = d
  BY <1>5 DEF Old, Start
<1>7. PICK m \in DOMAIN Ends : /\ Cut(job, m, c) /\ o \in BatchOf(job, m, c) /\ Solo(o)
                               /\ \A x \in BatchOf(job, m, c) : x > o => ~Solo(x)
  BY <1>5 DEF Old
<1>8. /\ Size(b) \in 1 .. BatchSize /\ LineAt(b, 1) \in Nat \ {0}
      /\ \A x \in 1 .. Size(b) : LineAt(b, x) = LineAt(b, 1) + x - 1
  BY FilledLines
<1>9. PICK n \in 1 .. length : Whole(n, d, Size(b))
  BY FilledLines
<1>10. /\ n \in DOMAIN Ends /\ Cut(job, n, d) /\ d + Size(b) <= Ends[n]
  BY <1>9 DEF Whole
<1>11. /\ Ends = job.ends /\ Ends[m] \in Nat /\ Ends[n] \in Nat /\ BatchSize \in Nat /\ i \in 1 .. Size(b)
       /\ i \in 1 .. BatchSize /\ job \in Jobs
  <2>1. BatchSize \in Nat /\ Ends = job.ends /\ Ends[m] \in Nat /\ Ends[n] \in Nat
    BY <1>7, <1>10, Typed
  <2>2. i \in 1 .. BatchSize
    BY <1>8, <2>1
  <2> QED BY <2>1, <2>2 DEF Inputs
<1>12. d \in Nat /\ l = d + i /\ c \in Int /\ c < d
  <2>1. j \in 1 .. BatchSize
    BY <1>4 DEF Left
  <2> HIDE DEF j
  <2> QED BY <1>6, <1>8, <1>11, <2>1
<1>13. IsLast(job, m, c, o) /\ o \in BatchOf(job, m, c)
  BY <1>7 DEF IsLast, Solo
<1>14. IsFirst(job, n, d, d + i) /\ d + i \in BatchOf(job, n, d)
  <2>1. d + i \in BatchOf(job, n, d)
    BY <1>8, <1>10, <1>11, <1>12 DEF BatchOf
  <2>2. Single(job, d + i)
    BY <1>12 DEF Solo
  <2>3. ASSUME NEW x \in BatchOf(job, n, d), x < d + i PROVE ~Single(job, x)
    <3>1. x \in d + 1 .. d + BatchSize
      BY DEF BatchOf
    <3>2. PICK y \in 1 .. k : y = x - d
      BY <1>11, <1>12, <2>3, <3>1
    <3>3. y \in 1 .. Size(b) /\ LineAt(b, y) = x
      BY <1>8, <1>11, <1>12, <3>1, <3>2
    <3>4. ~Solo(LineAt(b, y))
      BY <1>4 DEF Left, NoneFrom
    <3> QED BY <3>3, <3>4 DEF Solo
  <2> QED BY <2>1, <2>2, <2>3 DEF IsFirst
<1>15. c \in 0 .. Ends[m] /\ d \in 0 .. Ends[n]
  <2>1. StartOf(job, m) \in Nat /\ StartOf(job, n) \in Nat
    BY <1>7, <1>10, <1>11, CutStart
  <2>2. c \in StartOf(job, m) .. Ends[m] /\ d \in StartOf(job, n) .. Ends[n]
    BY <1>7, <1>10, <1>11 DEF Cut
  <2> QED BY <1>11, <2>1, <2>2
<1>16. Length(o) # Length(d + i)
  <2>1. NoneMistaken(job)
    BY DEF Inputs, Meant
  <2> HIDE DEF c, d, i, l, j, p
  <2> QED BY <1>7, <1>10, <1>11, <1>12, <1>13, <1>14, <1>15, <2>1 DEF NoneMistaken
<1> QED BY <1>5, <1>12, <1>16

\* The step of a filter thread, for the line it is at.
LEMMA FilterNextSteps ==
  ASSUME IInv, Inputs, Contained, Buffers, NEW w \in Threads, FilterNext(w)
  PROVE  LET b == filterHeld[w]
             i == filtered[w] + 1
         IN  /\ b \in Batches /\ Home(b) = 0 /\ filtered[w] \in Nat /\ i \in 1 .. Size(b)
             /\ Known(b, filtered[w])
             /\ \E same \in SameData(input[b], buffer[b].last, Piece(input[b], i)) :
                  buffer' = [buffer EXCEPT ![b] = FilterLine(@, Verdict(LineAt(b, i)), Piece(input[b], i), same)]
             /\ filtered' = [filtered EXCEPT ![w] = i]
             /\ UNCHANGED <<reader, toRead, number, input, filterIn, filterHeld, outputIn, ordering, base, file>>
<1> DEFINE b == filterHeld[w]
           i == filtered[w] + 1
<1>1. /\ b # Null /\ filtered[w] < Size(b)
      /\ \E same \in SameData(input[b], buffer[b].last, Piece(input[b], i)) :
           buffer' = [buffer EXCEPT ![b] = FilterLine(@, Verdict(LineAt(b, i)), Piece(input[b], i), same)]
      /\ filtered' = [filtered EXCEPT ![w] = i]
      /\ UNCHANGED <<reader, toRead, number, input, filterIn, filterHeld, outputIn, ordering, base, file>>
  BY DEF FilterNext, Size, LineAt, outputPool, writer
<1>2. b \in Batches
  BY <1>1 DEF IInv, Types, Holding, Requests
<1>3. Home(b) = 0
  BY <1>2, InOnePlace
<1>4. filtered[w] \in Nat
  BY DEF Buffers
<1>5. Filtered(b, filtered[w])
  BY DEF Filtered
<1>6. Known(b, filtered[w])
  BY <1>2, <1>4, <1>5 DEF Buffers
<1>7. i \in 1 .. Size(b)
  BY <1>1, <1>2, <1>4, Typed, SMTT(30)
<1> QED BY <1>1, <1>2, <1>3, <1>4, <1>6, <1>7

\* A record for the line after the first k, or none if no system wants it.
LEMMA AnnotatedNext ==
  ASSUME IInv, Inputs, NEW b \in Batches, NEW k \in Nat, Annotated(b, k), k + 1 \in 1 .. Size(b),
         job' = job, input' = input, buffer' \in [Batches -> OutputBuffers],
         NEW v, v = Verdict(LineAt(b, k + 1)),
         IF v = {} THEN buffer'[b].annotated = buffer[b].annotated
         ELSE buffer'[b].annotated = Append(buffer[b].annotated,
                                            [systems |-> IF v = All THEN {} ELSE v,
                                             line |-> Piece(input[b], k + 1)])
  PROVE  Annotated(b, k + 1)'
<1> DEFINE a == buffer[b].annotated
           r == [systems |-> IF v = All THEN {} ELSE v, line |-> Piece(input[b], k + 1)]
           L(x) == LineAt(b, x)
<1>1. /\ \A x, y \in 1 .. Len(a) : x < y => a[x].line[1] < a[y].line[1]
      /\ \A x \in 1 .. Len(a) :
           /\ a[x].line[1] \in 1 .. k /\ Verdict(L(a[x].line[1])) # {}
           /\ a[x].systems = IF Verdict(L(a[x].line[1])) = All THEN {} ELSE Verdict(L(a[x].line[1]))
      /\ \A i \in 1 .. k : Verdict(L(i)) # {} => \E x \in 1 .. Len(a) : a[x].line[1] = i
  BY DEF Annotated
<1>2. \A x : L(x)' = L(x) /\ Verdict(x)' = Verdict(x)
  BY DEF LineAt, Verdict
<1>3. a \in Seq(Records) /\ Len(a) \in Nat
  BY DEF Inputs, OutputBuffers
<1>4. CASE v = {}
  <2>1. a' = a
    BY <1>4
  <2>2. \A i \in 1 .. k + 1 : Verdict(L(i)) # {} => i \in 1 .. k
    BY <1>4
  <2>3. \A x \in 1 .. Len(a) : a[x].line[1] \in 1 .. k + 1
    BY <1>1
  <2> HIDE DEF a, L
  <2>4. \A x, y \in 1 .. Len(a') : x < y => a'[x].line[1] < a'[y].line[1]
    BY <1>1, <2>1
  <2>5. \A x \in 1 .. Len(a') :
          /\ a'[x].line[1] \in 1 .. k + 1 /\ Verdict(L(a'[x].line[1])) # {}
          /\ a'[x].systems = IF Verdict(L(a'[x].line[1])) = All THEN {} ELSE Verdict(L(a'[x].line[1]))
    BY <1>1, <2>1, <2>3
  <2>6. \A i \in 1 .. k + 1 : Verdict(L(i)) # {} => \E x \in 1 .. Len(a') : a'[x].line[1] = i
    BY <1>1, <2>1, <2>2
  <2>7. a' = buffer'[b].annotated /\ \A x : LineAt(b, x)' = L(x)
    BY <1>2 DEF a, L
  <2>8. (\A x, y \in 1 .. Len(buffer[b].annotated) :
           x < y => buffer[b].annotated[x].line[1] < buffer[b].annotated[y].line[1])'
    BY <2>4, <2>7
  <2>9. (\A x \in 1 .. Len(buffer[b].annotated) :
           LET l == LineAt(b, buffer[b].annotated[x].line[1])
           IN  /\ buffer[b].annotated[x].line[1] \in 1 .. k + 1 /\ Verdict(l) # {}
               /\ buffer[b].annotated[x].systems = IF Verdict(l) = All THEN {} ELSE Verdict(l))'
    BY <1>2, <2>5, <2>7
  <2>10. (\A i \in 1 .. k + 1 :
            Verdict(LineAt(b, i)) # {} => \E x \in 1 .. Len(buffer[b].annotated) : buffer[b].annotated[x].line[1] = i)'
    BY <1>2, <2>6, <2>7
  <2> QED BY <2>8, <2>9, <2>10 DEF Annotated
<1>5. CASE v # {}
  <2>1. a' = Append(a, r)
    BY <1>5
  <2>2. /\ Len(a') = Len(a) + 1 /\ a'[Len(a) + 1] = r
        /\ \A x \in 1 .. Len(a) : a'[x] = a[x]
    <3> HIDE DEF a, r
    <3> QED BY <1>3, <2>1
  <2>3. r.line[1] = k + 1 /\ r.systems = (IF v = All THEN {} ELSE v)
    BY DEF Piece
  <2> HIDE DEF a, r
  <2>4. ASSUME NEW x \in 1 .. Len(a'), NEW y \in 1 .. Len(a'), x < y
        PROVE  a'[x].line[1] < a'[y].line[1]
    <3>1. x \in 1 .. Len(a) /\ a'[x] = a[x] /\ a[x].line[1] \in 1 .. k
      BY <1>1, <1>3, <2>2, <2>4
    <3>2. CASE y \in 1 .. Len(a)
      BY <1>1, <2>2, <2>4, <3>1, <3>2
    <3>3. CASE y = Len(a) + 1
      BY <2>2, <2>3, <3>1, <3>3
    <3> QED BY <1>3, <2>2, <3>2, <3>3
  <2>5. ASSUME NEW x \in 1 .. Len(a')
        PROVE  /\ a'[x].line[1] \in 1 .. k + 1 /\ Verdict(L(a'[x].line[1])) # {}
               /\ a'[x].systems = IF Verdict(L(a'[x].line[1])) = All THEN {} ELSE Verdict(L(a'[x].line[1]))
    <3>1. CASE x \in 1 .. Len(a)
      <4>1. a'[x] = a[x] /\ a[x].line[1] \in 1 .. k + 1
        BY <1>1, <2>2, <3>1
      <4> QED BY <1>1, <3>1, <4>1
    <3>2. CASE x = Len(a) + 1
      BY <1>5, <2>2, <2>3, <3>2
    <3> QED BY <1>3, <2>2, <3>1, <3>2
  <2>6. ASSUME NEW i \in 1 .. k + 1, Verdict(L(i)) # {}
        PROVE  \E x \in 1 .. Len(a') : a'[x].line[1] = i
    <3>1. CASE i \in 1 .. k
      <4>1. PICK x \in 1 .. Len(a) : a[x].line[1] = i
        BY <1>1, <2>6, <3>1
      <4>2. x \in 1 .. Len(a')
        BY <1>3, <2>2
      <4> QED BY <2>2, <4>1, <4>2
    <3>2. CASE i = k + 1
      <4>1. Len(a) + 1 \in 1 .. Len(a')
        BY <1>3, <2>2
      <4> QED BY <2>2, <2>3, <3>2, <4>1
    <3> QED BY <3>1, <3>2
  <2> HIDE DEF L
  <2>7. a' = buffer'[b].annotated /\ \A x : LineAt(b, x)' = L(x)
    BY <1>2 DEF a, L
  <2>8. (\A x, y \in 1 .. Len(buffer[b].annotated) :
           x < y => buffer[b].annotated[x].line[1] < buffer[b].annotated[y].line[1])'
    BY <2>4, <2>7
  <2>9. (\A x \in 1 .. Len(buffer[b].annotated) :
           LET l == LineAt(b, buffer[b].annotated[x].line[1])
           IN  /\ buffer[b].annotated[x].line[1] \in 1 .. k + 1 /\ Verdict(l) # {}
               /\ buffer[b].annotated[x].systems = IF Verdict(l) = All THEN {} ELSE Verdict(l))'
    BY <1>2, <2>5, <2>7
  <2>10. (\A i \in 1 .. k + 1 :
            Verdict(LineAt(b, i)) # {} => \E x \in 1 .. Len(buffer[b].annotated) : buffer[b].annotated[x].line[1] = i)'
    BY <1>2, <2>6, <2>7
  <2> QED BY <2>8, <2>9, <2>10 DEF Annotated
<1> QED BY <1>4, <1>5

LEMMA RemembersNext ==
  ASSUME Inputs, NEW b, NEW k \in Nat, Remembers(b, k), k + 1 \in 1 .. Size(b),
         job' = job, input' = input, buffer'[b].last = buffer[b].last, Start(b)' = Start(b),
         ~Solo(LineAt(b, k + 1))
  PROVE  Remembers(b, k + 1)'
<1> DEFINE i == buffer[b].last[1]
<1>1. \A x, l : (Solo(x)' <=> Solo(x)) /\ LineAt(l, x)' = LineAt(l, x) /\ Ends' = Ends
  BY DEF Solo, Single, LineAt, Ends
<1>2. \A x \in Int : NoneFrom(b, x, k) => NoneFrom(b, x, k + 1)'
  <2>1. \A x \in Int : \A y \in x .. k + 1 : y \in x .. k \/ y = k + 1
    OBVIOUS
  <2> QED BY <1>1, <2>1 DEF NoneFrom
<1>3. CASE buffer[b].last = NoPiece
  BY <1>3 DEF Remembers
<1>4. CASE Latest(b, i, k)
  <2>1. i \in 1 .. k /\ Solo(LineAt(b, i)) /\ NoneFrom(b, i + 1, k)
        /\ buffer[b].last[2] = Room(b, i) /\ buffer[b].last[3] = Length(LineAt(b, i))
    BY <1>4 DEF Latest
  <2>2. i' = i /\ LineAt(b, i)' = LineAt(b, i) /\ (Solo(LineAt(b, i))' <=> Solo(LineAt(b, i)))
        /\ Room(b, i)' = Room(b, i)
    BY DEF LineAt, Solo, Single, Room
  <2>3. NoneFrom(b, i + 1, k + 1)'
    BY <1>2, <2>1, <2>2
  <2>4. Latest(b, i, k + 1)'
    BY <2>1, <2>2, <2>3 DEF Latest
  <2> QED BY <2>4 DEF Remembers
<1>5. CASE Left(b, i, k)
  <2>1. i \in 1 .. BatchSize /\ NoneFrom(b, 1, k) /\ i' = i
    BY <1>5 DEF Left
  <2>2. PICK l \in Nat : buffer[b].last[3] = Length(l) /\ Old(l, i, Start(b))
    BY <1>5 DEF Left
  <2>3. Old(l, i, Start(b))'
    BY <1>1, <2>1, <2>2 DEF Old
  <2>4. Left(b, i, k + 1)'
    BY <1>2, <2>1, <2>2, <2>3 DEF Left
  <2> QED BY <2>4 DEF Remembers
<1> QED BY <1>3, <1>4, <1>5 DEF Remembers

LEMMA FilterNextKnown ==
  ASSUME IInv, Inputs, Contained, Buffers, NEW w \in Threads, FilterNext(w),
         NEW b, b = filterHeld[w], NEW k, k = filtered[w]
  PROVE  /\ Known(b, k + 1)'
         /\ buffer' \in [Batches -> OutputBuffers]
         /\ \A c \in Batches \ {b} : buffer'[c] = buffer[c]
<1> DEFINE l == LineAt(b, k + 1)
           v == Verdict(l)
           p == Piece(input[b], k + 1)
           r == [systems |-> IF v = All THEN {} ELSE v, line |-> p]
           out == buffer[b]
<1>1. /\ b \in Batches /\ Home(b) = 0 /\ k \in Nat /\ k + 1 \in 1 .. Size(b) /\ Known(b, k)
      /\ \E same \in SameData(input[b], out.last, p) :
           buffer' = [buffer EXCEPT ![b] = FilterLine(out, v, p, same)]
      /\ UNCHANGED <<reader, toRead, input>>
  BY FilterNextSteps
<1> PICK same \in SameData(input[b], out.last, p) :
      buffer' = [buffer EXCEPT ![b] = FilterLine(out, v, p, same)]
  BY <1>1
<1> DEFINE new == FilterLine(out, v, p, same)
<1>2. /\ b \in Batches /\ Home(b) = 0 /\ k \in Nat /\ k + 1 \in 1 .. Size(b) /\ Known(b, k)
      /\ buffer' = [buffer EXCEPT ![b] = new]
      /\ UNCHANGED <<reader, toRead, input>>
  BY <1>1
<1>3. buffer \in [Batches -> OutputBuffers] /\ out \in OutputBuffers
  BY <1>2 DEF Inputs
<1>4. /\ out.annotated \in Seq(Records) /\ out.last \in Pieces /\ out.stray = FALSE
      /\ out = [annotated |-> out.annotated, last |-> out.last, stray |-> out.stray]
  BY <1>2, <1>3 DEF OutputBuffers, Known
<1>5. v \in Verdicts /\ p \in Pieces /\ r \in Records /\ l \in Nat
  <2>1. k + 1 \in 1 .. BatchSize /\ l \in Nat /\ k + 1 \in 0 .. BatchSize
    BY <1>2, Typed, SMTT(30)
  <2>2. v \in Verdicts
    BY <2>1 DEF Verdicts
  <2>3. input[b].capacity[k + 1] \in Lengths /\ Length(l) \in Lengths
    <3>1. input[b].capacity \in [1 .. BatchSize -> Lengths]
      BY <1>2 DEF Inputs, InputBuffers
    <3>2. Length(l) \in Lengths
      BY <2>1 DEF Lengths
    <3> QED BY <2>1, <3>1, <3>2
  <2>4. p \in Pieces
    BY <2>1, <2>3 DEF Piece, Pieces, LineAt
  <2> HIDE DEF v, p
  <2>5. {} \in Verdicts
    BY DEF Verdicts
  <2> QED BY <2>1, <2>2, <2>4, <2>5 DEF Records
<1>6. Solo(l) <=> v # All /\ v # {}
  BY DEF Solo, Single, Verdict
<1>7. Solo(l) => ~(same /\ SameLength(out.last, p))
  BY <1>2, NotMistaken DEF Known
<1>8. /\ new \in OutputBuffers /\ new.stray = FALSE
      /\ IF v = {} THEN new.annotated = out.annotated ELSE new.annotated = Append(out.annotated, r)
      /\ IF Solo(l) THEN new.last = p ELSE new.last = out.last
  <2> HIDE DEF l, v, p, out
  <2>1. CASE v = All
    <3>1. new = [annotated |-> Append(out.annotated, r), last |-> out.last, stray |-> out.stray]
      BY <1>4, <2>1 DEF FilterLine, AddNGram
    <3>2. v # {} /\ ~Solo(l)
      BY <1>6, <2>1, ControllerAssumption
    <3>3. Append(out.annotated, r) \in Seq(Records)
      BY <1>4, <1>5, AppendProperties
    <3> HIDE DEF new, r
    <3> QED BY <1>4, <3>1, <3>2, <3>3 DEF OutputBuffers
  <2>2. CASE v # All /\ v = {}
    <3>1. new = out
      BY <2>2 DEF FilterLine
    <3> QED BY <1>3, <1>4, <1>6, <2>2, <3>1
  <2>3. CASE v # All /\ v # {}
    <3>1. ~(same /\ SameLength(out.last, p)) /\ Solo(l)
      BY <1>6, <1>7, <2>3
    <3>2. new = [annotated |-> Append(out.annotated, r), last |-> p, stray |-> out.stray]
      BY <1>4, <2>3, <3>1 DEF FilterLine, SingleAddNGrams
    <3>3. Append(out.annotated, r) \in Seq(Records)
      BY <1>4, <1>5, AppendProperties
    <3> HIDE DEF new, r
    <3> QED BY <1>4, <1>5, <2>3, <3>1, <3>2, <3>3 DEF OutputBuffers
  <2> QED BY <2>1, <2>2, <2>3
<1>9. buffer'[b] = new
  BY <1>2, <1>3
<1>10. buffer' \in [Batches -> OutputBuffers] /\ \A c \in Batches \ {b} : buffer'[c] = buffer[c]
  <2> HIDE DEF new
  <2> QED BY <1>2, <1>3, <1>8
<1>11. job' = job
  BY <1>2 DEF reader
<1>12. Annotated(b, k + 1)'
  <2>1. IF v = {} THEN buffer'[b].annotated = buffer[b].annotated
        ELSE buffer'[b].annotated = Append(buffer[b].annotated, r)
    BY <1>8, <1>9
  <2>2. PICK u : u = v
    OBVIOUS
  <2> QED BY <1>2, <1>10, <1>11, <2>1, <2>2, AnnotatedNext DEF Known
<1>13. Start(b)' = Start(b) /\ l' = l /\ (Solo(l)' <=> Solo(l)) /\ Room(b, k + 1)' = Room(b, k + 1)
  <2>1. Home(b)' = Home(b) /\ Given' = Given
    BY <1>2 DEF Home, Given, Open, Size, Top, reader
  <2> QED BY <1>2, <1>11, <2>1 DEF Start, LineAt, Solo, Single, Room
<1>14. Remembers(b, k + 1)'
  <2>1. CASE Solo(l)
    <3>1. buffer'[b].last = p
      BY <1>8, <1>9, <2>1
    <3>2. p[1] = k + 1 /\ p[2] = Room(b, k + 1) /\ p[3] = Length(l)
      BY DEF Piece, LineAt, Room
    <3>3. NoneFrom(b, k + 1 + 1, k + 1)'
      BY <1>2 DEF NoneFrom
    <3>4. k + 1 \in 1 .. k + 1
      BY <1>2
    <3>5. Latest(b, k + 1, k + 1)'
      BY <1>13, <2>1, <3>1, <3>2, <3>3, <3>4 DEF Latest
    <3> QED BY <3>1, <3>2, <3>5 DEF Remembers
  <2>2. CASE ~Solo(l)
    <3>1. buffer'[b].last = buffer[b].last
      BY <1>8, <1>9, <2>2
    <3> QED BY <1>2, <1>11, <1>13, <2>2, <3>1, RemembersNext DEF Known
  <2> QED BY <2>1, <2>2
<1> QED BY <1>8, <1>9, <1>10, <1>12, <1>14 DEF Known

\* A batch that has been written keeps last_, which points at its last line for
\* single systems, if it had one.
LEMMA LatestIsOld ==
  ASSUME IInv, Inputs, Contained, NEW f \in Batches, Home(f) = 0, NEW i, Latest(f, i, Size(f))
  PROVE  i \in 1 .. BatchSize /\ LineAt(f, i) \in Nat /\ Old(LineAt(f, i), i, Given)
<1> DEFINE l == LineAt(f, i)
           c == LineAt(f, 1) - 1
<1>1. /\ Size(f) \in 1 .. BatchSize /\ LineAt(f, 1) \in Nat \ {0}
      /\ \A x \in 1 .. Size(f) : LineAt(f, x) = LineAt(f, 1) + x - 1
      /\ \A x \in 1 .. Size(f) : LineAt(f, x) \in Nat /\ LineAt(f, x) <= LineAt(f, Size(f))
      /\ LineAt(f, Size(f)) \in Nat /\ LineAt(f, Size(f)) <= Given
  BY FilledLines
<1>2. PICK m \in 1 .. length : Whole(m, c, Size(f))
  BY FilledLines
<1>3. i \in 1 .. Size(f) /\ Solo(l) /\ NoneFrom(f, i + 1, Size(f))
  BY DEF Latest
<1>4. /\ m \in DOMAIN Ends /\ Cut(job, m, c) /\ c + Size(f) <= Ends[m]
      /\ Size(f) = BatchSize \/ c + Size(f) = Ends[m]
  BY <1>2 DEF Whole
<1>5. BatchSize \in Nat /\ Ends = job.ends /\ Ends[m] \in Nat /\ Given \in Int
  BY <1>4, Typed
<1>6. l = c + i /\ l - i = c /\ c \in Nat /\ i \in 1 .. BatchSize /\ l \in Nat /\ l <= Given
  BY <1>1, <1>3, <1>5
<1>7. l \in BatchOf(job, m, c)
  <2>1. l \in c + 1 .. c + BatchSize /\ l <= Ends[m]
    BY <1>1, <1>3, <1>4, <1>5, <1>6
  <2> QED BY <1>5, <2>1 DEF BatchOf
<1>8. ASSUME NEW x \in BatchOf(job, m, c), x > l PROVE ~Solo(x)
  <2>1. x \in c + 1 .. c + BatchSize /\ x <= Ends[m]
    BY <1>5 DEF BatchOf
  <2>2. PICK y \in Int : y = x - c
    BY <1>6, <2>1
  <2>3. y \in i + 1 .. Size(f) /\ y \in 1 .. Size(f)
    BY <1>1, <1>3, <1>4, <1>5, <1>6, <1>8, <2>1, <2>2
  <2>4. LineAt(f, y) = x
    <3>1. x \in Int /\ LineAt(f, 1) \in Nat
      BY <1>1, <2>1
    <3>2. LineAt(f, y) = LineAt(f, 1) + y - 1
      BY <1>1, <2>3
    <3> QED BY <2>2, <3>1, <3>2
  <2>5. ~Solo(LineAt(f, y))
    BY <1>3, <2>3 DEF NoneFrom
  <2> QED BY <2>4, <2>5
<1> HIDE DEF l, c
<1>9. Old(l, i, Given)
  BY <1>3, <1>4, <1>6, <1>7, <1>8 DEF Old
<1> QED BY <1>6, <1>9 DEF l

LEMMA FlushFrontKnown ==
  ASSUME IInv, Inputs, Reads, Contained, Buffers, FlushFront, NEW f, f = Head(ordering)
  PROVE  /\ Known(f, 0)'
         /\ buffer' \in [Batches -> OutputBuffers]
         /\ \A c \in Batches \ {f} : buffer'[c] = buffer[c]
<1> DEFINE i == buffer[f].last[1]
<1>1. /\ f \in Batches /\ Home(f) = 0 /\ Count(ordering, f) # 0
      /\ buffer' = [buffer EXCEPT ![f] = AfterFlush(@)]
      /\ job' = job /\ input' = input /\ Given' = Given
  BY FlushFrontSteps
<1>2. Size(f) \in Nat
  BY <1>1, Typed
<1>3. Known(f, Size(f))
  BY <1>1, <1>2 DEF Buffers, Filtered
<1>4. buffer \in [Batches -> OutputBuffers] /\ buffer[f] \in OutputBuffers
  BY <1>1 DEF Inputs
<1>5. /\ buffer[f].annotated \in Seq(Records) /\ buffer[f].last \in Pieces
      /\ buffer[f].stray \in BOOLEAN
      /\ buffer[f] = [annotated |-> buffer[f].annotated, last |-> buffer[f].last,
                      stray |-> buffer[f].stray]
  BY <1>4 DEF OutputBuffers
<1>6. AfterFlush(buffer[f]) = [annotated |-> << >>, last |-> buffer[f].last,
                               stray |-> buffer[f].stray]
  BY <1>5 DEF AfterFlush
<1>7. AfterFlush(buffer[f]) \in OutputBuffers
  <2>1. << >> \in Seq(Records)
    OBVIOUS
  <2> QED BY <1>5, <1>6, <2>1 DEF OutputBuffers
<1>8. buffer' \in [Batches -> OutputBuffers] /\ \A c \in Batches \ {f} : buffer'[c] = buffer[c]
  BY <1>1, <1>4, <1>7
<1>9. buffer'[f] = [annotated |-> << >>, last |-> buffer[f].last, stray |-> buffer[f].stray]
  BY <1>1, <1>4, <1>6
<1>10. buffer'[f].annotated = << >> /\ buffer'[f].last = buffer[f].last /\ ~buffer'[f].stray
  BY <1>3, <1>9 DEF Known
<1>11. Annotated(f, 0)'
  <2>1. Len(buffer'[f].annotated) = 0
    BY <1>10
  <2> QED BY <2>1 DEF Annotated
<1>12. \A x, y, s : Old(x, y, s)' <=> Old(x, y, s)
  BY <1>1 DEF Old, Solo, Single, Ends
<1>13. Start(f)' = Given /\ NoneFrom(f, 1, 0)'
  <2>1. Home(f)' # 0
    BY FlushFrontHome
  <2> QED BY <1>1, <2>1 DEF Start, NoneFrom
<1>14. Remembers(f, 0)'
  <2>1. Remembers(f, Size(f)) /\ buffer'[f].last[1] = i
    BY <1>3, <1>10 DEF Known
  <2>2. CASE buffer[f].last = NoPiece
    BY <1>10, <2>2 DEF Remembers
  <2>3. CASE Latest(f, i, Size(f))
    <3>1. PICK l \in Nat : l = LineAt(f, i) /\ Old(l, i, Given) /\ i \in 1 .. BatchSize
      BY <1>1, <2>3, LatestIsOld
    <3>2. buffer'[f].last[3] = Length(l)
      BY <1>10, <2>3, <3>1 DEF Latest
    <3>3. Left(f, buffer[f].last[1], 0)'
      BY <1>10, <1>12, <1>13, <3>1, <3>2 DEF Left
    <3> QED BY <3>3 DEF Remembers
  <2>4. CASE Left(f, i, Size(f))
    <3>1. PICK l \in Nat : buffer[f].last[3] = Length(l) /\ Old(l, i, Start(f))
      BY <2>4 DEF Left
    <3>2. l <= Given /\ i \in 1 .. BatchSize
      <4>1. /\ LineAt(f, 1) \in Nat /\ LineAt(f, Size(f)) \in Nat
            /\ LineAt(f, 1) <= LineAt(f, Size(f)) /\ LineAt(f, Size(f)) <= Given
        BY <1>1, FilledLines
      <4>2. Start(f) = LineAt(f, 1) - 1 /\ l <= Start(f) /\ Given \in Int
        BY <1>1, <3>1, Typed DEF Start, Old
      <4> QED BY <2>4, <4>1, <4>2 DEF Left
    <3>3. Old(l, i, Given)
      BY <3>1, <3>2 DEF Old
    <3>4. Left(f, buffer[f].last[1], 0)'
      BY <1>10, <1>12, <1>13, <3>1, <3>2, <3>3 DEF Left
    <3> QED BY <3>4 DEF Remembers
  <2> QED BY <2>1, <2>2, <2>3, <2>4 DEF Remembers
<1> QED BY <1>8, <1>10, <1>11, <1>14 DEF Known

LEMMA CountsSum ==
  ASSUME IInv, NEW b \in Batches
  PROVE  /\ Home(b) \in Nat
         /\ Count(filterIn, b) \in Nat /\ Count(filterHeld, b) \in Nat
         /\ Count(outputIn, b) \in Nat /\ Count(ordering, b) \in Nat
         /\ Home(b) + Count(filterIn, b) + Count(filterHeld, b) + Count(outputIn, b) + Count(ordering, b) = 1
<1>1. /\ Count(localRead, b) \in Nat /\ Count(toRead, b) \in Nat
      /\ Count(filterIn, b) \in Nat /\ Count(filterHeld, b) \in Nat
      /\ Count(outputIn, b) \in Nat /\ Count(ordering, b) \in Nat
  BY Counted DEF IInv
<1> QED BY <1>1 DEF IInv, Owned, Home, Away

\* A batch of which as much is filtered as before.
LEMMA FilteredSame ==
  ASSUME NEW b \in Batches, NEW k \in Nat, Filtered(b, k)', IInv,
         Home(b) = 0 => input'[b] = input[b],
         Home(b)' # 0 => Home(b) # 0,
         Count(filterIn', b) # 0 => Count(filterIn, b) # 0 \/ Home(b) # 0,
         \A v \in Threads : filterHeld'[v] = b => filterHeld[v] = b /\ filtered'[v] = filtered[v],
         Count(outputIn', b) # 0 \/ Count(ordering', b) # 0 =>
           Count(outputIn, b) # 0 \/ Count(ordering, b) # 0
  PROVE  Filtered(b, k)
<1>1. CASE k = 0 /\ (Home(b)' # 0 \/ Count(filterIn', b) # 0)
  BY <1>1 DEF Filtered
<1>2. CASE \E w \in Threads : filterHeld'[w] = b /\ k = filtered'[w]
  BY <1>2 DEF Filtered
<1>3. CASE k = Size(b)' /\ (Count(outputIn', b) # 0 \/ Count(ordering', b) # 0)
  <2>1. Home(b) = 0
    BY <1>3, InOnePlace
  <2>2. Size(b)' = Size(b)
    BY <2>1 DEF Size
  <2> QED BY <1>3, <2>2 DEF Filtered
<1> QED BY <1>1, <1>2, <1>3 DEF Filtered

LEMMA ReaderFiltered ==
  ASSUME IInv, Inputs, Reads, Contained, Reader, NEW b \in Batches, NEW k \in Nat, Filtered(b, k)'
  PROVE  Filtered(b, k) /\ buffer'[b] = buffer[b]
<1> USE DEF batches, filterPool, outputPool
<1>1. Home(b) = 0 => input'[b] = input[b]
  BY StartGrows DEF Next
<1>2. CASE FlushInput
  <2>1. Home(b)' # 0 => Home(b) # 0
    BY <1>2, FlushInputHome
  <2>2. Count(filterIn', b) # 0 => Count(filterIn, b) # 0 \/ Home(b) # 0
    <3>1. Top \in Requests /\ filterIn \in Waiting /\ filterIn' = Append(filterIn, Top) /\ Home(Top) = 1
      BY <1>2, FlushInputHome DEF IInv, Types, Requests, FlushInput, Filters!Produce
    <3>2. Count(filterIn', b) = Count(filterIn, b) + Is(Top, b)
      BY <3>1, WaitingAppend
    <3> QED BY <3>1, <3>2, CountsSum DEF Is
  <2>3. UNCHANGED <<filterHeld, filtered, outputIn, ordering, buffer>>
    BY <1>2 DEF FlushInput, Filters!Produce, writer
  <2> QED BY <1>1, <2>1, <2>2, <2>3, FilteredSame
<1>3. CASE PoisonFilters \/ PoisonOutput
  <2>1. /\ \/ filterIn' = Append(filterIn, Null) /\ outputIn' = outputIn
           \/ filterIn' = filterIn /\ outputIn' = Append(outputIn, Null)
        /\ UNCHANGED <<localRead, toRead, filterHeld, filtered, ordering, buffer>>
    BY <1>3 DEF PoisonFilters, PoisonOutput, Filters!ProducePoison, Outputs!ProducePoison,
               reader, writer
  <2>2. filterIn \in Waiting /\ outputIn \in Waiting /\ Null \in Requests
    BY DEF IInv, Types, Requests
  <2>3. /\ Count(Append(filterIn, Null), b) = Count(filterIn, b) + Is(Null, b)
        /\ Count(Append(outputIn, Null), b) = Count(outputIn, b) + Is(Null, b)
    BY <2>2, WaitingAppend
  <2>4. Is(Null, b) = 0
    BY ControllerAssumption DEF Is
  <2>5. Count(filterIn', b) = Count(filterIn, b) /\ Count(outputIn', b) = Count(outputIn, b)
    <3>1. /\ Count(Append(filterIn, Null), b) = Count(filterIn, b)
          /\ Count(Append(outputIn, Null), b) = Count(outputIn, b)
      BY <2>3, <2>4, CountsSum
    <3> QED BY <2>1, <3>1
  <2>6. Home(b)' = Home(b)
    BY <2>1 DEF Home
  <2> QED BY <1>1, <2>1, <2>5, <2>6, FilteredSame
<1>4. CASE AwaitBatch \/ Collect
  <2>1. MoveRead /\ UNCHANGED <<filterIn, filterHeld, filtered, outputIn, ordering, buffer>>
    BY <1>4 DEF AwaitBatch, Collect, MoveRead, writer
  <2>2. Home(b)' = Home(b)
    BY <2>1, MoveReadHome
  <2> QED BY <1>1, <2>1, <2>2, FilteredSame
<1>5. CASE NewInput \/ EndLength
  <2>1. UNCHANGED <<localRead, toRead, filterIn, filterHeld, filtered, outputIn, ordering, buffer>>
    BY <1>5 DEF NewInput, EndLength, OpenTop, writer
  <2>2. Home(b)' = Home(b)
    BY <2>1 DEF Home
  <2> QED BY <1>1, <2>1, <2>2, FilteredSame
<1>6. CASE ReadLine \/ EndOrder \/ SkipFlush \/ JoinFilters \/ JoinOutput
  <2>1. UNCHANGED <<localRead, toRead, filterIn, filterHeld, filtered, outputIn, ordering, buffer>>
    BY <1>6 DEF ReadLine, EndOrder, SkipFlush, JoinFilters, JoinOutput, writer
  <2>2. Home(b)' = Home(b)
    BY <2>1 DEF Home
  <2> QED BY <1>1, <2>1, <2>2, FilteredSame
<1> QED BY <1>2, <1>3, <1>4, <1>5, <1>6 DEF Reader

LEMMA FilterConsumeFiltered ==
  ASSUME IInv, Inputs, Reads, Contained, NEW w \in Threads, FilterConsume(w),
         NEW b \in Batches, NEW k \in Nat, Filtered(b, k)', filtered \in [Threads -> Nat]
  PROVE  Filtered(b, k) /\ buffer'[b] = buffer[b]
<1>1. /\ filterIn # << >> /\ filterIn' = Tail(filterIn) /\ filterHeld[w] = Null
      /\ Head(filterIn) = Null => filterHeld' = filterHeld
      /\ Head(filterIn) # Null => filterHeld' = [filterHeld EXCEPT ![w] = Head(filterIn)]
      /\ filtered' = [filtered EXCEPT ![w] = 0]
      /\ UNCHANGED <<localRead, toRead, input, buffer, outputIn, ordering>>
  BY DEF FilterConsume, Filters!Consume, reader, batches, outputPool, writer
<1>2. /\ filterHeld \in Holding /\ Head(filterIn) \in Requests
      /\ Count(filterIn', b) = Count(filterIn, b) - Is(Head(filterIn), b)
  BY <1>1, WaitingTail DEF IInv, Types
<1>3. Home(b)' = Home(b)
  BY <1>1 DEF Home
<1>4. b # Null
  BY ControllerAssumption
<1>5. ASSUME NEW v \in Threads, v # w
      PROVE  filterHeld'[v] = filterHeld[v] /\ filtered'[v] = filtered[v]
  BY <1>1, <1>2, <1>5 DEF Holding
<1>6. Count(filterIn', b) # 0 => Count(filterIn, b) # 0
  <2>1. /\ Count(filterIn, b) \in Nat
        /\ Home(b) + Count(filterIn, b) + Count(filterHeld, b) + Count(outputIn, b) + Count(ordering, b) = 1
    BY CountsSum
  <2>2. Head(filterIn) = b => Count(filterIn, b) >= 1
    <3>1. Head(filterIn) = filterIn[1] /\ 1 \in 1 .. Len(filterIn)
      BY <1>1 DEF IInv, Types, Waiting
    <3> QED BY <3>1, CountSeq DEF IInv, Types, Waiting
  <2> QED BY <1>2, <2>1, <2>2 DEF Is
<1>7. CASE filterHeld'[w] = b
  <2>1. Head(filterIn) = b /\ filtered'[w] = 0
    BY <1>1, <1>2, <1>4, <1>7 DEF Holding
  <2>2. Head(filterIn) = filterIn[1] /\ 1 \in 1 .. Len(filterIn) /\ filterIn \in Seq(Requests)
    BY <1>1 DEF IInv, Types, Waiting
  <2>3. Count(filterIn, b) # 0 /\ Count(filterIn, b) \in Nat
    BY <2>1, <2>2, CountSeq
  <2>4. Home(b) = 0 /\ Count(outputIn, b) = 0 /\ Count(ordering, b) = 0 /\ Count(filterHeld, b) = 0
    BY <2>3, CountsSum
  <2>5. \A v \in Threads : filterHeld[v] # b
    BY <2>4, CountType, ControllerAssumption, <1>2 DEF Holding
  <2>6. k = 0
    BY <1>1, <1>3, <1>5, <2>1, <2>4, <2>5 DEF Filtered
  <2> QED BY <1>1, <2>3, <2>6 DEF Filtered
<1>8. CASE filterHeld'[w] # b
  BY <1>1, <1>3, <1>5, <1>6, <1>8, FilteredSame
<1> QED BY <1>7, <1>8

LEMMA FilterDoneFiltered ==
  ASSUME IInv, Inputs, Reads, Contained, NEW w \in Threads, FilterDone(w),
         NEW b \in Batches, NEW k \in Nat, Filtered(b, k)'
  PROVE  Filtered(b, k) /\ buffer'[b] = buffer[b]
<1>1. /\ filterHeld[w] # Null /\ filtered[w] = Size(filterHeld[w])
      /\ filterHeld' = [filterHeld EXCEPT ![w] = Null]
      /\ outputIn' = Append(outputIn, filterHeld[w])
      /\ UNCHANGED <<localRead, toRead, input, buffer, filterIn, filtered, ordering>>
  BY DEF FilterDone, Filters!Handled, Outputs!Produce, reader, batches, writer, Size
<1>2. /\ filterHeld \in Holding /\ filterHeld[w] \in Requests /\ outputIn \in Waiting
  BY DEF IInv, Types, Holding
<1>3. Count(outputIn', b) = Count(outputIn, b) + Is(filterHeld[w], b)
  BY <1>1, <1>2, WaitingAppend
<1>4. Home(b)' = Home(b)
  BY <1>1 DEF Home
<1>5. b # Null
  BY ControllerAssumption
<1>6. ASSUME NEW v \in Threads, filterHeld'[v] = b PROVE filterHeld[v] = b
  BY <1>1, <1>2, <1>5, <1>6 DEF Holding
<1>7. CASE filterHeld[w] = b
  <2>1. /\ Home(b) = 0 /\ Count(filterIn, b) = 0
        /\ \A v \in Threads : filterHeld[v] = b => v = w
    BY <1>7, InOnePlace
  <2>2. \A v \in Threads : filterHeld'[v] # b
    BY <1>1, <1>2, <1>5, <1>6, <2>1 DEF Holding
  <2>3. k = Size(b)'
    BY <1>1, <1>4, <2>1, <2>2 DEF Filtered
  <2>4. k = filtered[w]
    BY <1>1, <1>7, <2>3 DEF Size
  <2> QED BY <1>1, <1>7, <2>4 DEF Filtered
<1>8. CASE filterHeld[w] # b
  <2>1. Count(outputIn', b) = Count(outputIn, b)
    BY <1>3, <1>8, CountsSum DEF Is
  <2> QED BY <1>1, <1>4, <1>6, <2>1, FilteredSame
<1> QED BY <1>7, <1>8

LEMMA OutputConsumeFiltered ==
  ASSUME IInv, Inputs, Reads, Contained, OutputConsume,
         NEW b \in Batches, NEW k \in Nat, Filtered(b, k)'
  PROVE  Filtered(b, k) /\ buffer'[b] = buffer[b]
<1>1. UNCHANGED <<localRead, toRead, input, buffer, filterIn, filterHeld, filtered>>
  BY DEF OutputConsume, reader, batches, filterPool
<1>2. Home(b)' = Home(b)
  BY <1>1 DEF Home
<1>3. Home(b)' + Away(b)' = 1
  BY OutputConsumeInvariant DEF IInv, Owned
<1>4. Count(outputIn', b) + Count(ordering', b) = Count(outputIn, b) + Count(ordering, b)
      /\ Count(outputIn', b) \in Nat /\ Count(ordering', b) \in Nat
  <2>1. outputIn' \in Seq(Requests) /\ ordering' \in Seq(Requests)
    BY OutputConsumeInvariant DEF IInv, Types, Waiting
  <2>2. Count(outputIn', b) \in Nat /\ Count(ordering', b) \in Nat
    BY <2>1, CountSeq
  <2>3. Away(b)' = Count(filterIn, b) + Count(filterHeld, b) + Count(outputIn', b) + Count(ordering', b)
    BY <1>1 DEF Away
  <2> QED BY <1>2, <1>3, <2>2, <2>3, CountsSum
<1>5. Count(outputIn', b) # 0 \/ Count(ordering', b) # 0 => Count(outputIn, b) # 0 \/ Count(ordering, b) # 0
  BY <1>4, CountsSum
<1> QED BY <1>1, <1>2, <1>5, FilteredSame

LEMMA FlushFrontFiltered ==
  ASSUME IInv, Inputs, Reads, Contained, FlushFront,
         NEW b \in Batches, NEW k \in Nat, Filtered(b, k)'
  PROVE  IF b = Head(ordering) THEN k = 0 ELSE Filtered(b, k) /\ buffer'[b] = buffer[b]
<1>1. PICK f : f = Head(ordering)
  OBVIOUS
<1>2. /\ f \in Batches /\ Home(f) = 0 /\ Count(ordering, f) # 0
      /\ buffer' = [buffer EXCEPT ![f] = AfterFlush(@)] /\ input' = input
      /\ Home(b)' = (IF b = f THEN 1 ELSE Home(b))
  BY <1>1, FlushFrontSteps, FlushFrontHome
<1>3. UNCHANGED <<filterIn, filterHeld, filtered, outputIn>> /\ ordering' = Tail(ordering) /\ ordering # << >>
  BY DEF FlushFront, FrontReady, filterPool, outputPool
<1>4. Count(ordering', b) = Count(ordering, b) - Is(f, b)
  BY <1>1, <1>3, WaitingTail DEF IInv, Types
<1>5. CASE b = f
  <2>1. /\ Count(filterIn, b) = 0 /\ Count(filterHeld, b) = 0 /\ Count(outputIn, b) = 0
        /\ Count(ordering, b) = 1
    BY <1>2, <1>5, CountsSum
  <2>2. Count(ordering', b) = 0
    BY <1>4, <1>5, <2>1 DEF Is
  <2>3. \A v \in Threads : filterHeld[v] # b
    BY <1>2, <1>5, InOnePlace
  <2> QED BY <1>1, <1>3, <1>5, <2>1, <2>2, <2>3 DEF Filtered
<1>6. CASE b # f
  <2>1. Count(ordering', b) = Count(ordering, b)
    BY <1>4, <1>6, CountsSum DEF Is
  <2>2. buffer'[b] = buffer[b]
    BY <1>2, <1>6 DEF Inputs
  <2> QED BY <1>1, <1>2, <1>3, <1>6, <2>1, <2>2, FilteredSame
<1> QED BY <1>5, <1>6

\* The lines of a batch that is as filtered as before.
LEMMA KnownSame ==
  ASSUME IInv, Inputs, Reads, Contained, Buffers, [Next]_vars, Inputs',
         NEW b \in Batches, NEW k \in Nat, Filtered(b, k), buffer'[b] = buffer[b]
  PROVE  k <= Size(b)' /\ Known(b, k)'
<1>1. k <= Size(b) /\ Known(b, k)
  BY DEF Buffers
<1>2. /\ Start(b) \in Int /\ Start(b)' \in Int /\ Start(b) <= Start(b)' /\ job' = job
      /\ Home(b) = 0 => input'[b] = input[b]
  BY StartGrows
<1>3. Size(b)' \in Nat
  BY ControllerAssumption DEF Inputs, InputBuffers, Size
<1>4. CASE k = 0
  <2>1. \A i \in 1 .. k : LineAt(b, i)' = LineAt(b, i) /\ Room(b, i)' = Room(b, i)
    BY <1>4
  <2>2. Known(b, k)'
    BY <1>1, <1>2, <2>1, KnownStays
  <2> QED BY <1>3, <1>4, <2>2
<1>5. CASE k # 0
  <2>1. input'[b] = input[b]
    BY <1>2, <1>5, FilteredAway
  <2>2. /\ Size(b)' = Size(b)
        /\ \A i \in 1 .. k : LineAt(b, i)' = LineAt(b, i) /\ Room(b, i)' = Room(b, i)
    BY <2>1 DEF Size, LineAt, Room
  <2>3. Known(b, k)'
    BY <1>1, <1>2, <2>2, KnownStays
  <2> QED BY <1>1, <2>2, <2>3
<1> QED BY <1>4, <1>5

LEMMA FilterNextFiltered ==
  ASSUME IInv, Inputs, Reads, Contained, Buffers, NEW w \in Threads, FilterNext(w), Inputs',
         NEW b \in Batches, NEW k \in Nat, Filtered(b, k)'
  PROVE  k <= Size(b)' /\ Known(b, k)'
<1>1. PICK c \in Batches, n \in Nat :
        /\ c = filterHeld[w] /\ n = filtered[w] /\ Home(c) = 0 /\ n + 1 \in 1 .. Size(c)
        /\ filtered' = [filtered EXCEPT ![w] = n + 1]
        /\ UNCHANGED <<reader, toRead, number, input, filterIn, filterHeld, outputIn, ordering, base, file>>
  BY FilterNextSteps
<1>2. Known(c, n + 1)' /\ \A d \in Batches \ {c} : buffer'[d] = buffer[d]
  BY <1>1, FilterNextKnown
<1>3. /\ Count(filterIn, c) = 0 /\ Count(outputIn, c) = 0 /\ Count(ordering, c) = 0
      /\ \A v \in Threads : filterHeld[v] = c => v = w
  BY <1>1, InOnePlace
<1>4. Home(b)' = Home(b)
  BY <1>1 DEF Home, reader
<1>5. \A v \in Threads : filtered'[v] = (IF v = w THEN n + 1 ELSE filtered[v])
  BY <1>1 DEF Buffers
<1>6. CASE b = c
  <2>1. k = n + 1
    BY <1>1, <1>3, <1>4, <1>5, <1>6 DEF Filtered
  <2>2. Size(b)' = Size(b) /\ Size(b) \in Nat
    <3>1. Size(b) \in 0 .. BatchSize /\ BatchSize \in Nat
      BY Typed
    <3>2. Size(b)' = Size(b)
      BY <1>1 DEF Size
    <3> QED BY <3>1, <3>2
  <2>3. k <= Size(b)'
    BY <1>1, <1>6, <2>1, <2>2
  <2> QED BY <1>2, <1>6, <2>1, <2>3
<1>7. CASE b # c
  <2>1. \A v \in Threads : filterHeld'[v] = b => filterHeld[v] = b /\ filtered'[v] = filtered[v]
    BY <1>1, <1>5, <1>7
  <2>2. Filtered(b, k)
    BY <1>1, <1>4, <2>1, FilteredSame
  <2>3. buffer'[b] = buffer[b]
    BY <1>2, <1>7
  <2> QED BY <2>2, <2>3, KnownSame DEF Next
<1> QED BY <1>6, <1>7

LEMMA BuffersStep ==
  ASSUME IInv, Inputs, Reads, Contained, Buffers, [Next]_vars, Inputs'
  PROVE  Buffers'
<1> USE DEF Next
<1>1. filtered' \in [Threads -> Nat]
  <2>1. CASE \E w \in Threads : FilterConsume(w) \/ FilterNext(w)
    <3>1. PICK w \in Threads : FilterConsume(w) \/ FilterNext(w)
      BY <2>1
    <3>2. \/ filtered' = [filtered EXCEPT ![w] = 0]
          \/ filtered' = [filtered EXCEPT ![w] = filtered[w] + 1]
      BY <3>1 DEF FilterConsume, FilterNext
    <3> QED BY <3>2 DEF Buffers
  <2>2. CASE \E w \in Threads : FilterDone(w)
    BY <2>2 DEF FilterDone, Buffers
  <2>3. CASE Reader
    BY <2>3 DEF Reader, ReadLine, EndOrder, SkipFlush, FlushInput, AwaitBatch, Collect, MoveRead,
         NewInput, EndLength, PoisonFilters, JoinFilters, PoisonOutput, JoinOutput, filterPool, Buffers
  <2>4. CASE OutputConsume \/ FlushFront \/ OutputDone \/ UNCHANGED vars
    BY <2>4 DEF OutputConsume, FlushFront, OutputDone, vars, filterPool, Buffers
  <2> QED BY <2>1, <2>2, <2>3, <2>4 DEF Finished
<1>2. ASSUME NEW b \in Batches, NEW k \in Nat, Filtered(b, k)'
      PROVE  k <= Size(b)' /\ Known(b, k)'
  <2>1. CASE Reader
    BY <1>2, <2>1, ReaderFiltered, KnownSame
  <2>2. CASE \E w \in Threads : FilterConsume(w)
    BY <1>2, <2>2, FilterConsumeFiltered, KnownSame DEF Buffers
  <2>3. CASE \E w \in Threads : FilterNext(w)
    BY <1>2, <2>3, FilterNextFiltered
  <2>4. CASE \E w \in Threads : FilterDone(w)
    BY <1>2, <2>4, FilterDoneFiltered, KnownSame
  <2>5. CASE OutputConsume
    BY <1>2, <2>5, OutputConsumeFiltered, KnownSame
  <2>6. CASE FlushFront
    <3>1. CASE b = Head(ordering)
      <4>1. k = 0
        BY <1>2, <2>6, <3>1, FlushFrontFiltered
      <4>2. Known(b, 0)'
        BY <2>6, <3>1, FlushFrontKnown
      <4>3. Size(b)' \in Nat
        BY ControllerAssumption DEF Inputs, InputBuffers, Size
      <4> QED BY <4>1, <4>2, <4>3
    <3>2. CASE b # Head(ordering)
      BY <1>2, <2>6, <3>2, FlushFrontFiltered, KnownSame
    <3> QED BY <3>1, <3>2
  <2>7. CASE OutputDone \/ UNCHANGED vars
    <3>1. UNCHANGED <<localRead, toRead, input, buffer, filterIn, filterHeld, filtered, outputIn, ordering>>
      BY <2>7 DEF OutputDone, Outputs!Handled, vars, reader, batches, filterPool, outputPool, writer
    <3>2. Filtered(b, k)
      BY <1>2, <3>1 DEF Filtered, Home, Size
    <3> QED BY <3>1, <3>2, KnownSame
  <2> QED BY <2>1, <2>2, <2>3, <2>4, <2>5, <2>6, <2>7 DEF Finished
<1> QED BY <1>1, <1>2 DEF Buffers

LEMMA InputsStep ==
  ASSUME IInv, Inputs, Reads, Contained, Buffers, [Next]_vars
  PROVE  Inputs'
<1> USE DEF batches, reader
<1>1. job' = job
  BY StartGrows DEF Next, Reader, ReadLine, EndOrder, SkipFlush, FlushInput, AwaitBatch, Collect, MoveRead,
         NewInput, EndLength, PoisonFilters, JoinFilters, PoisonOutput, JoinOutput, FilterConsume,
         FilterNext, FilterDone, OutputConsume, FlushFront, OutputDone, Finished, vars
<1>2. job' \in Jobs /\ Meant(job')
  BY <1>1 DEF Inputs
<1>3. Ends' = Ends /\ Len(Ends) \in Nat \ {0} /\ line \in Nat /\ length \in 1 .. Len(Ends) + 1
  BY <1>1, Typed DEF Ends
<1>4. buffer' \in [Batches -> OutputBuffers]
  <2>1. CASE FlushFront
    BY <2>1, FlushFrontKnown
  <2>2. CASE \E w \in Threads : FilterNext(w)
    BY <2>2, FilterNextKnown
  <2>3. CASE buffer' = buffer
    BY <2>3 DEF Inputs
  <2> QED BY <2>1, <2>2, <2>3 DEF Next, Reader, ReadLine, EndOrder, SkipFlush, FlushInput, AwaitBatch,
         Collect, MoveRead, NewInput, OpenTop, EndLength, PoisonFilters, JoinFilters, PoisonOutput,
         JoinOutput, FilterConsume, FilterDone, OutputConsume, OutputDone, Finished, vars
<1>5. input' \in [Batches -> InputBuffers] /\ line' \in Nat /\ length' \in 1 .. Len(Ends) + 1
  <2>1. CASE ReadLine
    <3>1. /\ Top \in Batches /\ line' = line + 1 /\ length' = length /\ input'[Top] \in InputBuffers
          /\ \A b \in Batches \ {Top} : input'[b] = input[b]
      BY <2>1, ReadLineSteps
    <3>2. input' = [input EXCEPT ![Top] = InputAddNGram(input[Top], line + 1)]
      BY <2>1 DEF ReadLine
    <3> QED BY <1>3, <3>1, <3>2 DEF Inputs
  <2>2. CASE NewInput \/ EndLength
    <3>1. /\ OpenTop /\ localRead # << >> /\ UNCHANGED <<localRead, toRead>> /\ line' = line
          /\ length' = length \/ (length' = length + 1 /\ length \in 1 .. Len(Ends))
      BY <2>2, NewInputSteps, EndLengthSteps
    <3>2. input' \in [Batches -> InputBuffers]
      BY <3>1, OpenTopSteps
    <3> QED BY <1>3, <3>1, <3>2
  <2>3. CASE UNCHANGED <<input, line, length>>
    BY <1>3, <2>3 DEF Inputs
  <2> QED BY <2>1, <2>2, <2>3 DEF Next, Reader, EndOrder, SkipFlush, FlushInput, AwaitBatch,
         Collect, MoveRead, PoisonFilters, JoinFilters, PoisonOutput, JoinOutput, FilterConsume,
         FilterNext, FilterDone, OutputConsume, FlushFront, OutputDone, Finished, vars
<1>6. Meant(job)' /\ length' \in 1 .. Len(Ends)' + 1
  BY <1>2, <1>3, <1>5 DEF Meant
<1>7. OutputBuffers' = OutputBuffers
  BY <1>1 DEF OutputBuffers, Records, Verdicts, Verdict, Pieces, Lengths
<1>8. InputBuffers' = InputBuffers
  BY DEF InputBuffers, Lengths
<1> HIDE DEF reader, batches
<1> QED BY <1>2, <1>4, <1>5, <1>6, <1>7, <1>8 DEF Inputs

---------------------------------------------------------------------------
\* The invariant of the order.

LEMMA InitHome ==
  ASSUME Init
  PROVE  /\ \A b \in Batches : Home(b) = 1
         /\ localRead # << >> /\ Top \in Batches
<1> USE ControllerAssumption
<1>1. IInv
  BY InitInvariant
<1>2. localRead # << >> /\ Top \in Batches /\ \A b \in Batches : Home(b) \in Nat
  BY <1>1, Whereabouts DEF Init, IInv, Reading
<1>3. ASSUME NEW b \in Batches PROVE Home(b) = 1
  <2>1. /\ Count(filterIn, b) = 0 /\ Count(outputIn, b) = 0 /\ Count(ordering, b) = 0
    BY CountEmpty DEF Init, Filters!Init, Outputs!Init
  <2>2. Count(filterHeld, b) = 0
    <3>1. At(filterHeld, b) = {}
      BY DEF Init, Filters!Init, At
    <3> QED BY <3>1, FS_EmptySet DEF Count
  <2> QED BY <1>1, <2>1, <2>2, CountsSum
<1> QED BY <1>2, <1>3

LEMMA InitOrder ==
  ASSUME Init, \A j \in Jobs : Meant(j)
  PROVE  OInv
<1> USE ControllerAssumption
<1>1. IInv /\ (\A b \in Batches : Home(b) = 1) /\ localRead # << >> /\ Top \in Batches
  BY InitInvariant, InitHome
<1>2. /\ job \in Jobs /\ pc = "read" /\ resume = "read" /\ length = 1 /\ line = 0 /\ sequence = 1
      /\ input = [b \in Batches |-> EmptyInput] /\ buffer = [b \in Batches |-> EmptyOutput]
      /\ filtered = [w \in Threads |-> 0] /\ base = 0 /\ file = << >> /\ ordering = << >>
      /\ filterIn = << >> /\ filterHeld = [w \in Threads |-> Null] /\ filterLive = Threads
      /\ outputIn = << >> /\ outputHeld = [w \in {Writer} |-> Null] /\ outputLive = {Writer}
  BY DEF Init, Filters!Init, Outputs!Init
<1>3. 0 \in Lengths /\ 0 \in 0 .. BatchSize /\ 1 \in DOMAIN Ends /\ Ends \in Seq(Nat) /\ job.ends = Ends
      /\ Len(Ends) \in Nat \ {0}
  BY <1>2 DEF Lengths, Ends
<1>4. Inputs
  <2>1. EmptyInput \in InputBuffers
    BY <1>3 DEF EmptyInput, InputBuffers
  <2>2. EmptyOutput \in OutputBuffers
    <3>1. << >> \in Seq(Records)
      OBVIOUS
    <3> QED BY <1>3, <3>1 DEF EmptyOutput, OutputBuffers, NoPiece, Pieces
  <2>3. Meant(job)
    BY <1>2
  <2> QED BY <1>2, <1>3, <2>1, <2>2, <2>3 DEF Inputs
<1>5. Size(Top) = 0 /\ Given = 0 /\ Open /\ ~Closing /\ ~Collecting /\ ~Opening
  BY <1>1, <1>2 DEF Size, Given, Open, EmptyInput, Closing, Collecting, Opening
<1>6. StartOf(job, 1) = 0 /\ Cut(job, 1, 0) /\ 0 <= Ends[1]
  BY <1>2, <1>3, CutStart DEF StartOf
<1>7. Reads
  BY <1>2, <1>3, <1>5, <1>6 DEF Reads
<1>8. Contained
  BY <1>1 DEF Contained
<1>9. Gapless
  BY <1>1, <1>2, <1>5 DEF Gapless, Due
<1>10. FilterPool
  BY <1>2 DEF FilterPool, Poisoned, Drained, Joining
<1>11. OutputPool
  BY <1>2 DEF OutputPool, Poisoned, Drained, Joining, FrontReady, Requests
<1>12. Buffers
  <2>1. ASSUME NEW b \in Batches, NEW k \in Nat, Filtered(b, k) PROVE k <= Size(b) /\ Known(b, k)
    <3>1. k = 0
      <4>1. Count(outputIn, b) = 0 /\ Count(ordering, b) = 0
        BY <1>2, CountEmpty
      <4>2. b # Null
        OBVIOUS
      <4> QED BY <1>2, <2>1, <4>1, <4>2 DEF Filtered
    <3>2. Size(b) = 0 /\ buffer[b] = EmptyOutput
      BY <1>2 DEF Size, EmptyInput
    <3>3. Annotated(b, 0)
      BY <3>2 DEF EmptyOutput, Annotated
    <3> QED BY <3>1, <3>2, <3>3 DEF Known, EmptyOutput, Remembers
  <2> QED BY <1>2, <2>1 DEF Buffers
<1>13. Written(0)
  <2>1. Spread(0)
    BY <1>1, <1>2, <1>5, <1>6 DEF Spread
  <2>2. Filed(0)
    <3>1. LinesTo(0) = {} /\ EndsTo(length - 1) = {}
      BY <1>2 DEF LinesTo, EndsTo
    <3>2. file = << >> /\ Len(file) = 0
      BY <1>2
    <3> QED BY <3>1, <3>2 DEF Filed
  <2> QED BY <2>1, <2>2 DEF Written
<1> QED BY <1>4, <1>7, <1>8, <1>9, <1>10, <1>11, <1>12, <1>13 DEF OInv

LEMMA StepOrder == IInv /\ OInv /\ [Next]_vars => OInv'
<1> SUFFICES ASSUME IInv, OInv, [Next]_vars PROVE OInv'
  OBVIOUS
<1>1. /\ Inputs /\ Reads /\ Contained /\ Gapless /\ FilterPool /\ OutputPool /\ Buffers
      /\ \E n : Written(n)
  BY DEF OInv
<1>2. Inputs'
  BY <1>1, InputsStep
<1>3. Reads' /\ Contained' /\ Gapless'
  BY <1>1, ReadsStep, ContainedStep, GaplessStep
<1>4. FilterPool' /\ OutputPool'
  BY <1>1, FilterPoolStep, OutputPoolStep
<1>5. Buffers'
  BY <1>1, <1>2, BuffersStep
<1>6. \E n : Written(n)'
  BY <1>1, WrittenStep
<1> QED BY <1>2, <1>3, <1>4, <1>5, <1>6 DEF OInv

---------------------------------------------------------------------------
\* What the invariant says of the file and of the records.

\* A batch is somewhere, so it is known how much of it is filtered.
LEMMA IsFiltered ==
  ASSUME IInv, OInv, NEW b \in Batches
  PROVE  \E k \in Nat : Filtered(b, k)
<1>1. filtered \in [Threads -> Nat] /\ Size(b) \in Nat
  BY ControllerAssumption DEF OInv, Buffers, Inputs, InputBuffers, Size
<1>2. CASE Home(b) # 0 \/ Count(filterIn, b) # 0
  BY <1>2 DEF Filtered
<1>3. CASE Count(outputIn, b) # 0 \/ Count(ordering, b) # 0
  BY <1>1, <1>3 DEF Filtered
<1>4. CASE Count(filterHeld, b) # 0
  <2>1. At(filterHeld, b) # {}
    BY <1>4, FS_EmptySet DEF Count
  <2>2. PICK w \in Threads : filterHeld[w] = b
    BY <2>1 DEF At, IInv, Types, Holding
  <2> QED BY <1>1, <2>2 DEF Filtered
<1> QED BY <1>2, <1>3, <1>4, CountsSum

LEMMA OrderGivesAnnotations ==
  ASSUME IInv, OInv
  PROVE  AnnotationsAreOfTheirLine
<1> SUFFICES ASSUME NEW b \in Batches
             PROVE  /\ ~buffer[b].stray
                    /\ \A x \in DOMAIN buffer[b].annotated :
                         job.wanted[input[b].text[buffer[b].annotated[x].line[1]]]
                           = IF buffer[b].annotated[x].systems = {} THEN All
                             ELSE buffer[b].annotated[x].systems
  BY DEF AnnotationsAreOfTheirLine
<1>1. PICK k \in Nat : Filtered(b, k)
  BY IsFiltered
<1>2. k <= Size(b) /\ ~buffer[b].stray /\ Annotated(b, k)
  BY <1>1 DEF OInv, Buffers, Known
<1>3. PICK n : Written(n)
  BY DEF OInv
<1>4. Inputs /\ Reads /\ Contained
  BY DEF OInv
<1>5. Given <= line /\ line <= Ends[Len(Ends)] /\ Ends[Len(Ends)] \in Nat /\ line \in Nat /\ Given \in Int
  <2>1. Given <= line /\ line \in Nat /\ Given \in Int
    BY <1>3, <1>4, WrittenBounds, Typed
  <2>2. /\ Ends = job.ends /\ DOMAIN Ends = 1 .. Len(Ends) /\ Len(Ends) \in Nat \ {0} /\ job \in Jobs
        /\ length \in 1 .. Len(Ends) + 1 /\ \A m \in 1 .. Len(Ends) : Ends[m] \in Nat
    BY <1>4, Typed DEF Inputs
  <2>3. CASE length <= Len(Ends)
    <3>1. length \in DOMAIN Ends
      BY <2>2, <2>3
    <3>2. Ends[length] <= Ends[Len(Ends)] /\ line <= Ends[length]
      BY <1>4, <2>2, <2>3, <3>1, CutStart DEF Reads
    <3> QED BY <2>1, <2>2, <3>1, <3>2
  <2>4. CASE length = Len(Ends) + 1
    BY <1>4, <2>1, <2>2, <2>4 DEF Reads
  <2> QED BY <2>2, <2>3, <2>4
<1>6. ASSUME NEW x \in DOMAIN buffer[b].annotated
      PROVE  job.wanted[input[b].text[buffer[b].annotated[x].line[1]]]
               = IF buffer[b].annotated[x].systems = {} THEN All
                 ELSE buffer[b].annotated[x].systems
  <2> DEFINE r == buffer[b].annotated[x]
             p == r.line[1]
             l == LineAt(b, p)
  <2>1. x \in 1 .. Len(buffer[b].annotated)
    BY <1>4 DEF Inputs, OutputBuffers
  <2>2. p \in 1 .. k /\ Verdict(l) # {} /\ r.systems = IF Verdict(l) = All THEN {} ELSE Verdict(l)
    BY <1>2, <2>1 DEF Annotated
  <2>3. k # 0
    BY <2>2
  <2>4. Home(b) = 0
    BY <1>1, <2>3, FilteredAway
  <2>5. p \in 1 .. Size(b)
    <3>1. Size(b) \in Nat
      BY <1>4, Typed
    <3> QED BY <1>2, <2>2, <3>1
  <2>6. l \in 1 .. Ends[Len(Ends)]
    <3>1. /\ LineAt(b, 1) \in Nat \ {0} /\ l = LineAt(b, 1) + p - 1
          /\ l <= LineAt(b, Size(b)) /\ LineAt(b, Size(b)) <= Given /\ LineAt(b, Size(b)) \in Nat
      BY <1>4, <2>4, <2>5, FilledLines
    <3> HIDE DEF l
    <3>2. l \in Nat \ {0}
      BY <2>5, <3>1
    <3> QED BY <1>5, <3>1, <3>2, SMTT(30)
  <2>7. job.wanted[l] = Verdict(l)
    <3>1. VerdictsMeant(job)
      BY <1>4 DEF Inputs, Meant
    <3> QED BY <2>6, <3>1 DEF VerdictsMeant, Verdict, Ends
  <2> QED BY <2>2, <2>7 DEF LineAt
<1> QED BY <1>2, <1>6

\* When the program is done, no batch is on its way.
LEMMA DoneHome ==
  ASSUME IInv, OInv, pc = "done", NEW b \in Batches, Home(b) = 0
  PROVE  FALSE
<1>1. Closing /\ Joining
  BY DEF Closing, Joining
<1>2. ~Arpa
  BY <1>1 DEF OInv, Reads
<1>3. filterLive = {} /\ outputLive = {} /\ Threads # {}
  BY <1>1, ControllerAssumption DEF OInv, FilterPool, OutputPool
<1>4. /\ \A i \in 1 .. Len(filterIn) : filterIn[i] = Null
      /\ \A w \in Threads : filterHeld[w] = Null
  BY <1>3 DEF OInv, FilterPool, Drained
<1>5. /\ \A i \in 1 .. Len(outputIn) : outputIn[i] = Null
      /\ ~FrontReady
  BY <1>3 DEF OInv, OutputPool, Drained
<1>6. ASSUME NEW c \in Batches, Home(c) = 0
      PROVE  \E i \in 1 .. Len(ordering) : ordering[i] = c
  <2>1. c # Null
    BY ControllerAssumption
  <2>2. At(filterIn, c) = {} /\ At(filterHeld, c) = {} /\ At(outputIn, c) = {}
    BY <1>4, <1>5, <2>1 DEF At, IInv, Types, Waiting, Holding
  <2>3. Count(filterIn, c) = 0 /\ Count(filterHeld, c) = 0 /\ Count(outputIn, c) = 0
    BY <2>2, FS_EmptySet DEF Count
  <2>4. Count(ordering, c) = 1
    BY <1>6, <2>3, CountsSum
  <2>5. At(ordering, c) # {}
    BY <2>4, FS_EmptySet DEF Count
  <2> QED BY <2>5 DEF At, IInv, Types, Waiting
<1>7. PICK f \in Batches : Home(f) = 0 /\ number[f] = base
  <2>1. base <= number[b] /\ number[b] < Due /\ base \in Nat /\ number[b] \in Nat
    BY <1>2 DEF OInv, Gapless, IInv, Types, Numbered
  <2>2. Due \in Int
    BY DEF Due, IInv, Types
  <2>3. base \in base .. Due - 1
    BY <2>1, <2>2
  <2> QED BY <1>2, <2>3 DEF OInv, Gapless
<1>8. PICK i \in 1 .. Len(ordering) : ordering[i] = f
  BY <1>6, <1>7
<1>9. f # Null /\ base \in Nat
  BY ControllerAssumption DEF IInv, Types
<1>10. number[f] = base + i - 1
  BY <1>8, <1>9 DEF IInv, Numbered
<1>11. i = 1
  BY <1>7, <1>9, <1>10
<1>12. ordering # << >> /\ Head(ordering) = f
  BY <1>8, <1>11 DEF IInv, Types, Waiting
<1> QED BY <1>5, <1>9, <1>12 DEF FrontReady

LEMMA DoneIsAll ==
  ASSUME IInv, OInv, pc = "done", NEW n, Written(n)
  PROVE  n = Ends[Len(Ends)] /\ (Arpa => length = Len(Ends) + 1)
<1>1. Closing /\ ~Open
  BY DEF Closing, Open
<1>2. line = Ends[Len(Ends)] /\ (Arpa => length = Len(Ends) + 1)
  BY <1>1 DEF OInv, Reads
<1>3. Given = line /\ line \in Nat /\ n \in Nat /\ n <= Given
  BY <1>1 DEF Given, OInv, Inputs, Written, Spread
<1>4. ~(n < Given)
  <2>1. SUFFICES ASSUME n < Given PROVE FALSE
    OBVIOUS
  <2>2. n + 1 \in n + 1 .. Given
    BY <1>3, <2>1
  <2>3. PICK b \in Batches : Holds(b, n + 1)
    BY <2>2 DEF Written, Spread
  <2> QED BY <2>3, DoneHome DEF Holds
<1> QED BY <1>2, <1>3, <1>4

LEMMA OrderGivesOutput ==
  ASSUME IInv, OInv
  PROVE  OutputInOrder
<1>1. Inputs /\ Reads
  BY DEF OInv
<1>2. PICK n : Written(n)
  BY DEF OInv
<1> DEFINE F == LinesTo(n) \cup EndsTo(length - 1)
           last == Ends[Len(Ends)]
<1>3. /\ n \in Nat /\ n <= last
      /\ length <= Len(Ends) => n <= Ends[length]
      /\ \A k \in 1 .. length - 1 : k \in DOMAIN Ends /\ Ends[k] <= n
  BY <1>1, <1>2, WrittenBounds
<1>4. /\ DOMAIN Ends = 1 .. Len(Ends) /\ Len(Ends) \in Nat \ {0} /\ length \in 1 .. Len(Ends) + 1
      /\ \A m \in 1 .. Len(Ends) : Ends[m] \in Nat
      /\ \A m, k \in 1 .. Len(Ends) : m <= k => Ends[m] <= Ends[k]
      /\ last \in Nat
  <2>1. /\ DOMAIN Ends = 1 .. Len(Ends) /\ Len(Ends) \in Nat \ {0} /\ length \in 1 .. Len(Ends) + 1
        /\ \A m \in 1 .. Len(Ends) : Ends[m] \in Nat
    BY <1>1, Typed
  <2>2. \A m, k \in DOMAIN Ends : m <= k => Ends[m] <= Ends[k]
    BY <1>1, ControllerAssumption DEF Inputs, Ends
  <2> QED BY <2>1, <2>2, SMTT(30)
<1>5. \A l \in 1 .. last : job.wanted[l] = Verdict(l)
  BY <1>1 DEF Inputs, Meant, VerdictsMeant, Verdict, Ends
<1>6. /\ DOMAIN file = 1 .. Len(file) /\ Range(file) = F
      /\ \A j, k \in DOMAIN file : j < k => Before(file[j], file[k])
  <2>1. /\ file \in Seq(F) /\ \A x \in F : \E k \in 1 .. Len(file) : file[k] = x
        /\ \A j, k \in 1 .. Len(file) : j < k => Before(file[j], file[k])
    BY <1>2 DEF Written, Filed
  <2> HIDE DEF F
  <2>2. DOMAIN file = 1 .. Len(file) /\ \A k \in 1 .. Len(file) : file[k] \in F
    BY <2>1
  <2> QED BY <2>1, <2>2 DEF Range
<1> HIDE DEF F
<1>7. ASSUME NEW x \in F
      PROVE  \/ \E l \in 1 .. n : Verdict(l) # {} /\ x = Item("ngram", l, Verdict(l))
             \/ \E k \in 1 .. length - 1 : Arpa /\ x = Item("end", k, All)
  BY <1>1, <1>2, FiledItems DEF F
<1>8. ASSUME NEW y \in Expected
      PROVE  \/ \E l \in 1 .. last : Verdict(l) # {} /\ y = Item("ngram", l, Verdict(l))
             \/ \E k \in 1 .. Len(Ends) : Arpa /\ y = Item("end", k, All)
  BY <1>4, <1>5 DEF Expected
<1>9. ASSUME NEW l \in 1 .. n, Verdict(l) # {}
      PROVE  Item("ngram", l, Verdict(l)) \in F
  BY <1>9 DEF F, LinesTo
<1>10. ASSUME NEW k \in 1 .. length - 1, Arpa
       PROVE  Item("end", k, All) \in F
  BY <1>10 DEF F, EndsTo
<1> HIDE DEF last
<1>11. \A l, to : Place(Item("ngram", l, to)) = <<l, 0>>
  BY DEF Place, Item
<1>12. \A k, to : Place(Item("end", k, to)) = <<Ends[k], k>>
  BY DEF Place, Item
<1>13. F \subseteq Expected
  <2> SUFFICES ASSUME NEW x \in F PROVE x \in Expected
    OBVIOUS
  <2>1. CASE \E l \in 1 .. n : Verdict(l) # {} /\ x = Item("ngram", l, Verdict(l))
    <3>1. PICK l \in 1 .. n : Verdict(l) # {} /\ x = Item("ngram", l, Verdict(l))
      BY <2>1
    <3>2. l \in 1 .. last
      BY <1>3, <1>4
    <3> QED BY <1>5, <3>1, <3>2 DEF Expected, last
  <2>2. CASE \E k \in 1 .. length - 1 : Arpa /\ x = Item("end", k, All)
    BY <1>3, <2>2 DEF Expected
  <2> QED BY <1>7, <2>1, <2>2
<1>14. ASSUME NEW x \in F, NEW y \in Expected, Before(y, x)
       PROVE  y \in F
  <2>1. CASE \E l \in 1 .. last : Verdict(l) # {} /\ y = Item("ngram", l, Verdict(l))
    <3>1. PICK l \in 1 .. last : Verdict(l) # {} /\ y = Item("ngram", l, Verdict(l))
      BY <2>1
    <3>2. l <= n
      <4>1. CASE \E h \in 1 .. n : Verdict(h) # {} /\ x = Item("ngram", h, Verdict(h))
        <5>1. PICK h \in 1 .. n : x = Item("ngram", h, Verdict(h))
          BY <4>1
        <5>2. l < h \/ (l = h /\ 0 < 0)
          BY <1>11, <1>14, <3>1, <5>1 DEF Before
        <5> QED BY <1>3, <1>4, <5>2
      <4>2. CASE \E k \in 1 .. length - 1 : Arpa /\ x = Item("end", k, All)
        <5>1. PICK k \in 1 .. length - 1 : x = Item("end", k, All)
          BY <4>2
        <5>2. Place(y) = <<l, 0>> /\ Place(x) = <<Ends[k], k>>
          BY <1>11, <1>12, <3>1, <5>1
        <5>3. l < Ends[k] \/ (l = Ends[k] /\ 0 < k)
          BY <1>14, <5>2 DEF Before
        <5>4. Ends[k] <= n /\ Ends[k] \in Nat
          BY <1>3, <1>4
        <5> QED BY <1>3, <1>4, <5>3, <5>4
      <4> QED BY <1>7, <4>1, <4>2
    <3>3. l \in 1 .. n
      BY <1>3, <1>4, <3>2
    <3> QED BY <1>9, <3>1, <3>3
  <2>2. CASE \E k \in 1 .. Len(Ends) : Arpa /\ y = Item("end", k, All)
    <3>1. PICK k \in 1 .. Len(Ends) : Arpa /\ y = Item("end", k, All)
      BY <2>2
    <3>2. CASE k <= length - 1
      <4>1. k \in 1 .. length - 1
        BY <1>4, <3>2
      <4> QED BY <1>10, <3>1, <4>1
    <3>3. CASE k > length - 1
      <4>1. length \in 1 .. Len(Ends) /\ n <= Ends[k] /\ Ends[k] \in Nat
        <5>1. length \in 1 .. Len(Ends) /\ length <= k
          BY <1>4, <3>3
        <5>2. Ends[length] <= Ends[k] /\ n <= Ends[length] /\ Ends[length] \in Nat /\ Ends[k] \in Nat
          BY <1>3, <1>4, <5>1
        <5> QED BY <1>3, <5>1, <5>2
      <4>2. CASE \E h \in 1 .. n : Verdict(h) # {} /\ x = Item("ngram", h, Verdict(h))
        <5>1. PICK h \in 1 .. n : x = Item("ngram", h, Verdict(h))
          BY <4>2
        <5>2. Ends[k] < h \/ (Ends[k] = h /\ k < 0)
          BY <1>11, <1>12, <1>14, <3>1, <5>1 DEF Before
        <5> QED BY <1>3, <4>1, <5>2
      <4>3. CASE \E m \in 1 .. length - 1 : Arpa /\ x = Item("end", m, All)
        <5>1. PICK m \in 1 .. length - 1 : x = Item("end", m, All)
          BY <4>3
        <5>2. Ends[k] < Ends[m] \/ (Ends[k] = Ends[m] /\ k < m)
          BY <1>12, <1>14, <3>1, <5>1 DEF Before
        <5>3. Ends[m] <= n /\ Ends[m] \in Nat /\ m < k
          BY <1>3, <1>4, <3>3
        <5> QED BY <1>3, <4>1, <5>2, <5>3
      <4> QED BY <1>7, <4>2, <4>3
    <3> QED BY <1>4, <3>2, <3>3
  <2> QED BY <1>8, <2>1, <2>2
<1>15. ASSUME pc = "done" PROVE Expected \subseteq F
  <2>1. n = last /\ (Arpa => length = Len(Ends) + 1)
    BY <1>2, <1>15, DoneIsAll DEF last
  <2>2. Arpa => length - 1 = Len(Ends)
    BY <1>4, <2>1
  <2> QED BY <1>8, <1>9, <1>10, <2>1, <2>2
<1> QED BY <1>6, <1>13, <1>14, <1>15 DEF OutputInOrder

\* Every state of the threaded filter meets the invariant, whatever the numbers of threads
\* and batches, the size of a batch and the inputs, if the filters decide as they are
\* meant to, no input without sections ends within a batch, and no line has the place and
\* the length of an older one that last_ may still point at.
THEOREM OrderInvariance ==
  ASSUME \A j \in Jobs : VerdictsMeant(j) /\ NoneDropped(j) /\ NoneMistaken(j)
  PROVE  Spec => [](IInv /\ OInv)
<1>1. Init => IInv /\ OInv
  BY InitInvariant, InitOrder DEF Meant
<1>2. (IInv /\ OInv) /\ [Next]_vars => (IInv /\ OInv)'
  BY StepInvariant, StepOrder
<1> QED BY <1>1, <1>2, PTL DEF Spec

\* However the threads of lm/filter/thread.hh interleave, the file is at every moment
\* a beginning of what one thread would write, and when the program is done it is all of
\* it: no line is lost, doubled, overtaken, or moved to another order.
THEOREM OutputIsInOrder ==
  ASSUME \A j \in Jobs : VerdictsMeant(j) /\ NoneDropped(j) /\ NoneMistaken(j)
  PROVE  Spec => []OutputInOrder
<1>1. IInv /\ OInv => OutputInOrder
  BY OrderGivesOutput
<1> QED BY <1>1, OrderInvariance, PTL

\* A record of MultipleOutputBuffer names the systems that want the line it points at,
\* although the text it points into is assigned to again for every batch, and no line is
\* added to a record that is not its own: last_ is never taken for it.
THEOREM AnnotationsFitTheirLine ==
  ASSUME \A j \in Jobs : VerdictsMeant(j) /\ NoneDropped(j) /\ NoneMistaken(j)
  PROVE  Spec => []AnnotationsAreOfTheirLine
<1>1. IInv /\ OInv => AnnotationsAreOfTheirLine
  BY OrderGivesAnnotations
<1> QED BY <1>1, OrderInvariance, PTL
=============================================================================
