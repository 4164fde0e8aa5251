---------------------------- MODULE PCQueueProofs ----------------------------
(***************************************************************************)
(* The queue of util/pcqueue.hh is type correct, loses no slot, never lets *)
(* a producer and a consumer touch the same slot and implements a bounded  *)
(* FIFO, for any number of threads, any capacity and any values.           *)
(***************************************************************************)
EXTENDS PCQueue, FiniteSetTheorems, SequenceTheorems, TLAPS

\* A mutex is owned by the one thread that is between taking and releasing it.
Critical == {"assign", "advance", "undo", "unwind"}
LocksExclude ==
  /\ \A p \in Producers : pc[p] \in Critical <=> produceLock = p
  /\ \A c \in Consumers : pc[c] \in Critical <=> consumeLock = c

\* The occupied slots hold values that were passed to Produce; the slot about
\* to be published holds its producer's argument, and an object about to be
\* returned holds the oldest value.
ContentsIntact ==
  /\ \A p \in Producers : val[p] = None <=> pc[p] = "idle"
  /\ \A k \in 0 .. Occupied - 1 : storage[Slot(k)] \in Values
  /\ \A p \in Producers : pc[p] = "advance" => storage[produceAt] = val[p]
  /\ \A c \in Consumers : pc[c] = "advance" => out[c] = storage[consumeAt]
  /\ \A c \in Consumers : pc[c] = "post" => out[c] \in Values

\* The inductive invariant: the properties of PCQueue hold only together.
IInv ==
  /\ TypeOK
  /\ LocksExclude
  /\ TokensConserved
  /\ IndicesAgree
  /\ ContentsIntact

Bit(b) == IF b THEN 1 ELSE 0

\* Moving one thread from a label to another changes the number of threads at
\* the labels L by at most one.
LEMMA MoveCount ==
  ASSUME NEW S, NEW T \in SUBSET S, IsFiniteSet(T), NEW f \in [S -> PLabels],
         NEW t \in T, NEW l \in PLabels, NEW L, NEW A, NEW B,
         A = {x \in T : f[x] \in L}, B = {x \in T : [f EXCEPT ![t] = l][x] \in L}
  PROVE  Cardinality(B) = Cardinality(A) + Bit(l \in L) - Bit(f[t] \in L)
<1>1. IsFiniteSet(A) /\ IsFiniteSet(B)
  BY FS_Subset
<1>2. Cardinality(A) \in Nat /\ Cardinality(B) \in Nat
  BY <1>1, FS_CardinalityType
<1>3. CASE l \in L
  <2>1. B = A \cup {t}
    BY <1>3
  <2>2. Cardinality(A \cup {t}) = IF t \in A THEN Cardinality(A) ELSE Cardinality(A) + 1
    BY <1>1, FS_AddElement
  <2> QED BY <1>2, <1>3, <2>1, <2>2, SMTT(30) DEF Bit
<1>4. CASE l \notin L
  <2>1. B = A \ {t}
    BY <1>4
  <2>2. Cardinality(A \ {t}) = IF t \in A THEN Cardinality(A) - 1 ELSE Cardinality(A)
    BY <1>1, FS_RemoveElement
  <2>3. (t \in A) <=> (f[t] \in L)
    OBVIOUS
  <2>4. Bit(l \in L) = 0
    BY <1>4 DEF Bit
  <2>5. Cardinality(B) = Cardinality(A) - Bit(f[t] \in L)
    BY <1>2, <2>1, <2>2, <2>3 DEF Bit
  <2> QED BY <1>2, <2>4, <2>5 DEF Bit
<1> QED BY <1>3, <1>4

\* The four counts are natural numbers, and a thread that is counted makes its
\* count positive.
LEMMA CountsType ==
  ASSUME TypeOK
  PROVE  /\ Cardinality(Filling) \in Nat /\ Cardinality(Filled) \in Nat
         /\ Cardinality(Emptying) \in Nat /\ Cardinality(Emptied) \in Nat
         /\ \A p \in Producers : pc[p] \in Holding => Cardinality(Filling) > 0
         /\ \A p \in Producers : pc[p] = "post" => Cardinality(Filled) > 0
         /\ \A c \in Consumers : pc[c] \in Holding => Cardinality(Emptying) > 0
         /\ \A c \in Consumers : pc[c] = "post" => Cardinality(Emptied) > 0
<1>1. /\ IsFiniteSet(Filling) /\ IsFiniteSet(Filled)
      /\ IsFiniteSet(Emptying) /\ IsFiniteSet(Emptied)
  BY FS_Subset, ThreadsAssumption DEF Filling, Filled, Emptying, Emptied, Having
<1>2. /\ Cardinality(Filling) \in Nat /\ Cardinality(Filled) \in Nat
      /\ Cardinality(Emptying) \in Nat /\ Cardinality(Emptied) \in Nat
  BY <1>1, FS_CardinalityType
<1>3. /\ Filling # {} => Cardinality(Filling) > 0
      /\ Filled # {} => Cardinality(Filled) > 0
      /\ Emptying # {} => Cardinality(Emptying) > 0
      /\ Emptied # {} => Cardinality(Emptied) > 0
  <2>1. ASSUME NEW S, IsFiniteSet(S), Cardinality(S) \in Nat, S # {}
        PROVE  Cardinality(S) > 0
    BY <2>1, FS_EmptySet
  <2> QED BY <1>1, <1>2, <2>1
<1>4. /\ \A p \in Producers : pc[p] \in Holding => Filling # {}
      /\ \A p \in Producers : pc[p] = "post" => Filled # {}
      /\ \A c \in Consumers : pc[c] \in Holding => Emptying # {}
      /\ \A c \in Consumers : pc[c] = "post" => Emptied # {}
  BY DEF Filling, Filled, Emptying, Emptied, Having, Posting
<1> QED BY <1>2, <1>3, <1>4

\* A step of a producer changes only the producers' counts.
LEMMA ProducerCounts ==
  ASSUME TypeOK, NEW p \in Producers, NEW l \in PLabels, Goto(p, l)
  PROVE  /\ Cardinality(Filling)' = Cardinality(Filling) + Bit(l \in Holding) - Bit(pc[p] \in Holding)
         /\ Cardinality(Filled)' = Cardinality(Filled) + Bit(l \in Posting) - Bit(pc[p] \in Posting)
         /\ Cardinality(Emptying)' = Cardinality(Emptying)
         /\ Cardinality(Emptied)' = Cardinality(Emptied)
<1>1. /\ pc \in [Threads -> PLabels] /\ p \in Threads
      /\ Producers \in SUBSET Threads /\ Consumers \in SUBSET Threads
      /\ IsFiniteSet(Producers) /\ IsFiniteSet(Consumers) /\ p \notin Consumers
  BY ThreadsAssumption DEF TypeOK, Threads
<1>2. Cardinality(Filling)' = Cardinality(Filling) + Bit(l \in Holding) - Bit(pc[p] \in Holding)
  <2>1. /\ Filling = {x \in Producers : pc[x] \in Holding}
        /\ Filling' = {x \in Producers : [pc EXCEPT ![p] = l][x] \in Holding}
    BY DEF Filling, Having, Goto
  <2> HIDE DEF Filling
  <2> QED BY ONLY <1>1, <2>1, MoveCount, p \in Producers, l \in PLabels
<1>3. Cardinality(Filled)' = Cardinality(Filled) + Bit(l \in Posting) - Bit(pc[p] \in Posting)
  <2>1. /\ Filled = {x \in Producers : pc[x] \in Posting}
        /\ Filled' = {x \in Producers : [pc EXCEPT ![p] = l][x] \in Posting}
    BY DEF Filled, Having, Goto
  <2> HIDE DEF Filled
  <2> QED BY ONLY <1>1, <2>1, MoveCount, p \in Producers, l \in PLabels
<1>4. Emptying' = Emptying /\ Emptied' = Emptied
  BY <1>1 DEF Emptying, Emptied, Having, Goto
<1> QED BY <1>2, <1>3, <1>4

\* A step of a consumer changes only the consumers' counts.
LEMMA ConsumerCounts ==
  ASSUME TypeOK, NEW c \in Consumers, NEW l \in PLabels, Goto(c, l)
  PROVE  /\ Cardinality(Emptying)' = Cardinality(Emptying) + Bit(l \in Holding) - Bit(pc[c] \in Holding)
         /\ Cardinality(Emptied)' = Cardinality(Emptied) + Bit(l \in Posting) - Bit(pc[c] \in Posting)
         /\ Cardinality(Filling)' = Cardinality(Filling)
         /\ Cardinality(Filled)' = Cardinality(Filled)
<1>1. /\ pc \in [Threads -> PLabels] /\ c \in Threads
      /\ Producers \in SUBSET Threads /\ Consumers \in SUBSET Threads
      /\ IsFiniteSet(Producers) /\ IsFiniteSet(Consumers) /\ c \notin Producers
  BY ThreadsAssumption DEF TypeOK, Threads
<1>2. Cardinality(Emptying)' = Cardinality(Emptying) + Bit(l \in Holding) - Bit(pc[c] \in Holding)
  <2>1. /\ Emptying = {x \in Consumers : pc[x] \in Holding}
        /\ Emptying' = {x \in Consumers : [pc EXCEPT ![c] = l][x] \in Holding}
    BY DEF Emptying, Having, Goto
  <2> HIDE DEF Emptying
  <2> QED BY ONLY <1>1, <2>1, MoveCount, c \in Consumers, l \in PLabels
<1>3. Cardinality(Emptied)' = Cardinality(Emptied) + Bit(l \in Posting) - Bit(pc[c] \in Posting)
  <2>1. /\ Emptied = {x \in Consumers : pc[x] \in Posting}
        /\ Emptied' = {x \in Consumers : [pc EXCEPT ![c] = l][x] \in Posting}
    BY DEF Emptied, Having, Goto
  <2> HIDE DEF Emptied
  <2> QED BY ONLY <1>1, <2>1, MoveCount, c \in Consumers, l \in PLabels
<1>4. Filling' = Filling /\ Filled' = Filled
  BY <1>1 DEF Filling, Filled, Having, Goto
<1> QED BY <1>2, <1>3, <1>4

\* The slots from the read index on are in the ring, and all different.
LEMMA SlotFacts ==
  ASSUME TypeOK
  PROVE  /\ \A k \in 0 .. Size : Slot(k) \in Slots
         /\ \A j, k \in 0 .. Size - 1 : Slot(j) = Slot(k) => j = k
         /\ \A k \in 1 .. Size - 1 : Slot(k) # consumeAt
         /\ Slot(0) = consumeAt /\ Slot(Size) = consumeAt
         /\ \A k \in 0 .. Size - 1 : Slot(k + 1) = Next1(Slot(k))
BY SizeAssumption DEF TypeOK, Slot, Slots, Next1

\* A step of any thread preserves the invariant.
LEMMA StepInv ==
  ASSUME IInv, Next
  PROVE  IInv'
<1> USE ThreadsAssumption, ValuesAssumption, SizeAssumption DEF IInv, Threads
<1>1. ASSUME NEW p \in Producers, CallProduce(p) PROVE IInv'
  <2> USE <1>1 DEF CallProduce
  <2>1. Goto(p, "wait") /\ "wait" \in PLabels
    BY DEF PLabels
  <2>2. /\ Cardinality(Filling)' = Cardinality(Filling)
        /\ Cardinality(Filled)' = Cardinality(Filled)
        /\ Cardinality(Emptying)' = Cardinality(Emptying)
        /\ Cardinality(Emptied)' = Cardinality(Emptied)
    BY <2>1, ProducerCounts, CountsType DEF At, Bit, Holding, Posting
  <2>3. /\ Occupied' = Occupied /\ TokensConserved' /\ Occupied \in 0 .. Size
        /\ Occupied' \in 0 .. Size /\ empty' \in 0 .. Size /\ used' \in 0 .. Size
    BY <2>2, CountsType DEF Occupied, TokensConserved, TypeOK, At, Holding
  <2>4. TypeOK'
    BY <2>1, <2>3 DEF TypeOK, At, Goto
  <2>5. LocksExclude'
    BY DEF LocksExclude, TypeOK, At, Goto, Critical
  <2>6. IndicesAgree'
    BY <2>3 DEF IndicesAgree, Slot, TypeOK
  <2>7. ContentsIntact'
    BY <2>3, CountsType DEF ContentsIntact, TypeOK, At, Goto, Slot
  <2> QED BY <2>3, <2>4, <2>5, <2>6, <2>7 DEF IInv
<1>2. ASSUME NEW p \in Producers, WaitEmpty(p) PROVE IInv'
  <2> USE <1>2 DEF WaitEmpty
  <2>1. Goto(p, "lock") /\ "lock" \in PLabels
    BY DEF PLabels
  <2>2. /\ Cardinality(Filling)' = Cardinality(Filling) + 1
        /\ Cardinality(Filled)' = Cardinality(Filled)
        /\ Cardinality(Emptying)' = Cardinality(Emptying)
        /\ Cardinality(Emptied)' = Cardinality(Emptied)
    BY <2>1, ProducerCounts, CountsType DEF At, Bit, Holding, Posting
  <2>3. /\ Occupied' = Occupied /\ TokensConserved' /\ Occupied \in 0 .. Size
        /\ Occupied' \in 0 .. Size /\ empty' \in 0 .. Size /\ used' \in 0 .. Size
    BY <2>2, CountsType DEF Occupied, TokensConserved, TypeOK, At, Holding
  <2>4. TypeOK'
    BY <2>1, <2>3 DEF TypeOK, At, Goto
  <2>5. LocksExclude'
    BY DEF LocksExclude, TypeOK, At, Goto, Critical
  <2>6. IndicesAgree'
    BY <2>3 DEF IndicesAgree, Slot, TypeOK
  <2>7. ContentsIntact'
    BY <2>3, CountsType DEF ContentsIntact, TypeOK, At, Goto, Slot
  <2> QED BY <2>3, <2>4, <2>5, <2>6, <2>7 DEF IInv
<1>3. ASSUME NEW p \in Producers, LockProduce(p) PROVE IInv'
  <2> USE <1>3 DEF LockProduce
  <2>1. Goto(p, "assign") /\ "assign" \in PLabels
    BY DEF PLabels
  <2>2. /\ Cardinality(Filling)' = Cardinality(Filling)
        /\ Cardinality(Filled)' = Cardinality(Filled)
        /\ Cardinality(Emptying)' = Cardinality(Emptying)
        /\ Cardinality(Emptied)' = Cardinality(Emptied)
    BY <2>1, ProducerCounts, CountsType DEF At, Bit, Holding, Posting
  <2>3. /\ Occupied' = Occupied /\ TokensConserved' /\ Occupied \in 0 .. Size
        /\ Occupied' \in 0 .. Size /\ empty' \in 0 .. Size /\ used' \in 0 .. Size
    BY <2>2, CountsType DEF Occupied, TokensConserved, TypeOK, At, Holding
  <2>4. TypeOK'
    BY <2>1, <2>3 DEF TypeOK, At, Goto
  <2>5. LocksExclude'
    BY DEF LocksExclude, TypeOK, At, Goto, Critical
  <2>6. IndicesAgree'
    BY <2>3 DEF IndicesAgree, Slot, TypeOK
  <2>7. ContentsIntact'
    BY <2>3, CountsType DEF ContentsIntact, TypeOK, At, Goto, Slot
  <2> QED BY <2>3, <2>4, <2>5, <2>6, <2>7 DEF IInv
<1>4. ASSUME NEW p \in Producers, AssignSlot(p) PROVE IInv'
  <2> USE <1>4 DEF AssignSlot
  <2>1. Goto(p, "advance") /\ "advance" \in PLabels
    BY DEF PLabels
  <2>2. /\ Cardinality(Filling)' = Cardinality(Filling)
        /\ Cardinality(Filled)' = Cardinality(Filled)
        /\ Cardinality(Emptying)' = Cardinality(Emptying)
        /\ Cardinality(Emptied)' = Cardinality(Emptied)
    BY <2>1, ProducerCounts, CountsType DEF At, Bit, Holding, Posting
  <2>3. /\ Occupied' = Occupied /\ TokensConserved' /\ Occupied \in 0 .. Size
        /\ Occupied' \in 0 .. Size /\ empty' \in 0 .. Size /\ used' \in 0 .. Size
    BY <2>2, CountsType DEF Occupied, TokensConserved, TypeOK, At, Holding
  <2>4. TypeOK'
    BY <2>1, <2>3 DEF TypeOK, At, Goto
  <2>5. LocksExclude'
    BY DEF LocksExclude, TypeOK, At, Goto, Critical
  <2>6. IndicesAgree'
    BY <2>3 DEF IndicesAgree, Slot, TypeOK
  <2>7. ContentsIntact'
    <3>1. Occupied < Size /\ \A k \in 0 .. Occupied - 1 : produceAt # Slot(k)
      BY <2>2, <2>3, CountsType, SlotFacts DEF TokensConserved, IndicesAgree, At, Holding, Occupied, TypeOK
    <3>2. \A c \in Consumers : pc[c] = "advance" => consumeAt # produceAt
      BY <2>3, <3>1, CountsType, SlotFacts DEF Holding, Occupied, TypeOK
    <3>3. \A k \in 0 .. Occupied' - 1 : storage'[Slot(k)'] \in Values
      BY <2>3, <3>1, SlotFacts DEF ContentsIntact, TypeOK, Slot
    <3>4. \A q \in Producers : pc'[q] = "advance" => storage'[produceAt'] = val'[q]
      BY DEF LocksExclude, TypeOK, At, Goto, Critical
    <3>5. \A c \in Consumers : pc'[c] = "advance" => out'[c] = storage'[consumeAt']
      BY <3>2 DEF ContentsIntact, TypeOK, At, Goto
    <3>6. /\ \A q \in Producers : val'[q] = None <=> pc'[q] = "idle"
          /\ \A c \in Consumers : pc'[c] = "post" => out'[c] \in Values
      BY DEF ContentsIntact, TypeOK, At, Goto
    <3> QED BY <3>3, <3>4, <3>5, <3>6 DEF ContentsIntact
  <2> QED BY <2>3, <2>4, <2>5, <2>6, <2>7 DEF IInv
<1>5. ASSUME NEW p \in Producers, AssignSlotThrows(p) PROVE IInv'
  <2> USE <1>5 DEF AssignSlotThrows
  <2>1. Goto(p, "undo") /\ "undo" \in PLabels
    BY DEF PLabels
  <2>2. /\ Cardinality(Filling)' = Cardinality(Filling)
        /\ Cardinality(Filled)' = Cardinality(Filled)
        /\ Cardinality(Emptying)' = Cardinality(Emptying)
        /\ Cardinality(Emptied)' = Cardinality(Emptied)
    BY <2>1, ProducerCounts, CountsType DEF At, Bit, Holding, Posting
  <2>3. /\ Occupied' = Occupied /\ TokensConserved' /\ Occupied \in 0 .. Size
        /\ Occupied' \in 0 .. Size /\ empty' \in 0 .. Size /\ used' \in 0 .. Size
    BY <2>2, CountsType DEF Occupied, TokensConserved, TypeOK, At, Holding
  <2>4. TypeOK'
    BY <2>1, <2>3 DEF TypeOK, At, Goto
  <2>5. LocksExclude'
    BY DEF LocksExclude, TypeOK, At, Goto, Critical
  <2>6. IndicesAgree'
    BY <2>3 DEF IndicesAgree, Slot, TypeOK
  <2>7. ContentsIntact'
    <3>1. Occupied < Size /\ \A k \in 0 .. Occupied - 1 : produceAt # Slot(k)
      BY <2>2, <2>3, CountsType, SlotFacts DEF TokensConserved, IndicesAgree, At, Holding, Occupied, TypeOK
    <3>2. \A c \in Consumers : pc[c] = "advance" => consumeAt # produceAt
      BY <2>3, <3>1, CountsType, SlotFacts DEF Holding, Occupied, TypeOK
    <3>3. \A k \in 0 .. Occupied' - 1 : storage'[Slot(k)'] \in Values
      BY <2>3, <3>1, SlotFacts DEF ContentsIntact, TypeOK, Slot
    <3>4. \A q \in Producers : pc'[q] = "advance" => storage'[produceAt'] = val'[q]
      BY DEF LocksExclude, TypeOK, At, Goto, Critical
    <3>5. \A c \in Consumers : pc'[c] = "advance" => out'[c] = storage'[consumeAt']
      BY <3>2 DEF ContentsIntact, TypeOK, At, Goto
    <3>6. /\ \A q \in Producers : val'[q] = None <=> pc'[q] = "idle"
          /\ \A c \in Consumers : pc'[c] = "post" => out'[c] \in Values
      BY DEF ContentsIntact, TypeOK, At, Goto
    <3> QED BY <3>3, <3>4, <3>5, <3>6 DEF ContentsIntact
  <2> QED BY <2>3, <2>4, <2>5, <2>6, <2>7 DEF IInv
<1>6. ASSUME NEW p \in Producers, UndoProduce(p) PROVE IInv'
  <2> USE <1>6 DEF UndoProduce
  <2>1. Goto(p, "unwind") /\ "unwind" \in PLabels
    BY DEF PLabels
  <2>2. /\ Cardinality(Filling)' = Cardinality(Filling) - 1
        /\ Cardinality(Filled)' = Cardinality(Filled)
        /\ Cardinality(Emptying)' = Cardinality(Emptying)
        /\ Cardinality(Emptied)' = Cardinality(Emptied)
    BY <2>1, ProducerCounts, CountsType DEF At, Bit, Holding, Posting
  <2>3. /\ Occupied' = Occupied /\ TokensConserved' /\ Occupied \in 0 .. Size
        /\ Occupied' \in 0 .. Size /\ empty' \in 0 .. Size /\ used' \in 0 .. Size
    BY <2>2, CountsType DEF Occupied, TokensConserved, TypeOK, At, Holding
  <2>4. TypeOK'
    BY <2>1, <2>3 DEF TypeOK, At, Goto
  <2>5. LocksExclude'
    BY DEF LocksExclude, TypeOK, At, Goto, Critical
  <2>6. IndicesAgree'
    BY <2>3 DEF IndicesAgree, Slot, TypeOK
  <2>7. ContentsIntact'
    BY <2>3, CountsType DEF ContentsIntact, TypeOK, At, Goto, Slot
  <2> QED BY <2>3, <2>4, <2>5, <2>6, <2>7 DEF IInv
<1>7. ASSUME NEW p \in Producers, UnwindProduce(p) PROVE IInv'
  <2> USE <1>7 DEF UnwindProduce
  <2>1. Goto(p, "idle") /\ "idle" \in PLabels
    BY DEF PLabels
  <2>2. /\ Cardinality(Filling)' = Cardinality(Filling)
        /\ Cardinality(Filled)' = Cardinality(Filled)
        /\ Cardinality(Emptying)' = Cardinality(Emptying)
        /\ Cardinality(Emptied)' = Cardinality(Emptied)
    BY <2>1, ProducerCounts, CountsType DEF At, Bit, Holding, Posting
  <2>3. /\ Occupied' = Occupied /\ TokensConserved' /\ Occupied \in 0 .. Size
        /\ Occupied' \in 0 .. Size /\ empty' \in 0 .. Size /\ used' \in 0 .. Size
    BY <2>2, CountsType DEF Occupied, TokensConserved, TypeOK, At, Holding
  <2>4. TypeOK'
    BY <2>1, <2>3 DEF TypeOK, At, Goto
  <2>5. LocksExclude'
    BY DEF LocksExclude, TypeOK, At, Goto, Critical
  <2>6. IndicesAgree'
    BY <2>3 DEF IndicesAgree, Slot, TypeOK
  <2>7. ContentsIntact'
    BY <2>3, CountsType DEF ContentsIntact, TypeOK, At, Goto, Slot
  <2> QED BY <2>3, <2>4, <2>5, <2>6, <2>7 DEF IInv
<1>8. ASSUME NEW p \in Producers, AdvanceProduce(p) PROVE IInv'
  <2> USE <1>8 DEF AdvanceProduce
  <2>1. Goto(p, "post") /\ "post" \in PLabels
    BY DEF PLabels
  <2>2. /\ Cardinality(Filling)' = Cardinality(Filling) - 1
        /\ Cardinality(Filled)' = Cardinality(Filled) + 1
        /\ Cardinality(Emptying)' = Cardinality(Emptying)
        /\ Cardinality(Emptied)' = Cardinality(Emptied)
    BY <2>1, ProducerCounts, CountsType DEF At, Bit, Holding, Posting
  <2>3. /\ Occupied' = Occupied + 1 /\ TokensConserved' /\ Occupied \in 0 .. Size
        /\ Occupied' \in 0 .. Size /\ empty' \in 0 .. Size /\ used' \in 0 .. Size
    BY <2>2, CountsType DEF Occupied, TokensConserved, TypeOK, At, Holding
  <2>4. TypeOK'
    BY <2>1, <2>3 DEF TypeOK, At, Goto, Next1, Slots
  <2>5. LocksExclude'
    BY DEF LocksExclude, TypeOK, At, Goto, Critical
  <2>6. IndicesAgree'
    BY <2>3, SlotFacts DEF IndicesAgree, Slot
  <2>7. ContentsIntact'
    <3>1. \A k \in 0 .. Occupied' - 1 : storage'[Slot(k)'] \in Values
      <4>1. storage[Slot(Occupied)] \in Values
        BY DEF ContentsIntact, IndicesAgree, TypeOK, At
      <4>2. \A k \in 0 .. Occupied - 1 : storage[Slot(k)] \in Values
        BY DEF ContentsIntact
      <4> QED BY <2>3, <4>1, <4>2 DEF Slot
    <3>2. /\ \A q \in Producers : val'[q] = None <=> pc'[q] = "idle"
          /\ \A q \in Producers : pc'[q] = "advance" => storage'[produceAt'] = val'[q]
          /\ \A c \in Consumers : pc'[c] = "advance" => out'[c] = storage'[consumeAt']
          /\ \A c \in Consumers : pc'[c] = "post" => out'[c] \in Values
      BY DEF ContentsIntact, LocksExclude, Critical, TypeOK, At, Goto
    <3> QED BY <3>1, <3>2 DEF ContentsIntact
  <2> QED BY <2>3, <2>4, <2>5, <2>6, <2>7 DEF IInv
<1>9. ASSUME NEW p \in Producers, PostUsed(p) PROVE IInv'
  <2> USE <1>9 DEF PostUsed
  <2>1. Goto(p, "idle") /\ "idle" \in PLabels
    BY DEF PLabels
  <2>2. /\ Cardinality(Filling)' = Cardinality(Filling)
        /\ Cardinality(Filled)' = Cardinality(Filled) - 1
        /\ Cardinality(Emptying)' = Cardinality(Emptying)
        /\ Cardinality(Emptied)' = Cardinality(Emptied)
    BY <2>1, ProducerCounts, CountsType DEF At, Bit, Holding, Posting
  <2>3. /\ Occupied' = Occupied /\ TokensConserved' /\ Occupied \in 0 .. Size
        /\ Occupied' \in 0 .. Size /\ empty' \in 0 .. Size /\ used' \in 0 .. Size
    BY <2>2, CountsType DEF Occupied, TokensConserved, TypeOK, At, Holding
  <2>4. TypeOK'
    BY <2>1, <2>3 DEF TypeOK, At, Goto
  <2>5. LocksExclude'
    BY DEF LocksExclude, TypeOK, At, Goto, Critical
  <2>6. IndicesAgree'
    BY <2>3 DEF IndicesAgree, Slot, TypeOK
  <2>7. ContentsIntact'
    BY <2>3, CountsType DEF ContentsIntact, TypeOK, At, Goto, Slot
  <2> QED BY <2>3, <2>4, <2>5, <2>6, <2>7 DEF IInv
<1>10. ASSUME NEW c \in Consumers, CallConsume(c) PROVE IInv'
  <2> USE <1>10 DEF CallConsume
  <2>1. Goto(c, "wait") /\ "wait" \in PLabels
    BY DEF PLabels
  <2>2. /\ Cardinality(Filling)' = Cardinality(Filling)
        /\ Cardinality(Filled)' = Cardinality(Filled)
        /\ Cardinality(Emptying)' = Cardinality(Emptying)
        /\ Cardinality(Emptied)' = Cardinality(Emptied)
    BY <2>1, ConsumerCounts, CountsType DEF At, Bit, Holding, Posting
  <2>3. /\ Occupied' = Occupied /\ TokensConserved' /\ Occupied \in 0 .. Size
        /\ Occupied' \in 0 .. Size /\ empty' \in 0 .. Size /\ used' \in 0 .. Size
    BY <2>2, CountsType DEF Occupied, TokensConserved, TypeOK, At, Holding
  <2>4. TypeOK'
    BY <2>1, <2>3 DEF TypeOK, At, Goto
  <2>5. LocksExclude'
    BY DEF LocksExclude, TypeOK, At, Goto, Critical
  <2>6. IndicesAgree'
    BY <2>3 DEF IndicesAgree, Slot, TypeOK
  <2>7. ContentsIntact'
    BY <2>3, CountsType DEF ContentsIntact, TypeOK, At, Goto, Slot
  <2> QED BY <2>3, <2>4, <2>5, <2>6, <2>7 DEF IInv
<1>11. ASSUME NEW c \in Consumers, WaitUsed(c) PROVE IInv'
  <2> USE <1>11 DEF WaitUsed
  <2>1. Goto(c, "lock") /\ "lock" \in PLabels
    BY DEF PLabels
  <2>2. /\ Cardinality(Filling)' = Cardinality(Filling)
        /\ Cardinality(Filled)' = Cardinality(Filled)
        /\ Cardinality(Emptying)' = Cardinality(Emptying) + 1
        /\ Cardinality(Emptied)' = Cardinality(Emptied)
    BY <2>1, ConsumerCounts, CountsType DEF At, Bit, Holding, Posting
  <2>3. /\ Occupied' = Occupied /\ TokensConserved' /\ Occupied \in 0 .. Size
        /\ Occupied' \in 0 .. Size /\ empty' \in 0 .. Size /\ used' \in 0 .. Size
    BY <2>2, CountsType DEF Occupied, TokensConserved, TypeOK, At, Holding
  <2>4. TypeOK'
    BY <2>1, <2>3 DEF TypeOK, At, Goto
  <2>5. LocksExclude'
    BY DEF LocksExclude, TypeOK, At, Goto, Critical
  <2>6. IndicesAgree'
    BY <2>3 DEF IndicesAgree, Slot, TypeOK
  <2>7. ContentsIntact'
    BY <2>3, CountsType DEF ContentsIntact, TypeOK, At, Goto, Slot
  <2> QED BY <2>3, <2>4, <2>5, <2>6, <2>7 DEF IInv
<1>12. ASSUME NEW c \in Consumers, LockConsume(c) PROVE IInv'
  <2> USE <1>12 DEF LockConsume
  <2>1. Goto(c, "assign") /\ "assign" \in PLabels
    BY DEF PLabels
  <2>2. /\ Cardinality(Filling)' = Cardinality(Filling)
        /\ Cardinality(Filled)' = Cardinality(Filled)
        /\ Cardinality(Emptying)' = Cardinality(Emptying)
        /\ Cardinality(Emptied)' = Cardinality(Emptied)
    BY <2>1, ConsumerCounts, CountsType DEF At, Bit, Holding, Posting
  <2>3. /\ Occupied' = Occupied /\ TokensConserved' /\ Occupied \in 0 .. Size
        /\ Occupied' \in 0 .. Size /\ empty' \in 0 .. Size /\ used' \in 0 .. Size
    BY <2>2, CountsType DEF Occupied, TokensConserved, TypeOK, At, Holding
  <2>4. TypeOK'
    BY <2>1, <2>3 DEF TypeOK, At, Goto
  <2>5. LocksExclude'
    BY DEF LocksExclude, TypeOK, At, Goto, Critical
  <2>6. IndicesAgree'
    BY <2>3 DEF IndicesAgree, Slot, TypeOK
  <2>7. ContentsIntact'
    BY <2>3, CountsType DEF ContentsIntact, TypeOK, At, Goto, Slot
  <2> QED BY <2>3, <2>4, <2>5, <2>6, <2>7 DEF IInv
<1>13. ASSUME NEW c \in Consumers, AssignOut(c) PROVE IInv'
  <2> USE <1>13 DEF AssignOut
  <2>1. Goto(c, "advance") /\ "advance" \in PLabels
    BY DEF PLabels
  <2>2. /\ Cardinality(Filling)' = Cardinality(Filling)
        /\ Cardinality(Filled)' = Cardinality(Filled)
        /\ Cardinality(Emptying)' = Cardinality(Emptying)
        /\ Cardinality(Emptied)' = Cardinality(Emptied)
    BY <2>1, ConsumerCounts, CountsType DEF At, Bit, Holding, Posting
  <2>3. /\ Occupied' = Occupied /\ TokensConserved' /\ Occupied \in 0 .. Size
        /\ Occupied' \in 0 .. Size /\ empty' \in 0 .. Size /\ used' \in 0 .. Size
    BY <2>2, CountsType DEF Occupied, TokensConserved, TypeOK, At, Holding
  <2>4. TypeOK'
    BY <2>1, <2>3 DEF TypeOK, At, Goto
  <2>5. LocksExclude'
    BY DEF LocksExclude, TypeOK, At, Goto, Critical
  <2>6. IndicesAgree'
    BY <2>3 DEF IndicesAgree, Slot, TypeOK
  <2>7. ContentsIntact'
    BY <2>3, CountsType DEF ContentsIntact, TypeOK, At, Goto, Slot
  <2> QED BY <2>3, <2>4, <2>5, <2>6, <2>7 DEF IInv
<1>14. ASSUME NEW c \in Consumers, AssignOutThrows(c) PROVE IInv'
  <2> USE <1>14 DEF AssignOutThrows
  <2>1. Goto(c, "undo") /\ "undo" \in PLabels
    BY DEF PLabels
  <2>2. /\ Cardinality(Filling)' = Cardinality(Filling)
        /\ Cardinality(Filled)' = Cardinality(Filled)
        /\ Cardinality(Emptying)' = Cardinality(Emptying)
        /\ Cardinality(Emptied)' = Cardinality(Emptied)
    BY <2>1, ConsumerCounts, CountsType DEF At, Bit, Holding, Posting
  <2>3. /\ Occupied' = Occupied /\ TokensConserved' /\ Occupied \in 0 .. Size
        /\ Occupied' \in 0 .. Size /\ empty' \in 0 .. Size /\ used' \in 0 .. Size
    BY <2>2, CountsType DEF Occupied, TokensConserved, TypeOK, At, Holding
  <2>4. TypeOK'
    BY <2>1, <2>3 DEF TypeOK, At, Goto
  <2>5. LocksExclude'
    BY DEF LocksExclude, TypeOK, At, Goto, Critical
  <2>6. IndicesAgree'
    BY <2>3 DEF IndicesAgree, Slot, TypeOK
  <2>7. ContentsIntact'
    BY <2>3, CountsType DEF ContentsIntact, TypeOK, At, Goto, Slot
  <2> QED BY <2>3, <2>4, <2>5, <2>6, <2>7 DEF IInv
<1>15. ASSUME NEW c \in Consumers, UndoConsume(c) PROVE IInv'
  <2> USE <1>15 DEF UndoConsume
  <2>1. Goto(c, "unwind") /\ "unwind" \in PLabels
    BY DEF PLabels
  <2>2. /\ Cardinality(Filling)' = Cardinality(Filling)
        /\ Cardinality(Filled)' = Cardinality(Filled)
        /\ Cardinality(Emptying)' = Cardinality(Emptying) - 1
        /\ Cardinality(Emptied)' = Cardinality(Emptied)
    BY <2>1, ConsumerCounts, CountsType DEF At, Bit, Holding, Posting
  <2>3. /\ Occupied' = Occupied /\ TokensConserved' /\ Occupied \in 0 .. Size
        /\ Occupied' \in 0 .. Size /\ empty' \in 0 .. Size /\ used' \in 0 .. Size
    BY <2>2, CountsType DEF Occupied, TokensConserved, TypeOK, At, Holding
  <2>4. TypeOK'
    BY <2>1, <2>3 DEF TypeOK, At, Goto
  <2>5. LocksExclude'
    BY DEF LocksExclude, TypeOK, At, Goto, Critical
  <2>6. IndicesAgree'
    BY <2>3 DEF IndicesAgree, Slot, TypeOK
  <2>7. ContentsIntact'
    BY <2>3, CountsType DEF ContentsIntact, TypeOK, At, Goto, Slot
  <2> QED BY <2>3, <2>4, <2>5, <2>6, <2>7 DEF IInv
<1>16. ASSUME NEW c \in Consumers, UnwindConsume(c) PROVE IInv'
  <2> USE <1>16 DEF UnwindConsume
  <2>1. Goto(c, "idle") /\ "idle" \in PLabels
    BY DEF PLabels
  <2>2. /\ Cardinality(Filling)' = Cardinality(Filling)
        /\ Cardinality(Filled)' = Cardinality(Filled)
        /\ Cardinality(Emptying)' = Cardinality(Emptying)
        /\ Cardinality(Emptied)' = Cardinality(Emptied)
    BY <2>1, ConsumerCounts, CountsType DEF At, Bit, Holding, Posting
  <2>3. /\ Occupied' = Occupied /\ TokensConserved' /\ Occupied \in 0 .. Size
        /\ Occupied' \in 0 .. Size /\ empty' \in 0 .. Size /\ used' \in 0 .. Size
    BY <2>2, CountsType DEF Occupied, TokensConserved, TypeOK, At, Holding
  <2>4. TypeOK'
    BY <2>1, <2>3 DEF TypeOK, At, Goto
  <2>5. LocksExclude'
    BY DEF LocksExclude, TypeOK, At, Goto, Critical
  <2>6. IndicesAgree'
    BY <2>3 DEF IndicesAgree, Slot, TypeOK
  <2>7. ContentsIntact'
    BY <2>3, CountsType DEF ContentsIntact, TypeOK, At, Goto, Slot
  <2> QED BY <2>3, <2>4, <2>5, <2>6, <2>7 DEF IInv
<1>17. ASSUME NEW c \in Consumers, AdvanceConsume(c) PROVE IInv'
  <2> USE <1>17 DEF AdvanceConsume
  <2>1. Goto(c, "post") /\ "post" \in PLabels
    BY DEF PLabels
  <2>2. /\ Cardinality(Filling)' = Cardinality(Filling)
        /\ Cardinality(Filled)' = Cardinality(Filled)
        /\ Cardinality(Emptying)' = Cardinality(Emptying) - 1
        /\ Cardinality(Emptied)' = Cardinality(Emptied) + 1
    BY <2>1, ConsumerCounts, CountsType DEF At, Bit, Holding, Posting
  <2>3. /\ Occupied' = Occupied - 1 /\ TokensConserved' /\ Occupied \in 0 .. Size
        /\ Occupied' \in 0 .. Size /\ empty' \in 0 .. Size /\ used' \in 0 .. Size
    BY <2>2, CountsType DEF Occupied, TokensConserved, TypeOK, At, Holding
  <2>4. TypeOK'
    BY <2>1, <2>3 DEF TypeOK, At, Goto, Next1, Slots
  <2>5. LocksExclude'
    BY DEF LocksExclude, TypeOK, At, Goto, Critical
  <2>6. IndicesAgree'
    BY <2>3, SlotFacts DEF IndicesAgree, Slot, Next1, TypeOK, Slots
  <2>7. ContentsIntact'
    <3>1. \A k \in 0 .. Occupied' - 1 : Slot(k)' = Slot(k + 1)
      BY <2>3, SlotFacts DEF Slot, Next1, TypeOK, Slots
    <3>2. \A k \in 0 .. Occupied' - 1 : storage'[Slot(k)'] \in Values
      BY <2>3, <3>1 DEF ContentsIntact
    <3>3. storage[consumeAt] \in Values
      BY <2>3, SlotFacts DEF ContentsIntact
    <3>4. /\ \A q \in Producers : val'[q] = None <=> pc'[q] = "idle"
          /\ \A q \in Producers : pc'[q] = "advance" => storage'[produceAt'] = val'[q]
          /\ \A d \in Consumers : pc'[d] = "advance" => out'[d] = storage'[consumeAt']
          /\ \A d \in Consumers : pc'[d] = "post" => out'[d] \in Values
      BY <3>3 DEF ContentsIntact, LocksExclude, Critical, TypeOK, At, Goto
    <3> QED BY <3>2, <3>4 DEF ContentsIntact
  <2> QED BY <2>3, <2>4, <2>5, <2>6, <2>7 DEF IInv
<1>18. ASSUME NEW c \in Consumers, PostEmpty(c) PROVE IInv'
  <2> USE <1>18 DEF PostEmpty
  <2>1. Goto(c, "idle") /\ "idle" \in PLabels
    BY DEF PLabels
  <2>2. /\ Cardinality(Filling)' = Cardinality(Filling)
        /\ Cardinality(Filled)' = Cardinality(Filled)
        /\ Cardinality(Emptying)' = Cardinality(Emptying)
        /\ Cardinality(Emptied)' = Cardinality(Emptied) - 1
    BY <2>1, ConsumerCounts, CountsType DEF At, Bit, Holding, Posting
  <2>3. /\ Occupied' = Occupied /\ TokensConserved' /\ Occupied \in 0 .. Size
        /\ Occupied' \in 0 .. Size /\ empty' \in 0 .. Size /\ used' \in 0 .. Size
    BY <2>2, CountsType DEF Occupied, TokensConserved, TypeOK, At, Holding
  <2>4. TypeOK'
    BY <2>1, <2>3 DEF TypeOK, At, Goto
  <2>5. LocksExclude'
    BY DEF LocksExclude, TypeOK, At, Goto, Critical
  <2>6. IndicesAgree'
    BY <2>3 DEF IndicesAgree, Slot, TypeOK
  <2>7. ContentsIntact'
    BY <2>3, CountsType DEF ContentsIntact, TypeOK, At, Goto, Slot
  <2> QED BY <2>3, <2>4, <2>5, <2>6, <2>7 DEF IInv
<1> QED BY <1>1, <1>2, <1>3, <1>4, <1>5, <1>6, <1>7, <1>8, <1>9, <1>10, <1>11, <1>12, <1>13, <1>14, <1>15, <1>16, <1>17, <1>18 DEF Next, InProduce, InConsume

LEMMA InitInv == Init => IInv
<1> SUFFICES ASSUME Init PROVE IInv
  OBVIOUS
<1> USE ThreadsAssumption, ValuesAssumption, SizeAssumption DEF Init
<1>1. Filling = {} /\ Filled = {} /\ Emptying = {} /\ Emptied = {}
  BY DEF Filling, Filled, Emptying, Emptied, Having, Holding, Posting, Threads
<1>2. Occupied = 0 /\ TokensConserved
  BY <1>1, FS_EmptySet DEF Occupied, TokensConserved
<1>3. TypeOK
  BY DEF TypeOK, Slots, Threads, PLabels
<1>4. LocksExclude /\ ContentsIntact
  BY <1>2 DEF LocksExclude, ContentsIntact, Critical, Threads
<1>5. IndicesAgree
  BY <1>2 DEF IndicesAgree, Slot
<1> QED BY <1>2, <1>3, <1>4, <1>5 DEF IInv

LEMMA StutterInv == IInv /\ UNCHANGED vars => IInv'
<1> SUFFICES ASSUME IInv, UNCHANGED vars PROVE IInv'
  OBVIOUS
<1>1. Filling' = Filling /\ Filled' = Filled /\ Emptying' = Emptying /\ Emptied' = Emptied
  BY DEF vars, Filling, Filled, Emptying, Emptied, Having
<1>2. Occupied' = Occupied /\ TokensConserved'
  BY <1>1 DEF IInv, vars, Occupied, TokensConserved
<1> QED BY <1>2 DEF IInv, vars, TypeOK, LocksExclude, IndicesAgree, Slot, ContentsIntact

\* Whatever the threads of util/pcqueue.hh do, locks, tokens, indices and slots agree.
THEOREM Invariance == Spec => []IInv
<1>1. IInv /\ [Next]_vars => IInv'
  BY StepInv, StutterInv
<1> QED BY <1>1, InitInv, PTL DEF Spec

\* Every reachable state is type correct, for any number of threads, any
\* capacity and any set of values.
THEOREM TypeCorrect == Spec => []TypeOK
BY Invariance, PTL DEF IInv

\* No interleaving and no throwing assignment loses or invents a slot.
THEOREM NoSlotLost == Spec => []TokensConserved
BY Invariance, PTL DEF IInv

\* A producer that is assigning and a consumer that is assigning are never at
\* the same slot, although no mutex orders them.
THEOREM NoRace == Spec => []NoSlotRace
<1>1. IInv => NoSlotRace
  <2> SUFFICES ASSUME IInv, NEW p \in Producers, NEW c \in Consumers,
                      pc[p] \in {"assign", "advance"}, pc[c] \in {"assign", "advance"}
               PROVE  produceAt # consumeAt
    BY DEF NoSlotRace
  <2>1. Cardinality(Filling) > 0 /\ Cardinality(Emptying) > 0
    BY CountsType DEF IInv, Holding
  <2>2. Occupied \in 1 .. Size - 1
    BY <2>1, CountsType, SizeAssumption DEF IInv, TypeOK, TokensConserved, Occupied
  <2> QED BY <2>2, SlotFacts DEF IInv, IndicesAgree
<1> QED BY <1>1, Invariance, PTL

------------------------------------------------------------------------------
\* The steps of the queue are steps of the bounded FIFO: Produce takes effect
\* when it advances the write index, Consume when it advances the read index.

\* A step that leaves the occupied slots and the two indices alone leaves the
\* buffer alone.
LEMMA BufferStable ==
  ASSUME IInv, Occupied' = Occupied, consumeAt' = consumeAt,
         \A k \in 0 .. Occupied - 1 : storage'[Slot(k)] = storage[Slot(k)]
  PROVE  Buffer' = Buffer
<1>1. Occupied \in Nat
  BY CountsType DEF IInv, Occupied, TypeOK
<1>2. \A k \in 1 .. Occupied : k - 1 \in 0 .. Occupied - 1
  BY <1>1
<1>3. \A k \in 1 .. Occupied : storage'[Slot(k - 1)'] = storage[Slot(k - 1)]
  BY <1>2 DEF Slot
<1> QED BY <1>3 DEF Buffer

\* The slot a producer assigns is none of the occupied ones.
LEMMA WriteSlotFree ==
  ASSUME IInv, NEW p \in Producers, pc[p] = "assign"
  PROVE  \A k \in 0 .. Occupied - 1 : produceAt # Slot(k)
<1>1. Occupied \in 0 .. Size - 1
  BY CountsType, SizeAssumption DEF IInv, TypeOK, TokensConserved, Occupied, Holding
<1> QED BY <1>1, SlotFacts, SizeAssumption DEF IInv, IndicesAgree

\* Head and Tail by their elements.
LEMMA HeadTail ==
  ASSUME NEW S, NEW s \in Seq(S), s # << >>
  PROVE  Head(s) = s[1] /\ Tail(s) = [k \in 1 .. Len(s) - 1 |-> s[k + 1]]
<1>1. Head(s) = s[1]
  OBVIOUS
<1>2. /\ Tail(s) \in Seq(S) /\ Len(s) \in Nat /\ Len(Tail(s)) = Len(s) - 1
      /\ \A i \in 1 .. Len(Tail(s)) : Tail(s)[i] = s[i + 1]
  BY HeadTailProperties
<1>3. \A t \in Seq(S) : t = [k \in 1 .. Len(t) |-> t[k]]
  OBVIOUS
<1>4. Tail(s) = [k \in 1 .. Len(Tail(s)) |-> Tail(s)[k]]
  BY <1>2, <1>3
<1> QED BY <1>1, <1>2, <1>4

\* Every step of a thread is a step of the FIFO or leaves it unchanged.
LEMMA FifoStep ==
  ASSUME IInv, IInv', Next
  PROVE  Fifo!Next \/ UNCHANGED <<Buffer, Offered, Taken>>
<1> USE ThreadsAssumption, ValuesAssumption, SizeAssumption DEF Threads
<1>1. ASSUME NEW p \in Producers, CallProduce(p)
      PROVE  Fifo!Next \/ UNCHANGED <<Buffer, Offered, Taken>>
  <2> USE <1>1 DEF CallProduce
  <2>1. Goto(p, "wait") /\ "wait" \in PLabels
    BY DEF PLabels
  <2>c. /\ Cardinality(Filled)' = Cardinality(Filled)
        /\ Cardinality(Emptying)' = Cardinality(Emptying)
    BY <2>1, ProducerCounts, CountsType DEF IInv, At, Bit, Holding, Posting
  <2>2. Occupied' = Occupied /\ Occupied \in 0 .. Size
    BY <2>c, CountsType DEF IInv, At, TypeOK, Occupied, TokensConserved
  <2>4. Buffer' = Buffer
    BY <2>2, BufferStable
  <2>5. PICK v \in Values : val' = [val EXCEPT ![p] = v]
    OBVIOUS
  <2>6. Offered[p] = None /\ Offered' = [Offered EXCEPT ![p] = v] /\ Taken' = Taken
    BY <2>5 DEF Offered, Taken, IInv, TypeOK, At, Goto
  <2> QED BY <2>4, <2>6 DEF Fifo!Next, Fifo!Offer
<1>2. ASSUME NEW p \in Producers, WaitEmpty(p)
      PROVE  Fifo!Next \/ UNCHANGED <<Buffer, Offered, Taken>>
  <2> USE <1>2 DEF WaitEmpty
  <2>1. Goto(p, "lock") /\ "lock" \in PLabels
    BY DEF PLabels
  <2>c. /\ Cardinality(Filled)' = Cardinality(Filled)
        /\ Cardinality(Emptying)' = Cardinality(Emptying)
    BY <2>1, ProducerCounts, CountsType DEF IInv, At, Bit, Holding, Posting
  <2>2. Occupied' = Occupied /\ Occupied \in 0 .. Size
    BY <2>c, CountsType DEF IInv, At, TypeOK, Occupied, TokensConserved
  <2>4. Buffer' = Buffer
    BY <2>2, BufferStable
  <2>6. Offered' = Offered /\ Taken' = Taken
    BY DEF Offered, Taken, IInv, TypeOK, At, Goto
  <2> QED BY <2>4, <2>6
<1>3. ASSUME NEW p \in Producers, LockProduce(p)
      PROVE  Fifo!Next \/ UNCHANGED <<Buffer, Offered, Taken>>
  <2> USE <1>3 DEF LockProduce
  <2>1. Goto(p, "assign") /\ "assign" \in PLabels
    BY DEF PLabels
  <2>c. /\ Cardinality(Filled)' = Cardinality(Filled)
        /\ Cardinality(Emptying)' = Cardinality(Emptying)
    BY <2>1, ProducerCounts, CountsType DEF IInv, At, Bit, Holding, Posting
  <2>2. Occupied' = Occupied /\ Occupied \in 0 .. Size
    BY <2>c, CountsType DEF IInv, At, TypeOK, Occupied, TokensConserved
  <2>4. Buffer' = Buffer
    BY <2>2, BufferStable
  <2>6. Offered' = Offered /\ Taken' = Taken
    BY DEF Offered, Taken, IInv, TypeOK, At, Goto
  <2> QED BY <2>4, <2>6
<1>4. ASSUME NEW p \in Producers, AssignSlot(p)
      PROVE  Fifo!Next \/ UNCHANGED <<Buffer, Offered, Taken>>
  <2> USE <1>4 DEF AssignSlot
  <2>1. Goto(p, "advance") /\ "advance" \in PLabels
    BY DEF PLabels
  <2>c. /\ Cardinality(Filled)' = Cardinality(Filled)
        /\ Cardinality(Emptying)' = Cardinality(Emptying)
    BY <2>1, ProducerCounts, CountsType DEF IInv, At, Bit, Holding, Posting
  <2>2. Occupied' = Occupied /\ Occupied \in 0 .. Size
    BY <2>c, CountsType DEF IInv, At, TypeOK, Occupied, TokensConserved
  <2>3. \A k \in 0 .. Occupied - 1 : storage'[Slot(k)] = storage[Slot(k)]
    BY WriteSlotFree, SlotFacts, <2>2 DEF IInv, TypeOK, At
  <2>4. Buffer' = Buffer
    BY <2>2, <2>3, BufferStable
  <2>6. Offered' = Offered /\ Taken' = Taken
    BY DEF Offered, Taken, IInv, TypeOK, At, Goto
  <2> QED BY <2>4, <2>6
<1>5. ASSUME NEW p \in Producers, AssignSlotThrows(p)
      PROVE  Fifo!Next \/ UNCHANGED <<Buffer, Offered, Taken>>
  <2> USE <1>5 DEF AssignSlotThrows
  <2>1. Goto(p, "undo") /\ "undo" \in PLabels
    BY DEF PLabels
  <2>c. /\ Cardinality(Filled)' = Cardinality(Filled)
        /\ Cardinality(Emptying)' = Cardinality(Emptying)
    BY <2>1, ProducerCounts, CountsType DEF IInv, At, Bit, Holding, Posting
  <2>2. Occupied' = Occupied /\ Occupied \in 0 .. Size
    BY <2>c, CountsType DEF IInv, At, TypeOK, Occupied, TokensConserved
  <2>3. \A k \in 0 .. Occupied - 1 : storage'[Slot(k)] = storage[Slot(k)]
    BY WriteSlotFree, SlotFacts, <2>2 DEF IInv, TypeOK, At
  <2>4. Buffer' = Buffer
    BY <2>2, <2>3, BufferStable
  <2>6. Offered' = Offered /\ Taken' = Taken
    BY DEF Offered, Taken, IInv, TypeOK, At, Goto
  <2> QED BY <2>4, <2>6
<1>6. ASSUME NEW p \in Producers, UndoProduce(p)
      PROVE  Fifo!Next \/ UNCHANGED <<Buffer, Offered, Taken>>
  <2> USE <1>6 DEF UndoProduce
  <2>1. Goto(p, "unwind") /\ "unwind" \in PLabels
    BY DEF PLabels
  <2>c. /\ Cardinality(Filled)' = Cardinality(Filled)
        /\ Cardinality(Emptying)' = Cardinality(Emptying)
    BY <2>1, ProducerCounts, CountsType DEF IInv, At, Bit, Holding, Posting
  <2>2. Occupied' = Occupied /\ Occupied \in 0 .. Size
    BY <2>c, CountsType DEF IInv, At, TypeOK, Occupied, TokensConserved
  <2>4. Buffer' = Buffer
    BY <2>2, BufferStable
  <2>6. Offered' = Offered /\ Taken' = Taken
    BY DEF Offered, Taken, IInv, TypeOK, At, Goto
  <2> QED BY <2>4, <2>6
<1>7. ASSUME NEW p \in Producers, UnwindProduce(p)
      PROVE  Fifo!Next \/ UNCHANGED <<Buffer, Offered, Taken>>
  <2> USE <1>7 DEF UnwindProduce
  <2>1. Goto(p, "idle") /\ "idle" \in PLabels
    BY DEF PLabels
  <2>c. /\ Cardinality(Filled)' = Cardinality(Filled)
        /\ Cardinality(Emptying)' = Cardinality(Emptying)
    BY <2>1, ProducerCounts, CountsType DEF IInv, At, Bit, Holding, Posting
  <2>2. Occupied' = Occupied /\ Occupied \in 0 .. Size
    BY <2>c, CountsType DEF IInv, At, TypeOK, Occupied, TokensConserved
  <2>4. Buffer' = Buffer
    BY <2>2, BufferStable
  <2>6. Offered[p] # None /\ Offered' = [Offered EXCEPT ![p] = None] /\ Taken' = Taken
    BY DEF Offered, Taken, IInv, TypeOK, At, Goto, ContentsIntact
  <2> QED BY <2>4, <2>6 DEF Fifo!Next, Fifo!Withdraw
<1>8. ASSUME NEW p \in Producers, AdvanceProduce(p)
      PROVE  Fifo!Next \/ UNCHANGED <<Buffer, Offered, Taken>>
  <2> USE <1>8 DEF AdvanceProduce
  <2>1. Goto(p, "post") /\ "post" \in PLabels
    BY DEF PLabels
  <2>c. /\ Cardinality(Filled)' = Cardinality(Filled) + 1
        /\ Cardinality(Emptying)' = Cardinality(Emptying)
    BY <2>1, ProducerCounts, CountsType DEF IInv, At, Bit, Holding, Posting
  <2>2. Occupied' = Occupied + 1 /\ Occupied \in 0 .. Size
    BY <2>c, CountsType DEF IInv, At, TypeOK, Occupied, TokensConserved
  <2>3. Len(Buffer) < Size
    <3>1. Len(Buffer) = Occupied
      BY <2>2 DEF Buffer
    <3>2. Occupied < Size
      BY CountsType DEF IInv, TypeOK, TokensConserved, Occupied, Holding, At
    <3> QED BY <3>1, <3>2
  <2>4. Buffer' = Append(Buffer, val[p])
    <3>1. storage[Slot(Occupied)] = val[p]
      BY DEF IInv, IndicesAgree, ContentsIntact, At
    <3>2. \A k \in 1 .. Occupied + 1 : Slot(k - 1)' = Slot(k - 1)
      BY DEF Slot
    <3>3. Buffer' = [k \in 1 .. Occupied + 1 |-> storage[Slot(k - 1)]]
      BY <2>2, <3>2 DEF Buffer
    <3>4. Buffer' = [k \in 1 .. Occupied + 1 |-> IF k = Occupied + 1 THEN val[p] ELSE Buffer[k]]
      BY <2>2, <3>1, <3>3 DEF Buffer
    <3>5. Len(Buffer) = Occupied
      BY <2>2 DEF Buffer
    <3>6. Buffer \in Seq(Values)
      <4>1. \A k \in 1 .. Occupied : Buffer[k] \in Values
        BY <2>2 DEF Buffer, IInv, ContentsIntact
      <4> QED BY <2>2, <4>1 DEF Buffer
    <3> HIDE DEF Buffer
    <3> QED BY <2>2, <3>4, <3>5, <3>6
  <2>5. Offered[p] = val[p] /\ val[p] # None
    BY DEF Offered, IInv, At, ContentsIntact
  <2>6. Offered' = [Offered EXCEPT ![p] = None] /\ Taken' = Taken
    <3>1. pc'[p] = "post" /\ \A t \in Threads \ {p} : pc'[t] = pc[t]
      BY DEF IInv, TypeOK, Goto
    <3>2. Offered' = [Offered EXCEPT ![p] = None]
      BY <3>1 DEF Offered
    <3> QED BY <3>1, <3>2 DEF Taken
  <2> QED BY <2>3, <2>4, <2>5, <2>6 DEF Fifo!Next, Fifo!Enqueue
<1>9. ASSUME NEW p \in Producers, PostUsed(p)
      PROVE  Fifo!Next \/ UNCHANGED <<Buffer, Offered, Taken>>
  <2> USE <1>9 DEF PostUsed
  <2>1. Goto(p, "idle") /\ "idle" \in PLabels
    BY DEF PLabels
  <2>c. /\ Cardinality(Filled)' = Cardinality(Filled) - 1
        /\ Cardinality(Emptying)' = Cardinality(Emptying)
    BY <2>1, ProducerCounts, CountsType DEF IInv, At, Bit, Holding, Posting
  <2>2. Occupied' = Occupied /\ Occupied \in 0 .. Size
    BY <2>c, CountsType DEF IInv, At, TypeOK, Occupied, TokensConserved
  <2>4. Buffer' = Buffer
    BY <2>2, BufferStable
  <2>6. Offered' = Offered /\ Taken' = Taken
    BY DEF Offered, Taken, IInv, TypeOK, At, Goto
  <2> QED BY <2>4, <2>6
<1>10. ASSUME NEW c \in Consumers, CallConsume(c)
      PROVE  Fifo!Next \/ UNCHANGED <<Buffer, Offered, Taken>>
  <2> USE <1>10 DEF CallConsume
  <2>1. Goto(c, "wait") /\ "wait" \in PLabels
    BY DEF PLabels
  <2>c. /\ Cardinality(Filled)' = Cardinality(Filled)
        /\ Cardinality(Emptying)' = Cardinality(Emptying)
    BY <2>1, ConsumerCounts, CountsType DEF IInv, At, Bit, Holding, Posting
  <2>2. Occupied' = Occupied /\ Occupied \in 0 .. Size
    BY <2>c, CountsType DEF IInv, At, TypeOK, Occupied, TokensConserved
  <2>4. Buffer' = Buffer
    BY <2>2, BufferStable
  <2>6. Offered' = Offered /\ Taken' = Taken
    BY DEF Offered, Taken, IInv, TypeOK, At, Goto
  <2> QED BY <2>4, <2>6
<1>11. ASSUME NEW c \in Consumers, WaitUsed(c)
      PROVE  Fifo!Next \/ UNCHANGED <<Buffer, Offered, Taken>>
  <2> USE <1>11 DEF WaitUsed
  <2>1. Goto(c, "lock") /\ "lock" \in PLabels
    BY DEF PLabels
  <2>c. /\ Cardinality(Filled)' = Cardinality(Filled)
        /\ Cardinality(Emptying)' = Cardinality(Emptying) + 1
    BY <2>1, ConsumerCounts, CountsType DEF IInv, At, Bit, Holding, Posting
  <2>2. Occupied' = Occupied /\ Occupied \in 0 .. Size
    BY <2>c, CountsType DEF IInv, At, TypeOK, Occupied, TokensConserved
  <2>4. Buffer' = Buffer
    BY <2>2, BufferStable
  <2>6. Offered' = Offered /\ Taken' = Taken
    BY DEF Offered, Taken, IInv, TypeOK, At, Goto
  <2> QED BY <2>4, <2>6
<1>12. ASSUME NEW c \in Consumers, LockConsume(c)
      PROVE  Fifo!Next \/ UNCHANGED <<Buffer, Offered, Taken>>
  <2> USE <1>12 DEF LockConsume
  <2>1. Goto(c, "assign") /\ "assign" \in PLabels
    BY DEF PLabels
  <2>c. /\ Cardinality(Filled)' = Cardinality(Filled)
        /\ Cardinality(Emptying)' = Cardinality(Emptying)
    BY <2>1, ConsumerCounts, CountsType DEF IInv, At, Bit, Holding, Posting
  <2>2. Occupied' = Occupied /\ Occupied \in 0 .. Size
    BY <2>c, CountsType DEF IInv, At, TypeOK, Occupied, TokensConserved
  <2>4. Buffer' = Buffer
    BY <2>2, BufferStable
  <2>6. Offered' = Offered /\ Taken' = Taken
    BY DEF Offered, Taken, IInv, TypeOK, At, Goto
  <2> QED BY <2>4, <2>6
<1>13. ASSUME NEW c \in Consumers, AssignOut(c)
      PROVE  Fifo!Next \/ UNCHANGED <<Buffer, Offered, Taken>>
  <2> USE <1>13 DEF AssignOut
  <2>1. Goto(c, "advance") /\ "advance" \in PLabels
    BY DEF PLabels
  <2>c. /\ Cardinality(Filled)' = Cardinality(Filled)
        /\ Cardinality(Emptying)' = Cardinality(Emptying)
    BY <2>1, ConsumerCounts, CountsType DEF IInv, At, Bit, Holding, Posting
  <2>2. Occupied' = Occupied /\ Occupied \in 0 .. Size
    BY <2>c, CountsType DEF IInv, At, TypeOK, Occupied, TokensConserved
  <2>4. Buffer' = Buffer
    BY <2>2, BufferStable
  <2>6. Offered' = Offered /\ Taken' = Taken
    BY DEF Offered, Taken, IInv, TypeOK, At, Goto
  <2> QED BY <2>4, <2>6
<1>14. ASSUME NEW c \in Consumers, AssignOutThrows(c)
      PROVE  Fifo!Next \/ UNCHANGED <<Buffer, Offered, Taken>>
  <2> USE <1>14 DEF AssignOutThrows
  <2>1. Goto(c, "undo") /\ "undo" \in PLabels
    BY DEF PLabels
  <2>c. /\ Cardinality(Filled)' = Cardinality(Filled)
        /\ Cardinality(Emptying)' = Cardinality(Emptying)
    BY <2>1, ConsumerCounts, CountsType DEF IInv, At, Bit, Holding, Posting
  <2>2. Occupied' = Occupied /\ Occupied \in 0 .. Size
    BY <2>c, CountsType DEF IInv, At, TypeOK, Occupied, TokensConserved
  <2>4. Buffer' = Buffer
    BY <2>2, BufferStable
  <2>6. Offered' = Offered /\ Taken' = Taken
    BY DEF Offered, Taken, IInv, TypeOK, At, Goto
  <2> QED BY <2>4, <2>6
<1>15. ASSUME NEW c \in Consumers, UndoConsume(c)
      PROVE  Fifo!Next \/ UNCHANGED <<Buffer, Offered, Taken>>
  <2> USE <1>15 DEF UndoConsume
  <2>1. Goto(c, "unwind") /\ "unwind" \in PLabels
    BY DEF PLabels
  <2>c. /\ Cardinality(Filled)' = Cardinality(Filled)
        /\ Cardinality(Emptying)' = Cardinality(Emptying) - 1
    BY <2>1, ConsumerCounts, CountsType DEF IInv, At, Bit, Holding, Posting
  <2>d. used' = used + 1
    OBVIOUS
  <2>2. Occupied' = Occupied /\ Occupied \in 0 .. Size
    <3>1. /\ Cardinality(Filled) \in Nat /\ Cardinality(Emptying) \in Nat /\ used \in Nat
          /\ Occupied = used + Cardinality(Filled) + Cardinality(Emptying)
          /\ Occupied' = used' + Cardinality(Filled)' + Cardinality(Emptying)'
      BY CountsType DEF IInv, TypeOK, Occupied
    <3>2. Occupied' = Occupied
      BY ONLY <2>c, <2>d, <3>1
    <3> QED BY <3>1, <3>2, CountsType DEF IInv, TypeOK, TokensConserved
  <2>4. Buffer' = Buffer
    BY <2>2, BufferStable
  <2>6. Offered' = Offered /\ Taken' = Taken
    BY DEF Offered, Taken, IInv, TypeOK, At, Goto
  <2> QED BY <2>4, <2>6
<1>16. ASSUME NEW c \in Consumers, UnwindConsume(c)
      PROVE  Fifo!Next \/ UNCHANGED <<Buffer, Offered, Taken>>
  <2> USE <1>16 DEF UnwindConsume
  <2>1. Goto(c, "idle") /\ "idle" \in PLabels
    BY DEF PLabels
  <2>c. /\ Cardinality(Filled)' = Cardinality(Filled)
        /\ Cardinality(Emptying)' = Cardinality(Emptying)
    BY <2>1, ConsumerCounts, CountsType DEF IInv, At, Bit, Holding, Posting
  <2>2. Occupied' = Occupied /\ Occupied \in 0 .. Size
    BY <2>c, CountsType DEF IInv, At, TypeOK, Occupied, TokensConserved
  <2>4. Buffer' = Buffer
    BY <2>2, BufferStable
  <2>6. Offered' = Offered /\ Taken' = Taken
    BY DEF Offered, Taken, IInv, TypeOK, At, Goto
  <2> QED BY <2>4, <2>6
<1>17. ASSUME NEW c \in Consumers, AdvanceConsume(c)
      PROVE  Fifo!Next \/ UNCHANGED <<Buffer, Offered, Taken>>
  <2> USE <1>17 DEF AdvanceConsume
  <2>1. Goto(c, "post") /\ "post" \in PLabels
    BY DEF PLabels
  <2>c. /\ Cardinality(Filled)' = Cardinality(Filled)
        /\ Cardinality(Emptying)' = Cardinality(Emptying) - 1
    BY <2>1, ConsumerCounts, CountsType DEF IInv, At, Bit, Holding, Posting
  <2>2. Occupied' = Occupied - 1 /\ Occupied \in 0 .. Size
    BY <2>c, CountsType DEF IInv, At, TypeOK, Occupied, TokensConserved
  <2>3. Occupied > 0 /\ out[c] = storage[Slot(0)] /\ out[c] \in Values
    <3>1. Occupied > 0
      BY CountsType DEF IInv, TypeOK, Occupied, Holding, At
    <3> QED BY <2>2, <3>1, SlotFacts DEF IInv, ContentsIntact, At
  <2>4. Buffer # << >> /\ Head(Buffer) = out[c] /\ Buffer' = Tail(Buffer)
    <3>1. Buffer \in Seq(Values) /\ Len(Buffer) = Occupied
      <4>1. \A k \in 1 .. Occupied : Buffer[k] \in Values
        BY <2>2 DEF Buffer, IInv, ContentsIntact
      <4> QED BY <2>2, <4>1 DEF Buffer
    <3>2. \A k \in 1 .. Occupied - 1 : Slot(k - 1)' = Slot(k)
      BY <2>2, SlotFacts DEF IInv, Slot, Next1, TypeOK, Slots
    <3>3. Buffer' = [k \in 1 .. Occupied - 1 |-> storage[Slot(k)]]
      BY <2>2, <3>2 DEF Buffer
    <3>4. Buffer[1] = out[c] /\ Buffer' = [k \in 1 .. Occupied - 1 |-> Buffer[k + 1]]
      BY <2>2, <2>3, <3>3 DEF Buffer
    <3>5. Buffer # << >>
      BY <2>3, <3>1
    <3>6. Head(Buffer) = Buffer[1] /\ Tail(Buffer) = [k \in 1 .. Occupied - 1 |-> Buffer[k + 1]]
      BY ONLY <3>1, <3>5, HeadTail
    <3> QED BY <3>4, <3>5, <3>6
  <2>5. Taken[c] = None /\ Offered' = Offered
    BY DEF Offered, Taken, IInv, TypeOK, At, Goto
  <2>6. Taken' = [Taken EXCEPT ![c] = out[c]]
    <3>1. pc'[c] = "post" /\ \A t \in Threads \ {c} : pc'[t] = pc[t]
      BY DEF IInv, TypeOK, Goto
    <3>2. out' = out /\ c \in Threads /\ Consumers \subseteq Threads
      OBVIOUS
    <3>3. \A d \in Consumers :
            (IF pc'[d] = "post" THEN out'[d] ELSE None)
              = IF d = c THEN out[c] ELSE IF pc[d] = "post" THEN out[d] ELSE None
      BY <3>1, <3>2
    <3>4. Taken' = [d \in Consumers |-> IF d = c THEN out[c]
                                        ELSE IF pc[d] = "post" THEN out[d] ELSE None]
      BY <3>3 DEF Taken
    <3>5. [Taken EXCEPT ![c] = out[c]]
            = [d \in Consumers |-> IF d = c THEN out[c]
                                   ELSE IF pc[d] = "post" THEN out[d] ELSE None]
      BY ONLY c \in Consumers, Zenon DEF Taken
    <3> QED BY ONLY <3>4, <3>5
  <2> QED BY <2>4, <2>5, <2>6 DEF Fifo!Next, Fifo!Dequeue
<1>18. ASSUME NEW c \in Consumers, PostEmpty(c)
      PROVE  Fifo!Next \/ UNCHANGED <<Buffer, Offered, Taken>>
  <2> USE <1>18 DEF PostEmpty
  <2>1. Goto(c, "idle") /\ "idle" \in PLabels
    BY DEF PLabels
  <2>c. /\ Cardinality(Filled)' = Cardinality(Filled)
        /\ Cardinality(Emptying)' = Cardinality(Emptying)
    BY <2>1, ConsumerCounts, CountsType DEF IInv, At, Bit, Holding, Posting
  <2>2. Occupied' = Occupied /\ Occupied \in 0 .. Size
    BY <2>c, CountsType DEF IInv, At, TypeOK, Occupied, TokensConserved
  <2>4. Buffer' = Buffer
    BY <2>2, BufferStable
  <2>6. Taken[c] # None /\ Taken' = [Taken EXCEPT ![c] = None] /\ Offered' = Offered
    BY ZenonT(30) DEF Offered, Taken, IInv, TypeOK, At, Goto, ContentsIntact
  <2> QED BY <2>4, <2>6 DEF Fifo!Next, Fifo!Return
<1> QED BY <1>1, <1>2, <1>3, <1>4, <1>5, <1>6, <1>7, <1>8, <1>9, <1>10, <1>11, <1>12, <1>13, <1>14, <1>15, <1>16, <1>17, <1>18 DEF Next, InProduce, InConsume

\* Init maps to the empty FIFO, and so the queue is a bounded FIFO whose
\* Produce and Consume are atomic.
THEOREM QueueIsFifo == Spec => IsFifo
<1>1. Init => Fifo!Init
  <2> SUFFICES ASSUME Init PROVE Fifo!Init
    OBVIOUS
  <2>1. Filling = {} /\ Filled = {} /\ Emptying = {} /\ Emptied = {}
    BY DEF Init, Filling, Filled, Emptying, Emptied, Having, Holding, Posting, Threads
  <2>2. Occupied = 0
    BY <2>1, FS_EmptySet DEF Init, Occupied
  <2>3. Buffer = << >>
    BY <2>2 DEF Buffer
  <2>4. /\ Offered = [p \in Producers |-> None]
        /\ Taken = [c \in Consumers |-> None]
    BY DEF Init, Offered, Taken, Threads
  <2> QED BY <2>3, <2>4 DEF Fifo!Init
<1>2. IInv /\ IInv' /\ [Next]_vars => [Fifo!Next]_(Fifo!bvars)
  <2>1. ASSUME IInv, UNCHANGED vars PROVE UNCHANGED <<Buffer, Offered, Taken>>
    <3>1. Filled' = Filled /\ Emptying' = Emptying
      BY <2>1 DEF vars, Filled, Emptying, Having
    <3>2. Occupied' = Occupied
      BY <2>1, <3>1 DEF vars, Occupied
    <3>3. Buffer' = Buffer
      BY <2>1, <3>2, BufferStable DEF vars
    <3> QED BY <2>1, <3>3 DEF vars, Offered, Taken
  <2> QED BY <2>1, FifoStep DEF Fifo!bvars
<1> QED BY <1>1, <1>2, Invariance, PTL DEF Spec, IsFifo, Fifo!Spec
==============================================================================
