----------------------------- MODULE StacksProofs -----------------------------
(***************************************************************************)
(* For every sentence, chart, reordering limit and pop limit: hypotheses   *)
(* cover what they say, the asserts of coverage.hh hold, no stack is left  *)
(* empty, and no score is below what its history is worth.                 *)
(***************************************************************************)
EXTENDS Stacks, CommonFacts

---------------------------------------------------------------------------
LEMMA LowOnesFacts ==
  ASSUME NEW bits \in SUBSET (0 .. Window - 1)
  PROVE  /\ LowOnes(bits) \in 0 .. Window
         /\ LowOnes(bits) \notin bits
         /\ 0 .. LowOnes(bits) - 1 \subseteq bits
<1> USE WindowAssumption
<1> DEFINE zeros == (0 .. Window) \ bits
<1>1. zeros \in SUBSET Nat /\ zeros # {}
  OBVIOUS
<1>2. PICK m \in zeros : \A n \in zeros : m <= n
  BY <1>1, SetMinimum
<1>3. m \in 0 .. Window /\ m \notin bits /\ 0 .. m - 1 \subseteq bits
  BY <1>2
<1> QED BY <1>3 DEF LowOnes

LEMMA SetFacts ==
  ASSUME NEW c, WellFormed(c), NEW from \in Nat, NEW to \in Nat, from < to,
         InWindow(c, from, to), Compatible(c, from, to)
  PROVE  /\ WellFormed(Set(c, from, to))
         /\ Covered(Set(c, from, to)) = Covered(c) \cup (from .. to - 1)
         /\ Set(c, from, to).firstZero >= c.firstZero
<1> USE WindowAssumption DEF WellFormed, InWindow, Compatible, Pattern
<1>1. CASE from = c.firstZero
  <2>1. PICK rest, ones, moved :
          /\ rest = ShiftRight(c.bits, to - from)
          /\ ones = LowOnes(rest)
          /\ moved = ShiftRight(rest, ones)
    BY Zenon
  <2>s. Set(c, from, to) = [firstZero |-> to + ones, bits |-> moved]
    BY <1>1, <2>1 DEF Set
  <2>f. Set(c, from, to).firstZero = to + ones /\ Set(c, from, to).bits = moved
    BY ONLY <2>s
  <2>2. rest \in SUBSET (0 .. Window - 1) /\ \A i \in Nat : i \in rest <=> i + (to - from) \in c.bits
    BY <1>1, <2>1 DEF ShiftRight
  <2>3. ones \in 0 .. Window /\ ones \notin rest /\ 0 .. ones - 1 \subseteq rest
    BY <2>1, <2>2, LowOnesFacts
  <2>4. moved \in SUBSET (0 .. Window - 1) /\ \A i \in Nat : i \in moved <=> i + ones \in rest
    <3>1. moved = {i - ones : i \in {j \in rest : j >= ones}}
      BY <2>1 DEF ShiftRight
    <3>2. ASSUME NEW i \in moved PROVE i \in 0 .. Window - 1 /\ i + ones \in rest
      <4>1. PICK j \in rest : j >= ones /\ i = j - ones
        BY <3>1
      <4>2. j \in 0 .. Window - 1
        BY <2>2
      <4>3. i \in 0 .. Window - 1 /\ i + ones = j
        BY <2>3, <4>1, <4>2
      <4> QED BY <4>1, <4>3
    <3>3. ASSUME NEW i \in Nat, i + ones \in rest PROVE i \in moved
      <4>1. i + ones >= ones /\ i = (i + ones) - ones
        BY <2>3
      <4> QED BY <3>1, <3>3, <4>1
    <3> QED BY <3>2, <3>3
  <2>5. 0 \notin moved
    BY <2>3, <2>4
  <2>6. \A i \in 0 .. to - from - 1 : i \notin c.bits
    BY <1>1
  <2>c. \A x : x \in Covered(Set(c, from, to))
                <=> x \in 0 .. to + ones - 1 \/ \E i \in moved : x = to + ones + i
    <3>1. Covered([firstZero |-> to + ones, bits |-> moved])
            = (0 .. to + ones - 1) \cup {to + ones + i : i \in moved}
      BY <2>3, <2>4 DEF Covered
    <3>2. Covered(Set(c, from, to)) = (0 .. to + ones - 1) \cup {to + ones + i : i \in moved}
      BY ONLY <2>s, <3>1, Zenon
    <3> QED BY <3>2, Zenon
  <2>7. ASSUME NEW x \in Nat
        PROVE  x \in Covered(Set(c, from, to)) <=> x \in Covered(c) \/ x \in from .. to - 1
    <3>1. x \in Covered(Set(c, from, to)) <=> x < to + ones \/ x - (to + ones) \in moved
      <4>1. (\E i \in moved : x = to + ones + i) <=> x - (to + ones) \in moved
        BY <2>3, <2>4
      <4> QED BY <2>3, <2>c, <4>1
    <3>2. x \in Covered(c) <=> x < from \/ x - from \in c.bits
      BY <1>1 DEF Covered
    <3>3. x >= to => (x - from \in c.bits <=> x - to \in rest)
      BY <2>2, <1>1
    <3>4. x >= to + ones => (x - to \in rest <=> x - (to + ones) \in moved)
      BY <2>3, <2>4
    <3>5. x \in to .. to + ones - 1 => x - to \in rest
      BY <2>3
    <3>6. x < to + ones => x - (to + ones) \notin moved
      BY <2>3, <2>4
    <3> QED BY <1>1, <2>3, <2>6, <3>1, <3>2, <3>3, <3>4, <3>5, <3>6
  <2>8. Covered(Set(c, from, to)) \subseteq Nat /\ Covered(c) \subseteq Nat
    BY <2>3, <2>4, <2>c DEF Covered
  <2>9. WellFormed(Set(c, from, to)) /\ Set(c, from, to).firstZero >= c.firstZero
    BY <1>1, <2>s, <2>3, <2>4, <2>5
  <2> QED BY <2>7, <2>8, <2>9
<1>2. CASE from # c.firstZero
  <2>1. Set(c, from, to) = [c EXCEPT !.bits = c.bits \cup Pattern(c, from, to)]
    BY <1>2 DEF Set
  <2>2. /\ Set(c, from, to).firstZero = c.firstZero
        /\ Set(c, from, to).bits = c.bits \cup (from - c.firstZero .. to - c.firstZero - 1)
    BY <2>1
  <2>3. Set(c, from, to) \in [firstZero : Nat, bits : SUBSET (0 .. Window - 1)]
    <3>1. Pattern(c, from, to) \subseteq 0 .. Window - 1
      BY <1>2
    <3> HIDE DEF Pattern
    <3> QED BY <2>1, <3>1
  <2>4. 0 \notin Set(c, from, to).bits
    BY <1>2, <2>2
  <2>5. Covered(Set(c, from, to)) = Covered(c) \cup (from .. to - 1)
    <3>1. {c.firstZero + i : i \in from - c.firstZero .. to - c.firstZero - 1} = from .. to - 1
      <4>1. \A x \in from .. to - 1 : x = c.firstZero + (x - c.firstZero)
        OBVIOUS
      <4> QED BY <1>2, <4>1
    <3> QED BY <2>2, <3>1 DEF Covered
  <2> QED BY <2>2, <2>3, <2>4, <2>5
<1> QED BY <1>1, <1>2

\* The test of the bits decides whether the span is still untranslated.
LEMMA CompatibleFacts ==
  ASSUME NEW c, WellFormed(c), NEW from \in Nat, NEW to \in Nat, from < to
  PROVE  Compatible(c, from, to) <=> (from .. to - 1) \cap Covered(c) = {}
<1> USE DEF WellFormed
<1>1. ASSUME Compatible(c, from, to) PROVE (from .. to - 1) \cap Covered(c) = {}
  <2>1. from >= c.firstZero /\ c.firstZero \in Nat
    BY <1>1 DEF Compatible
  <2>2. ASSUME NEW i \in c.bits PROVE c.firstZero + i \notin from .. to - 1
    <3>1. i \notin Pattern(c, from, to) /\ i \in 0 .. Window - 1
      BY <1>1 DEF Compatible
    <3> QED BY <2>1, <3>1, WindowAssumption DEF Pattern
  <2>3. ASSUME NEW k \in from .. to - 1, k \in Covered(c) PROVE FALSE
    <3>1. k \notin 0 .. c.firstZero - 1
      BY <2>1
    <3>2. k \in {c.firstZero + i : i \in c.bits}
      BY <2>3, <3>1 DEF Covered
    <3> QED BY <2>2, <3>2
  <2> QED BY <2>3
<1>2. ASSUME (from .. to - 1) \cap Covered(c) = {} PROVE Compatible(c, from, to)
  <2>1. from >= c.firstZero
    <3>1. from \in from .. to - 1 /\ c.firstZero \in Nat
      OBVIOUS
    <3>2. from \notin 0 .. c.firstZero - 1
      BY <1>2, <3>1 DEF Covered
    <3> QED BY <3>1, <3>2
  <2>2. ASSUME NEW i \in Pattern(c, from, to) PROVE i \notin c.bits
    <3>1. c.firstZero + i \in from .. to - 1
      BY DEF Pattern
    <3> QED BY <1>2, <3>1 DEF Covered
  <2> QED BY <2>1, <2>2 DEF Compatible
<1> QED BY <1>1, <1>2

---------------------------------------------------------------------------
\* The stacks.

\* A hypothesis has the fields it is built with.
HasFields(h) ==
  h = [coverage |-> h.coverage, score |-> h.score, start |-> h.start, end |-> h.end,
       state |-> h.state, target |-> h.target, history |-> h.history]

\* What holds of a hypothesis in stack w.
Sound(h, w) ==
  /\ HasFields(h)
  /\ WellFormed(h.coverage)
  /\ h.history \in Seq(Steps)
  /\ Covered(h.coverage) = Translated(h.history)
  /\ EachOnce(h.history)
  /\ Covered(h.coverage) \subseteq 0 .. Length - 1
  /\ Covered(h.coverage) \subseteq 0 .. h.coverage.firstZero + ReorderingLimit - 1
  /\ Cardinality(Covered(h.coverage)) = w

\* What holds of an antecedent whose search fills stack w.
Extendable(v, w) ==
  /\ v.begin \in 0 .. Length /\ v.end \in 0 .. Length
  /\ v.begin < v.end /\ v.end - v.begin <= w
  /\ Sound(v.previous, w - (v.end - v.begin))
  /\ InWindow(v.previous.coverage, v.begin, v.end)
  /\ Compatible(v.previous.coverage, v.begin, v.end)
  /\ \/ v.begin = v.previous.coverage.firstZero
     \/ v.end <= v.previous.coverage.firstZero + ReorderingLimit

\* The inductive invariant.
IInv ==
  /\ chart \in Charts
  /\ words \in 1 .. Length + 1
  /\ phase \in {"extend", "search", "final", "done"}
  /\ phase \in {"final", "done"} <=> words = Length + 1
  /\ DOMAIN stacks = 0 .. Length
  /\ \A w \in 0 .. Length : \A h \in stacks[w] : Sound(h, w)
  /\ \A w \in 0 .. words - 1 : stacks[w] # {}
  /\ phase = "search" =>
       /\ \A v \in vertices : Extendable(v, words)
       /\ Edges # {}
       /\ popped # {} => stacks[words] # {}
  /\ phase \in {"final", "done"} =>
       (popped # {} => end # {}) /\ (phase = "done" => popped # {})

------------------------------------------------------------------------------
\* The first zero is a zero.
LEMMA FirstZeroOpen ==
  ASSUME NEW c, WellFormed(c)
  PROVE  c.firstZero \in Nat /\ c.firstZero \notin Covered(c) /\ 0 .. c.firstZero - 1 \subseteq Covered(c)
BY WindowAssumption DEF WellFormed, Covered

\* A hypothesis of w words has its first zero at w or before it.
LEMMA FirstZeroBound ==
  ASSUME NEW h, NEW w \in 0 .. Length, Sound(h, w)
  PROVE  h.coverage.firstZero \in 0 .. w
<1>1. Length \in Nat
  BY SentenceAssumption
<1>2. PICK first : first = h.coverage.firstZero
  OBVIOUS
<1>3. first \in Nat /\ 0 .. first - 1 \subseteq Covered(h.coverage)
  BY <1>2, FirstZeroOpen DEF Sound
<1>4. IsFiniteSet(Covered(h.coverage)) /\ Cardinality(Covered(h.coverage)) = w
  <2>1. IsFiniteSet(0 .. Length - 1)
    BY <1>1, FS_Interval
  <2>2. Covered(h.coverage) \in SUBSET (0 .. Length - 1)
    BY DEF Sound
  <2> QED BY <2>1, <2>2, FS_Subset DEF Sound
<1>5. Cardinality(0 .. first - 1) <= w
  BY <1>3, <1>4, FS_Subset
<1>6. Cardinality(0 .. first - 1) = first
  BY <1>3, FS_Interval
<1> QED BY <1>1, <1>2, <1>3, <1>5, <1>6

\* Where the constructor tries a phrase, the shifts and the chart are in bounds.
LEMMA BeginsFacts ==
  ASSUME NEW w \in 1 .. Length, NEW from \in 0 .. w - 1, w - from <= MaxPhrase,
         NEW h, Sound(h, from), NEW b \in Begins(h.coverage, w - from)
  PROVE  /\ b \in 0 .. Length /\ b + (w - from) \in 0 .. Length
         /\ <<b, b + (w - from)>> \in Spans
         /\ InWindow(h.coverage, b, b + (w - from))
         /\ b = h.coverage.firstZero \/ b + (w - from) <= h.coverage.firstZero + ReorderingLimit
<1> USE SentenceAssumption, WindowSuffices, WindowAssumption
<1>1. PICK first : first = h.coverage.firstZero
  OBVIOUS
<1>2. first \in 0 .. from
  BY <1>1, FirstZeroBound
<1>3. PICK len : len = w - from
  OBVIOUS
<1>4. len \in 1 .. w /\ len <= MaxPhrase /\ from + len = w
  BY <1>3
<1>5. /\ b \in Nat /\ b >= first /\ b + len <= Length
      /\ b = first \/ b + len <= first + ReorderingLimit
  BY <1>1, <1>2, <1>3, <1>4 DEF Begins
<1>6. b + len - first < Window
  BY <1>2, <1>4, <1>5
<1>7. <<b, b + len>> \in Spans
  BY <1>4, <1>5 DEF Spans
<1> QED BY <1>1, <1>2, <1>3, <1>4, <1>5, <1>6, <1>7 DEF InWindow

LEMMA TranslatedAppend ==
  ASSUME NEW history \in Seq(Steps), NEW step \in Steps
  PROVE  Translated(Append(history, step)) = Translated(history) \cup SpanOf(step)
<1>1. PICK longer : longer = Append(history, step)
  OBVIOUS
<1>2. /\ Len(history) \in Nat /\ DOMAIN history = 1 .. Len(history)
      /\ DOMAIN longer = 1 .. Len(history) + 1
      /\ \A i \in 1 .. Len(history) : longer[i] = history[i]
      /\ longer[Len(history) + 1] = step
  BY <1>1
<1>3. Translated(longer) \subseteq Translated(history) \cup SpanOf(step)
  BY <1>2 DEF Translated
<1>4. Translated(history) \cup SpanOf(step) \subseteq Translated(longer)
  BY <1>2 DEF Translated
<1> QED BY <1>1, <1>3, <1>4

LEMMA EachOnceAppend ==
  ASSUME NEW history \in Seq(Steps), NEW step \in Steps, EachOnce(history),
         SpanOf(step) \cap Translated(history) = {}
  PROVE  EachOnce(Append(history, step))
<1>1. PICK longer : longer = Append(history, step)
  OBVIOUS
<1>2. /\ Len(history) \in Nat /\ DOMAIN history = 1 .. Len(history)
      /\ DOMAIN longer = 1 .. Len(history) + 1
      /\ \A i \in 1 .. Len(history) : longer[i] = history[i]
      /\ longer[Len(history) + 1] = step
  BY <1>1
<1>3. ASSUME NEW i \in 1 .. Len(history) PROVE SpanOf(longer[i]) \cap SpanOf(step) = {}
  BY <1>2 DEF Translated
<1>4. ASSUME NEW i \in DOMAIN longer, NEW j \in DOMAIN longer,
             SpanOf(longer[i]) \cap SpanOf(longer[j]) # {}
      PROVE  i = j
  <2>1. CASE i \in 1 .. Len(history) /\ j \in 1 .. Len(history)
    BY <2>1, <1>2, <1>4 DEF EachOnce
  <2>2. CASE i = Len(history) + 1 /\ j \in 1 .. Len(history)
    BY <2>2, <1>2, <1>3, <1>4
  <2>3. CASE i \in 1 .. Len(history) /\ j = Len(history) + 1
    BY <2>3, <1>2, <1>3, <1>4
  <2> QED BY <1>2, <2>1, <2>2, <2>3
<1> QED BY <1>1, <1>4 DEF EachOnce

\* An extension of an antecedent belongs in the stack the search fills.
LEMMA ExtendSound ==
  ASSUME NEW w \in 1 .. Length, NEW v, Extendable(v, w), NEW t \in Targets
  PROVE  Sound(Extend(v, t), w)
<1> USE SentenceAssumption
<1>1. PICK c, h, new, step :
        /\ c = v.previous.coverage /\ h = v.previous.history
        /\ new = Set(c, v.begin, v.end) /\ step = Step(v.begin, v.end, t)
  OBVIOUS
<1>2. /\ v.begin \in 0 .. Length /\ v.end \in 0 .. Length
      /\ v.begin < v.end /\ v.end - v.begin <= w
  BY DEF Extendable
<1>3. /\ WellFormed(c) /\ h \in Seq(Steps) /\ Covered(c) = Translated(h) /\ EachOnce(h)
      /\ Covered(c) \subseteq 0 .. Length - 1
      /\ Covered(c) \subseteq 0 .. c.firstZero + ReorderingLimit - 1
      /\ Cardinality(Covered(c)) = w - (v.end - v.begin)
  BY <1>1 DEF Extendable, Sound
<1>4. /\ WellFormed(new)
      /\ Covered(new) = Covered(c) \cup (v.begin .. v.end - 1)
      /\ new.firstZero >= c.firstZero
  BY <1>1, <1>2, <1>3, SetFacts DEF Extendable
<1>5. (v.begin .. v.end - 1) \cap Covered(c) = {}
  BY <1>1, <1>2, <1>3, CompatibleFacts DEF Extendable
<1>6. step \in Steps /\ SpanOf(step) = v.begin .. v.end - 1
  BY <1>1, <1>2 DEF Step, Steps, SpanOf
<1>7. /\ Append(h, step) \in Seq(Steps)
      /\ Translated(Append(h, step)) = Covered(new)
      /\ EachOnce(Append(h, step))
  <2>1. Append(h, step) \in Seq(Steps)
    BY <1>3, <1>6
  <2>2. Translated(Append(h, step)) = Covered(new)
    BY <1>3, <1>4, <1>6, TranslatedAppend
  <2>3. EachOnce(Append(h, step))
    BY <1>3, <1>5, <1>6, EachOnceAppend
  <2> QED BY <2>1, <2>2, <2>3
<1>8. Covered(new) \subseteq 0 .. Length - 1
  BY <1>2, <1>3, <1>4
<1>9. Covered(new) \subseteq 0 .. new.firstZero + ReorderingLimit - 1
  <2>1. c.firstZero \in Nat /\ new.firstZero \in Nat /\ new.firstZero \notin Covered(new)
    BY <1>3, <1>4, FirstZeroOpen
  <2>2. CASE v.begin = c.firstZero
    <3>1. new.firstZero >= v.end
      BY <2>1, <2>2, <1>2, <1>4
    <3>2. ASSUME NEW x \in Covered(new) PROVE x \in 0 .. new.firstZero + ReorderingLimit - 1
      <4>1. x \in Nat /\ (x <= c.firstZero + ReorderingLimit - 1 \/ x <= v.end - 1)
        BY <2>1, <1>2, <1>3, <1>4
      <4> QED BY <2>1, <3>1, <4>1, <1>2, <1>4
    <3> QED BY <3>2
  <2>3. CASE v.end <= c.firstZero + ReorderingLimit
    <3>1. ASSUME NEW x \in Covered(new) PROVE x \in 0 .. new.firstZero + ReorderingLimit - 1
      <4>1. x \in Nat /\ (x <= c.firstZero + ReorderingLimit - 1 \/ x <= v.end - 1)
        BY <2>1, <1>2, <1>3, <1>4
      <4> QED BY <2>1, <2>3, <4>1, <1>2, <1>4
    <3> QED BY <3>1
  <2> QED BY <1>1, <2>2, <2>3 DEF Extendable
<1>10. Cardinality(Covered(new)) = w
  <2>1. IsFiniteSet(Covered(c))
    <3>1. IsFiniteSet(0 .. Length - 1)
      BY FS_Interval
    <3> QED BY <1>3, <3>1, FS_Subset
  <2>2. IsFiniteSet(v.begin .. v.end - 1) /\ Cardinality(v.begin .. v.end - 1) = v.end - v.begin
    <3>1. PICK first, last : first = v.begin /\ last = v.end - 1
      OBVIOUS
    <3>2. first \in Int /\ last \in Int /\ ~(first > last) /\ last - first + 1 = v.end - v.begin
      BY <1>2, <3>1
    <3> QED BY <3>1, <3>2, FS_Interval
  <2>3. Cardinality(Covered(new))
          = Cardinality(Covered(c)) + Cardinality(v.begin .. v.end - 1)
              - Cardinality(Covered(c) \cap (v.begin .. v.end - 1))
    BY <1>4, <2>1, <2>2, FS_Union
  <2>4. Cardinality(Covered(c) \cap (v.begin .. v.end - 1)) = 0
    <3>1. Covered(c) \cap (v.begin .. v.end - 1) = {}
      BY <1>5
    <3> QED BY <3>1, FS_EmptySet
  <2> QED BY <1>2, <1>3, <2>2, <2>3, <2>4
<1>11. /\ Extend(v, t).coverage = new /\ Extend(v, t).history = Append(h, step)
       /\ HasFields(Extend(v, t))
  BY <1>1 DEF Extend, HasFields
<1> QED BY <1>4, <1>7, <1>8, <1>9, <1>10, <1>11 DEF Sound

\* Recombination changes no more than scores and loses no stack.
LEMMA OutputSound ==
  ASSUME NEW w, NEW stack, \A a \in stack : Sound(a, w), NEW h, Sound(h, w)
  PROVE  Output(stack, h) # {} /\ \A a \in Output(stack, h) : Sound(a, w)
<1>1. ASSUME NEW a, Sound(a, w), NEW s PROVE Sound([a EXCEPT !.score = s], w)
  <2>1. PICK cov, sc, b, e, st, t, hi :
          a = [coverage |-> cov, score |-> sc, start |-> b, end |-> e,
               state |-> st, target |-> t, history |-> hi]
    BY <1>1 DEF Sound, HasFields
  <2>2. [a EXCEPT !.score = s]
          = [coverage |-> cov, score |-> s, start |-> b, end |-> e,
             state |-> st, target |-> t, history |-> hi]
    BY <2>1
  <2>3. /\ [a EXCEPT !.score = s].coverage = a.coverage
        /\ [a EXCEPT !.score = s].history = a.history
        /\ HasFields([a EXCEPT !.score = s])
    BY <2>1, <2>2 DEF HasFields
  <2> QED BY <1>1, <2>3 DEF Sound
<1>2. PICK same : same = {a \in stack : Same(a, h)}
  OBVIOUS
<1>3. CASE same = {}
  BY <1>2, <1>3 DEF Output
<1>4. CASE same # {}
  <2>1. Output(stack, h) =
          (stack \ same) \cup {Raise(a, h.score) : a \in same}
    BY <1>2, <1>4 DEF Output
  <2>2. \A a \in same : Sound(Raise(a, h.score), w)
    BY <1>1, <1>2 DEF Raise
  <2> QED BY <1>2, <1>4, <2>1, <2>2
<1> QED BY <1>3, <1>4

\* The root covers nothing.
LEMMA RootSound ==
  ASSUME NEW start
  PROVE  Sound(Root(start), 0)
<1> USE SentenceAssumption, WindowAssumption
<1>1. /\ HasFields(Root(start)) /\ Root(start).coverage = NothingCovered /\ Root(start).history = << >>
  BY DEF Root, HasFields
<1>2. WellFormed(NothingCovered) /\ Covered(NothingCovered) = {}
  BY DEF NothingCovered, WellFormed, Covered
<1>3. << >> \in Seq(Steps) /\ Translated(<< >>) = {} /\ EachOnce(<< >>)
  BY DEF Translated, EachOnce
<1>4. Cardinality({}) = 0
  BY FS_EmptySet
<1> QED BY <1>1, <1>2, <1>3, <1>4 DEF Sound

LEMMA InitInvariant == Init => IInv
<1> USE SentenceAssumption
<1> SUFFICES ASSUME Init PROVE IInv
  OBVIOUS
<1>1. /\ chart \in Charts /\ words \in 1 .. Length + 1 /\ words # Length + 1
      /\ phase = "extend" /\ DOMAIN stacks = 0 .. Length
  BY DEF Init
<1>2. PICK start : stacks[0] = {Root(start)} /\ \A w \in 1 .. Length : stacks[w] = {}
  BY DEF Init
<1>3. \A w \in 0 .. Length : \A h \in stacks[w] : Sound(h, w)
  BY <1>2, RootSound
<1>4. \A w \in 0 .. words - 1 : stacks[w] # {}
  BY <1>2 DEF Init
<1> QED BY <1>1, <1>3, <1>4 DEF IInv

\* What is filled into the vertices can be extended, and there is something.
LEMMA ExtensionsFacts ==
  ASSUME IInv, words \in 1 .. Length
  PROVE  /\ \A v \in Extensions : Extendable(v, words)
         /\ \E v \in Extensions : ChartRange(v.begin, v.end) # {} /\ ChartRange(v.begin, v.end) \subseteq Targets
<1> USE SentenceAssumption, WindowSuffices, WindowAssumption
<1>1. ASSUME NEW from \in Froms, NEW h \in stacks[from], NEW b \in Fits(h, words - from)
      PROVE  Extendable(Antecedent(h, b, b + (words - from)), words)
  <2>1. from \in 0 .. words - 1 /\ words - from <= MaxPhrase /\ Sound(h, from)
    BY DEF Froms, IInv
  <2>2. b \in Begins(h.coverage, words - from) /\ Compatible(h.coverage, b, b + (words - from))
    BY DEF Fits
  <2>3. PICK stop : stop = b + (words - from)
    OBVIOUS
  <2>4. /\ b \in 0 .. Length /\ stop \in 0 .. Length
        /\ InWindow(h.coverage, b, stop)
        /\ b = h.coverage.firstZero \/ stop <= h.coverage.firstZero + ReorderingLimit
    BY <2>1, <2>2, <2>3, BeginsFacts
  <2>5. b < stop /\ stop - b <= words /\ words - (stop - b) = from
    BY <2>1, <2>3, <2>4
  <2>6. /\ Antecedent(h, b, stop).previous = h
        /\ Antecedent(h, b, stop).begin = b /\ Antecedent(h, b, stop).end = stop
    BY DEF Antecedent
  <2> QED BY <2>1, <2>2, <2>3, <2>4, <2>5, <2>6 DEF Extendable
<1>2. \A v \in Extensions : Extendable(v, words)
  BY <1>1 DEF Extensions
<1>3. PICK from : from = words - 1
  OBVIOUS
<1>4. from \in Froms /\ from \in 0 .. Length - 1 /\ words - from = 1
  BY <1>3 DEF Froms
<1>5. PICK h \in stacks[from] : Sound(h, from)
  BY <1>3, <1>4 DEF IInv
<1>6. PICK b : b = h.coverage.firstZero
  OBVIOUS
<1>7. b \in 0 .. Length - 1
  BY <1>4, <1>5, <1>6, FirstZeroBound
<1>8. ChartRange(b, b + 1) # {} /\ ChartRange(b, b + 1) \subseteq Targets
  <2>1. chart \in [Spans -> SUBSET Targets] /\ chart[<<b, b + 1>>] # {}
    BY <1>7, ChartsAssumption DEF IInv
  <2>2. <<b, b + 1>> \in Spans
    BY <1>7 DEF Spans
  <2> QED BY <2>1, <2>2 DEF ChartRange
<1>9. Compatible(h.coverage, b, b + 1)
  <2>1. PICK c : c = h.coverage
    OBVIOUS
  <2>2. WellFormed(c) /\ c.firstZero = b
    BY <1>5, <1>6, <2>1 DEF Sound
  <2>3. Pattern(c, b, b + 1) = {0}
    BY <1>7, <2>2 DEF Pattern
  <2> QED BY <1>7, <2>1, <2>2, <2>3 DEF Compatible, WellFormed
<1>10. b \in Fits(h, words - from)
  BY <1>4, <1>6, <1>8, <1>9 DEF Fits, Begins
<1>11. Antecedent(h, b, b + (words - from)) \in Extensions
  BY <1>4, <1>5, <1>10 DEF Extensions
<1>12. /\ Antecedent(h, b, b + (words - from)).begin = b
       /\ Antecedent(h, b, b + (words - from)).end = b + 1
  BY <1>4 DEF Antecedent
<1>13. \E v \in Extensions : ChartRange(v.begin, v.end) # {} /\ ChartRange(v.begin, v.end) \subseteq Targets
  BY <1>8, <1>11, <1>12
<1> QED BY <1>2, <1>13

LEMMA FillVerticesInvariant == IInv /\ FillVertices => IInv'
<1> USE SentenceAssumption
<1> SUFFICES ASSUME IInv, FillVertices PROVE IInv'
  OBVIOUS
<1>1. words \in 1 .. Length /\ phase' = "search" /\ popped' = {} /\ vertices' = Extensions
  BY DEF IInv, FillVertices
<1>2. UNCHANGED <<chart, future, stacks, words, end>>
  BY DEF FillVertices
<1>3. \A v \in vertices' : Extendable(v, words')
  BY <1>1, <1>2, ExtensionsFacts
<1>4. Edges' # {}
  <2>1. PICK v \in Extensions : ChartRange(v.begin, v.end) # {} /\ ChartRange(v.begin, v.end) \subseteq Targets
    BY <1>1, ExtensionsFacts
  <2>2. PICK t \in Targets : t \in ChartRange(v.begin, v.end)
    BY <2>1
  <2>3. <<v, t>> \in vertices' \X Targets /\ t \in ChartRange(v.begin, v.end)'
    BY <1>1, <1>2, <2>1, <2>2 DEF ChartRange
  <2> QED BY <2>3 DEF Edges
<1>5. \A w \in 0 .. Length : \A h \in stacks'[w] : Sound(h, w)
  BY <1>2 DEF IInv
<1>6. words' # Length + 1 /\ \A w \in 0 .. words' - 1 : stacks'[w] # {}
  BY <1>1, <1>2 DEF IInv
<1>7. chart' \in Charts /\ words' \in 1 .. Length + 1 /\ DOMAIN stacks' = 0 .. Length
  BY <1>2 DEF IInv
<1> QED BY <1>1, <1>3, <1>4, <1>5, <1>6, <1>7 DEF IInv

LEMMA PopEdgeInvariant == IInv /\ PopEdge => IInv'
<1> USE SentenceAssumption
<1> SUFFICES ASSUME IInv, PopEdge PROVE IInv'
  OBVIOUS
<1>1. PICK e \in Edges : stacks' = [stacks EXCEPT ![words] = Output(@, Extend(e[1], e[2]))]
  BY DEF PopEdge
<1>2. phase = "search" /\ UNCHANGED <<chart, future, words, vertices, phase, end>>
  BY DEF PopEdge
<1>3. words \in 1 .. Length
  BY <1>2 DEF IInv
<1>4. e[1] \in vertices /\ e[2] \in Targets
  BY DEF Edges
<1>5. Sound(Extend(e[1], e[2]), words)
  BY <1>2, <1>3, <1>4, ExtendSound DEF IInv
<1>6. DOMAIN stacks' = 0 .. Length /\ \A w \in 0 .. Length \ {words} : stacks'[w] = stacks[w]
  BY <1>1 DEF IInv
<1>7. stacks'[words] = Output(stacks[words], Extend(e[1], e[2]))
  BY <1>1, <1>3 DEF IInv
<1>8. stacks'[words] # {} /\ \A h \in stacks'[words] : Sound(h, words)
  <2>1. \A h \in stacks[words] : Sound(h, words)
    BY <1>3 DEF IInv
  <2> QED BY <1>5, <1>7, <2>1, OutputSound
<1>9. \A w \in 0 .. Length : \A h \in stacks'[w] : Sound(h, w)
  BY <1>6, <1>8 DEF IInv
<1>10. \A w \in 0 .. words' - 1 : stacks'[w] # {}
  BY <1>2, <1>3, <1>6 DEF IInv
<1>11. Edges' = Edges
  BY <1>2 DEF Edges, ChartRange
<1> QED BY <1>2, <1>3, <1>6, <1>8, <1>9, <1>10, <1>11 DEF IInv

LEMMA FinishStackInvariant == IInv /\ FinishStack => IInv'
<1> USE SentenceAssumption
<1> SUFFICES ASSUME IInv, FinishStack PROVE IInv'
  OBVIOUS
<1>1. /\ phase = "search" /\ words' = words + 1 /\ popped' = {}
      /\ phase' = IF words = Length THEN "final" ELSE "extend"
      /\ UNCHANGED <<chart, future, stacks, end>>
  BY DEF FinishStack
<1>2. words \in 1 .. Length
  BY <1>1 DEF IInv
<1>3. popped # {}
  <2>1. popped = Edges \/ ~(Cardinality(popped) < PopLimit)
    BY DEF FinishStack, MorePops
  <2>2. Edges # {}
    BY <1>1 DEF IInv
  <2> QED BY <2>1, <2>2, FS_EmptySet
<1>4. stacks[words] # {}
  BY <1>1, <1>3 DEF IInv
<1>5. \A w \in 0 .. words' - 1 : stacks'[w] # {}
  BY <1>1, <1>2, <1>4 DEF IInv
<1>6. words' \in 1 .. Length + 1 /\ (phase' \in {"final", "done"} <=> words' = Length + 1)
      /\ phase' \in {"extend", "final"}
  BY <1>1, <1>2
<1> QED BY <1>1, <1>5, <1>6 DEF IInv

LEMMA PopFinalInvariant == IInv /\ PopFinal => IInv'
<1> SUFFICES ASSUME IInv, PopFinal PROVE IInv'
  OBVIOUS
<1>1. phase = "final" /\ UNCHANGED <<chart, future, stacks, words, vertices, phase>>
  BY DEF PopFinal
<1>2. PICK h : end' = IF \A e \in end : Finished(h).score > e.score THEN {Finished(h)} ELSE end
  BY DEF PopFinal
<1>3. end' # {}
  BY <1>2
<1> QED BY <1>1, <1>3 DEF IInv

LEMMA FinishInvariant == IInv /\ Finish => IInv'
<1> USE SentenceAssumption
<1> SUFFICES ASSUME IInv, Finish PROVE IInv'
  OBVIOUS
<1>1. phase = "final" /\ phase' = "done" /\ UNCHANGED <<chart, future, stacks, words, vertices, popped, end>>
  BY DEF Finish
<1>2. popped # {}
  <2>1. popped = stacks[Length] \/ Cardinality(popped) = PopLimit
    BY DEF Finish
  <2>2. stacks[Length] # {}
    BY <1>1 DEF IInv
  <2> QED BY <2>1, <2>2, FS_EmptySet
<1> QED BY <1>1, <1>2 DEF IInv

------------------------------------------------------------------------------
LEMMA IInvSteps == IInv /\ [Next]_vars => IInv'
<1> SUFFICES ASSUME IInv, [Next]_vars PROVE IInv'
  OBVIOUS
<1>1. CASE FillVertices
  BY <1>1, FillVerticesInvariant
<1>2. CASE PopEdge
  BY <1>2, PopEdgeInvariant
<1>3. CASE FinishStack
  BY <1>3, FinishStackInvariant
<1>4. CASE PopFinal
  BY <1>4, PopFinalInvariant
<1>5. CASE Finish
  BY <1>5, FinishInvariant
<1>6. CASE UNCHANGED vars
  <2>1. IInv' = IInv
    BY <1>6 DEF vars, IInv, Edges, ChartRange
  <2> QED BY <2>1
<1> QED BY <1>1, <1>2, <1>3, <1>4, <1>5, <1>6 DEF Next

\* The inductive invariant holds in every reachable state.
THEOREM StacksInvariance == Spec => []IInv
<1>1. Init => IInv
  BY InitInvariant
<1>2. IInv /\ [Next]_vars => IInv'
  BY IInvSteps
<1> QED BY <1>1, <1>2, PTL DEF Spec

\* Every hypothesis covers exactly the words its phrases translate, each once,
\* and is in the stack of that number of words (stacks.cc, coverage.hh).
THEOREM CoverageIsExact == Spec => []CoverageExact
<1>1. IInv => CoverageExact
  BY DEF IInv, CoverageExact, Sound
<1> QED BY <1>1, StacksInvariance, PTL

\* No word is translated beyond the reordering limit.
THEOREM ReorderingIsBounded == Spec => []ReorderingBounded
<1>1. IInv => ReorderingBounded
  BY DEF IInv, ReorderingBounded, Sound
<1> QED BY <1>1, StacksInvariance, PTL

\* The assertions of coverage.hh and of the chart hold at every call.
THEOREM CallsAreInBounds == Spec => []CallsInBounds
<1>1. ASSUME IInv PROVE CallsInBounds
  <2> SUFFICES ASSUME words <= Length,
                      NEW from \in Froms, NEW h \in stacks[from],
                      NEW b \in Begins(h.coverage, words - from)
               PROVE  /\ InWindow(h.coverage, b, b + (words - from))
                      /\ <<b, b + (words - from)>> \in Spans
    BY DEF CallsInBounds
  <2>1. words \in 1 .. Length /\ from \in 0 .. words - 1 /\ words - from <= MaxPhrase
    BY <1>1, SentenceAssumption DEF IInv, Froms
  <2>2. Sound(h, from)
    BY <1>1, <2>1, SentenceAssumption DEF IInv
  <2> QED BY <2>1, <2>2, BeginsFacts
<1> QED BY <1>1, StacksInvariance, PTL

\* Every stack the decoder has passed is inhabited, and the sentence gets a
\* translation (Stacks::end_ is not NULL).
THEOREM DecodingNeverFails == Spec => []NoDeadEnd
<1>1. IInv => NoDeadEnd
  BY DEF IInv, NoDeadEnd
<1> QED BY <1>1, StacksInvariance, PTL

------------------------------------------------------------------------------
\* The gaps of a coverage, of which LeftOpen and RightOpen find one.

\* A span of untranslated words that cannot be made longer.
IsGap(open, x, y) == x .. y - 1 \subseteq open /\ x - 1 \notin open /\ y \notin open

Pair(x, y) == IF x < y THEN {<<x, y>>} ELSE {}

LEMMA GapsSplit ==
  ASSUME NEW N \in Nat, NEW open \in SUBSET (0 .. N - 1),
         NEW L \in Nat, NEW R \in Nat, NEW b \in Nat, NEW e \in Nat,
         L <= b, b < e, e <= R, R <= N, IsGap(open, L, R),
         NEW x \in Nat, NEW y \in Nat, x < y
  PROVE  IsGap(open \ (b .. e - 1), x, y)
           <=> \/ IsGap(open, x, y) /\ <<x, y>> # <<L, R>>
               \/ x = L /\ y = b
               \/ x = e /\ y = R
<1> DEFINE left == open \ (b .. e - 1)
<1>1. L .. R - 1 \subseteq open /\ L - 1 \notin open /\ R \notin open
  BY DEF IsGap
<1>2. b \in open /\ b \notin left /\ e - 1 \notin left
  BY <1>1
<1>3. ASSUME IsGap(left, x, y)
      PROVE  \/ IsGap(open, x, y) /\ <<x, y>> # <<L, R>>
             \/ x = L /\ y = b
             \/ x = e /\ y = R
  <2>1. x .. y - 1 \subseteq left /\ x - 1 \notin left /\ y \notin left
    BY <1>3 DEF IsGap
  <2>2. y <= b \/ x >= e
    <3> SUFFICES ASSUME y > b, x < e PROVE FALSE
      OBVIOUS
    <3>1. CASE x <= b
      <4>1. b \in x .. y - 1
        BY <3>1
      <4> QED BY <4>1, <2>1, <1>2
    <3>2. CASE x > b
      <4>1. x \in x .. y - 1 /\ x \in b .. e - 1
        BY <3>2
      <4> QED BY <4>1, <2>1
    <3> QED BY <3>1, <3>2
  <2>3. CASE y = b
    <3>1. x - 1 \notin open /\ x .. b - 1 \subseteq open
      BY <2>1, <2>3
    <3>2. ~(x < L)
      <4> SUFFICES ASSUME x < L PROVE FALSE
        OBVIOUS
      <4>1. L - 1 \in x .. b - 1
        OBVIOUS
      <4> QED BY <4>1, <3>1, <1>1
    <3>3. ~(x > L)
      <4> SUFFICES ASSUME x > L PROVE FALSE
        OBVIOUS
      <4>1. x - 1 \in L .. R - 1
        BY <2>3
      <4> QED BY <4>1, <3>1, <1>1
    <3> QED BY <2>3, <3>2, <3>3
  <2>4. CASE y < b
    <3>1. y \notin open /\ x - 1 \notin open /\ x .. y - 1 \subseteq open
      BY <2>1, <2>4
    <3>2. y # R
      BY <2>4
    <3> QED BY <3>1, <3>2 DEF IsGap
  <2>5. CASE x = e
    <3>1. y \notin open /\ e .. y - 1 \subseteq open
      BY <2>1, <2>5
    <3>2. ~(y < R)
      <4> SUFFICES ASSUME y < R PROVE FALSE
        OBVIOUS
      <4>1. y \in L .. R - 1
        BY <2>5
      <4> QED BY <4>1, <3>1, <1>1
    <3>3. ~(y > R)
      <4> SUFFICES ASSUME y > R PROVE FALSE
        OBVIOUS
      <4>1. R \in e .. y - 1
        OBVIOUS
      <4> QED BY <4>1, <3>1, <1>1
    <3> QED BY <2>5, <3>2, <3>3
  <2>6. CASE x > e
    <3>1. y \notin open /\ x - 1 \notin open /\ x .. y - 1 \subseteq open
      BY <2>1, <2>6
    <3>2. x # L
      BY <2>6
    <3> QED BY <3>1, <3>2 DEF IsGap
  <2> QED BY <2>2, <2>3, <2>4, <2>5, <2>6
<1>4. ASSUME IsGap(open, x, y), <<x, y>> # <<L, R>> PROVE IsGap(left, x, y)
  <2>1. x .. y - 1 \subseteq open /\ x - 1 \notin open /\ y \notin open
    BY <1>4 DEF IsGap
  <2>2. y < b \/ x > e
    <3> SUFFICES ASSUME y >= b, x <= e PROVE FALSE
      OBVIOUS
    <3>1. y >= R
      <4> SUFFICES ASSUME y < R PROVE FALSE
        OBVIOUS
      <4>1. y \in L .. R - 1
        OBVIOUS
      <4> QED BY <4>1, <2>1, <1>1
    <3>2. x <= L
      <4> SUFFICES ASSUME x > L PROVE FALSE
        OBVIOUS
      <4>1. x - 1 \in L .. R - 1
        OBVIOUS
      <4> QED BY <4>1, <2>1, <1>1
    <3>3. ~(y > R)
      <4> SUFFICES ASSUME y > R PROVE FALSE
        OBVIOUS
      <4>1. R \in x .. y - 1
        BY <3>2
      <4> QED BY <4>1, <2>1, <1>1
    <3>4. ~(x < L)
      <4> SUFFICES ASSUME x < L PROVE FALSE
        OBVIOUS
      <4>1. L - 1 \in x .. y - 1
        BY <3>1
      <4> QED BY <4>1, <2>1, <1>1
    <3> QED BY <1>4, <3>1, <3>2, <3>3, <3>4
  <2>3. x .. y - 1 \subseteq left
    BY <2>1, <2>2
  <2> QED BY <2>1, <2>3 DEF IsGap
<1>5. ASSUME x = L, y = b PROVE IsGap(left, x, y)
  <2>1. x .. y - 1 \subseteq left
    BY <1>1, <1>5
  <2> QED BY <1>1, <1>2, <1>5, <2>1 DEF IsGap
<1>6. ASSUME x = e, y = R PROVE IsGap(left, x, y)
  <2>1. x .. y - 1 \subseteq left
    BY <1>1, <1>6
  <2> QED BY <1>1, <1>2, <1>6, <2>1 DEF IsGap
<1> QED BY <1>3, <1>4, <1>5, <1>6

\* Max and Min of the bits: a set of numbers within a bound has both.
LEMMA Extremes ==
  ASSUME NEW n \in Nat, NEW S \in SUBSET (0 .. n), S # {}
  PROVE  /\ Max(S) \in S /\ \A i \in S : i <= Max(S)
         /\ Min(S) \in S /\ \A i \in S : i >= Min(S)
<1>1. PICK low \in S : \A i \in S : low <= i
  BY SetMinimum
<1>2. {n - i : i \in S} \in SUBSET Nat /\ {n - i : i \in S} # {}
  OBVIOUS
<1>3. PICK m \in {n - i : i \in S} : \A k \in {n - i : i \in S} : m <= k
  BY <1>2, SetMinimum
<1>4. PICK high \in S : m = n - high
  BY <1>3
<1>5. \A i \in S : i <= high
  BY <1>3, <1>4
<1>6. Max(S) \in S /\ \A i \in S : Max(S) >= i
  <2>1. \E x \in S : \A y \in S : x >= y
    BY <1>5
  <2> QED BY <2>1 DEF Max
<1>7. Min(S) \in S /\ \A i \in S : Min(S) <= i
  <2>1. \E x \in S : \A y \in S : x =< y
    BY <1>1
  <2> QED BY <2>1 DEF Min
<1> QED BY <1>6, <1>7

\* LeftOpen and RightOpen are the bounds of the gap a phrase lies in.
LEMMA GapFacts ==
  ASSUME NEW c, WellFormed(c), Covered(c) \subseteq 0 .. Length - 1,
         NEW b \in Nat, NEW e \in Nat, b < e, e <= Length, Compatible(c, b, e)
  PROVE  /\ LeftOpen(c, b) \in 0 .. b
         /\ RightOpen(c, e, Length) \in e .. Length
         /\ IsGap((0 .. Length - 1) \ Covered(c), LeftOpen(c, b), RightOpen(c, e, Length))
<1> USE SentenceAssumption, WindowAssumption
<1>1. PICK f, bits : f = c.firstZero /\ bits = c.bits
  OBVIOUS
<1>2. f \in Nat /\ bits \in SUBSET (0 .. Window - 1) /\ 0 \notin bits
  BY <1>1 DEF WellFormed
<1>3. b >= f /\ \A k \in b .. e - 1 : k \notin Covered(c)
  <2>1. b >= f
    BY <1>1 DEF Compatible
  <2> QED BY <2>1, CompatibleFacts
<1>4. ASSUME NEW k \in Nat PROVE k \in Covered(c) <=> k < f \/ k - f \in bits
  <2>1. k \in Covered(c) <=> k \in 0 .. f - 1 \/ \E i \in bits : k = f + i
    BY <1>1 DEF Covered
  <2>2. (\E i \in bits : k = f + i) <=> k - f \in bits
    <3>1. k - f \in bits => k = f + (k - f)
      BY <1>2
    <3>2. \A i \in bits : (f + i) - f = i
      BY <1>2
    <3> QED BY <3>1, <3>2
  <2> QED BY <1>2, <2>1, <2>2
<1>5. PICK L : L = LeftOpen(c, b)
  OBVIOUS
<1>6. PICK R : R = RightOpen(c, e, Length)
  OBVIOUS
<1>7. /\ L \in 0 .. b
      /\ \A k \in L .. b - 1 : k \notin Covered(c)
      /\ L = 0 \/ L - 1 \in Covered(c)
  <2>1. PICK ones : ones = (1 .. b - f) \cap bits
    OBVIOUS
  <2>2. L = IF ones = {} THEN f ELSE f + Max(ones) + 1
    BY <1>1, <1>5, <2>1 DEF LeftOpen
  <2>3. CASE ones = {}
    <3>1. L = f
      BY <2>2, <2>3
    <3>2. ASSUME NEW k \in L .. b - 1 PROVE k \notin Covered(c)
      <4>1. k \in Nat /\ ~(k < f) /\ (k - f = 0 \/ k - f \in 1 .. b - f)
        BY <1>2, <1>3, <3>1
      <4>2. k - f \notin bits
        BY <1>2, <2>1, <2>3, <4>1
      <4> QED BY <1>4, <4>1, <4>2
    <3>3. L # 0 => L - 1 \in Nat /\ L - 1 < f
      BY <1>2, <3>1
    <3> QED BY <1>2, <1>3, <1>4, <3>1, <3>2, <3>3
  <2>4. CASE ones # {}
    <3>1. b - f \in Nat /\ ones \in SUBSET (0 .. b - f)
      BY <1>2, <1>3, <2>1
    <3>2. PICK m : m = Max(ones)
      OBVIOUS
    <3>3. m \in ones /\ \A i \in ones : i <= m
      BY <2>4, <3>1, <3>2, Extremes
    <3>4. L = f + m + 1 /\ m \in 1 .. b - f /\ m \in bits
      BY <2>1, <2>2, <2>4, <3>2, <3>3
    <3>5. m # b - f
      <4>1. b \in Nat /\ ~(b < f) /\ b \notin Covered(c)
        BY <1>2, <1>3
      <4> QED BY <1>4, <3>4, <4>1
    <3>6. L \in 0 .. b
      BY <1>2, <1>3, <3>4, <3>5
    <3>7. ASSUME NEW k \in L .. b - 1 PROVE k \notin Covered(c)
      <4>1. k \in Nat /\ ~(k < f) /\ k - f \in 1 .. b - f /\ ~(k - f <= m)
        BY <1>2, <1>3, <3>4, <3>6
      <4>2. k - f \notin bits
        BY <2>1, <3>3, <4>1
      <4> QED BY <1>4, <4>1, <4>2
    <3>8. L - 1 \in Nat /\ (L - 1) - f = m
      BY <1>2, <3>4
    <3>9. L - 1 \in Covered(c)
      BY <1>4, <3>4, <3>8
    <3> QED BY <3>6, <3>7, <3>9
  <2> QED BY <2>3, <2>4
<1>8. /\ R \in e .. Length
      /\ \A k \in e .. R - 1 : k \notin Covered(c)
      /\ R = Length \/ R \in Covered(c)
  <2>1. PICK limit : limit = IF Window < Length - f THEN Window ELSE Length - f
    OBVIOUS
  <2>2. PICK ones : ones = (e - f .. limit - 1) \cap bits
    OBVIOUS
  <2>3. R = IF ones = {} THEN Length ELSE f + Min(ones)
    BY <1>1, <1>6, <2>1, <2>2 DEF RightOpen
  <2>4. ASSUME NEW k \in e .. Length - 1, k \in Covered(c) PROVE k - f \in ones
    <3>1. k \in Nat /\ ~(k < f)
      BY <1>2, <1>3
    <3>2. k - f \in bits
      BY <1>4, <2>4, <3>1
    <3>3. k - f < Window /\ k - f < Length - f /\ k - f >= e - f /\ k - f \in Int
      BY <1>2, <3>2
    <3> QED BY <1>2, <2>1, <2>2, <3>2, <3>3
  <2>5. CASE ones = {}
    BY <2>3, <2>4, <2>5
  <2>6. CASE ones # {}
    <3>1. Window - 1 \in Nat /\ ones \in SUBSET (0 .. Window - 1)
      BY <1>2, <2>2
    <3>2. PICK m : m = Min(ones)
      OBVIOUS
    <3>3. m \in ones /\ \A i \in ones : i >= m
      BY <2>6, <3>1, <3>2, Extremes
    <3>4. R = f + m /\ m \in bits /\ m \in Nat /\ m >= e - f /\ m < Length - f
      BY <1>2, <2>1, <2>2, <2>3, <2>6, <3>2, <3>3
    <3>5. R \in e .. Length /\ R \in Nat /\ R - f = m
      BY <1>2, <3>4
    <3>6. R \in Covered(c)
      BY <1>4, <3>4, <3>5
    <3>7. ASSUME NEW k \in e .. R - 1 PROVE k \notin Covered(c)
      <4> SUFFICES ASSUME k \in Covered(c) PROVE FALSE
        OBVIOUS
      <4>1. k \in e .. Length - 1
        BY <3>5
      <4>2. k - f >= m
        BY <2>4, <3>3, <4>1
      <4> QED BY <1>2, <3>5, <4>2
    <3> QED BY <3>5, <3>6, <3>7
  <2> QED BY <2>5, <2>6
<1>9. PICK open : open = (0 .. Length - 1) \ Covered(c)
  OBVIOUS
<1>10. IsGap(open, L, R)
  <2>1. ASSUME NEW k \in L .. R - 1 PROVE k \in open
    <3>1. k \in 0 .. Length - 1 /\ (k \in L .. b - 1 \/ k \in b .. e - 1 \/ k \in e .. R - 1)
      BY <1>7, <1>8
    <3> QED BY <1>3, <1>7, <1>8, <1>9, <3>1
  <2>2. L - 1 \notin open
    BY <1>7, <1>9
  <2>3. R \notin open
    BY <1>8, <1>9
  <2> QED BY <2>1, <2>2, <2>3 DEF IsGap
<1> QED BY <1>5, <1>6, <1>7, <1>8, <1>9, <1>10

------------------------------------------------------------------------------
\* Change is what a phrase does to the estimate of the gaps.

\* What future entries are: numbers, and nothing for no words.
FutureFits ==
  /\ \A x, y \in 0 .. Length : x <= y => future[<<x, y>>] \in Int
  /\ \A x \in 0 .. Length : future[<<x, x>>] = 0

LEMMA GapsAreFinite ==
  ASSUME NEW c
  PROVE  IsFiniteSet(Gaps(c)) /\ \A s \in Gaps(c) : s[1] \in 0 .. Length /\ s[2] \in 0 .. Length /\ s[1] < s[2]
<1>1. IsFiniteSet(0 .. Length)
  BY SentenceAssumption, FS_Interval
<1>2. IsFiniteSet((0 .. Length) \X (0 .. Length))
  BY <1>1, FS_Product
<1>3. Gaps(c) \in SUBSET ((0 .. Length) \X (0 .. Length))
  BY DEF Gaps
<1> QED BY <1>2, <1>3, FS_Subset DEF Gaps

\* One more span of a sum, or none.
LEMMA SumOfPair ==
  ASSUME NEW S, IsFiniteSet(S), NEW x \in 0 .. Length, NEW y \in 0 .. Length, x <= y,
         <<x, y>> \notin S, \A s \in S : future[s] \in Int, FutureFits
  PROVE  /\ SumFunctionOnSet(future, S) \in Int
         /\ SumFunctionOnSet(future, S \cup Pair(x, y)) = SumFunctionOnSet(future, S) + future[<<x, y>>]
         /\ IsFiniteSet(S \cup Pair(x, y))
         /\ \A s \in S \cup Pair(x, y) : future[s] \in Int
<1>1. future[<<x, y>>] \in Int
  BY DEF FutureFits
<1>2. \A s \in S \cup {<<x, y>>} : future[s] \in Int
  BY <1>1
<1>3. /\ SumFunctionOnSet(future, S) \in Int
      /\ SumFunctionOnSet(future, S \cup {<<x, y>>}) = SumFunctionOnSet(future, S) + future[<<x, y>>]
  BY <1>2, SumOfOneMore
<1>4. IsFiniteSet(S \cup {<<x, y>>})
  BY FS_AddElement
<1>5. CASE x < y
  BY <1>2, <1>3, <1>4, <1>5 DEF Pair
<1>6. CASE x = y
  <2>1. S \cup Pair(x, y) = S
    BY <1>6, SentenceAssumption DEF Pair
  <2>2. future[<<x, y>>] = 0
    BY <1>6 DEF FutureFits
  <2> QED BY <1>2, <1>3, <2>1, <2>2
<1> QED BY <1>5, <1>6, SentenceAssumption

\* Change is the difference a phrase makes to what is outstanding.
LEMMA ChangeTelescopes ==
  ASSUME FutureFits, NEW c, WellFormed(c), Covered(c) \subseteq 0 .. Length - 1,
         NEW b \in Nat, NEW e \in Nat, b < e, e <= Length, Compatible(c, b, e),
         NEW new, Covered(new) = Covered(c) \cup (b .. e - 1)
  PROVE  /\ Outstanding(c) \in Int /\ Change(c, b, e) \in Int
         /\ Outstanding(new) = Outstanding(c) + Change(c, b, e)
<1> USE SentenceAssumption
<1>1. PICK L, R : L = LeftOpen(c, b) /\ R = RightOpen(c, e, Length)
  OBVIOUS
<1>2. PICK open : open = (0 .. Length - 1) \ Covered(c)
  OBVIOUS
<1>3. L \in 0 .. b /\ R \in e .. Length /\ IsGap(open, L, R)
  BY <1>1, <1>2, GapFacts
<1>4. (0 .. Length - 1) \ Covered(new) = open \ (b .. e - 1)
  BY <1>2
<1>5. \A x, y \in 0 .. Length : <<x, y>> \in Gaps(c) <=> x < y /\ IsGap(open, x, y)
  BY <1>2 DEF Gaps, IsGap
<1>6. \A x, y \in 0 .. Length : <<x, y>> \in Gaps(new) <=> x < y /\ IsGap(open \ (b .. e - 1), x, y)
  BY <1>4 DEF Gaps, IsGap
<1>7. PICK rest : rest = Gaps(c) \ {<<L, R>>}
  OBVIOUS
<1>8. <<L, R>> \in Gaps(c) /\ <<L, R>> \notin rest /\ Gaps(c) = rest \cup {<<L, R>>}
  BY <1>3, <1>5, <1>7
<1>9. ASSUME NEW x \in 0 .. Length, NEW y \in 0 .. Length
      PROVE  <<x, y>> \in Gaps(new) <=> <<x, y>> \in (rest \cup Pair(L, b)) \cup Pair(e, R)
  <2>1. <<x, y>> \in rest <=> <<x, y>> \in Gaps(c) /\ <<x, y>> # <<L, R>>
    BY <1>7
  <2>2. <<x, y>> \in Pair(L, b) <=> x = L /\ y = b /\ x < y
    BY DEF Pair
  <2>3. <<x, y>> \in Pair(e, R) <=> x = e /\ y = R /\ x < y
    BY DEF Pair
  <2>4. x < y => (IsGap(open \ (b .. e - 1), x, y)
                    <=> \/ IsGap(open, x, y) /\ <<x, y>> # <<L, R>>
                        \/ x = L /\ y = b
                        \/ x = e /\ y = R)
    <3>1. open \in SUBSET (0 .. Length - 1) /\ L \in Nat /\ R \in Nat /\ x \in Nat /\ y \in Nat
          /\ L <= b /\ e <= R /\ R <= Length /\ Length \in Nat
      BY <1>2, <1>3
    <3> SUFFICES ASSUME x < y
                 PROVE  IsGap(open \ (b .. e - 1), x, y)
                          <=> \/ IsGap(open, x, y) /\ <<x, y>> # <<L, R>>
                              \/ x = L /\ y = b
                              \/ x = e /\ y = R
      OBVIOUS
    <3>2. L <= b /\ b < e /\ e <= R /\ R <= Length /\ IsGap(open, L, R)
      BY <1>3, <3>1
    <3> QED BY ONLY <3>1, <3>2, x < y, b \in Nat, e \in Nat, GapsSplit
  <2>5. <<x, y>> \in Gaps(c) <=> x < y /\ IsGap(open, x, y)
    BY <1>5
  <2>6. <<x, y>> \in Gaps(new) <=> x < y /\ IsGap(open \ (b .. e - 1), x, y)
    BY <1>6
  <2> QED BY <2>1, <2>2, <2>3, <2>4, <2>5, <2>6
<1>10. Gaps(new) = (rest \cup Pair(L, b)) \cup Pair(e, R)
  <2>1. Gaps(new) \subseteq (0 .. Length) \X (0 .. Length)
    BY DEF Gaps
  <2>2. (rest \cup Pair(L, b)) \cup Pair(e, R) \subseteq (0 .. Length) \X (0 .. Length)
    BY <1>3, <1>7 DEF Gaps, Pair
  <2> QED BY <1>9, <2>1, <2>2
<1>11. IsFiniteSet(rest) /\ \A s \in rest : future[s] \in Int
  <2>1. IsFiniteSet(Gaps(c))
    BY GapsAreFinite
  <2>2. rest \in SUBSET Gaps(c)
    BY <1>7
  <2>3. \A s \in Gaps(c) : future[s] \in Int
    BY DEF Gaps, FutureFits
  <2> QED BY <2>1, <2>2, <2>3, FS_Subset
<1>12. \A x \in Nat : \A y \in Nat : <<x, y>> \in rest => IsGap(open, x, y) /\ x \in 0 .. Length /\ y \in 0 .. Length /\ x < y
  BY <1>5, <1>7 DEF Gaps
<1>13. <<L, b>> \notin rest
  <2>1. b \in open
    BY <1>3 DEF IsGap
  <2> QED BY <1>3, <1>12, <2>1 DEF IsGap
<1>14. <<e, R>> \notin rest \cup Pair(L, b)
  <2>1. e - 1 \in open
    BY <1>3 DEF IsGap
  <2>2. <<e, R>> \notin rest
    BY <1>3, <1>12, <2>1 DEF IsGap
  <2>3. <<e, R>> \notin Pair(L, b)
    BY <1>3 DEF Pair
  <2> QED BY <2>2, <2>3
<1>15. /\ SumFunctionOnSet(future, rest) \in Int
       /\ Outstanding(c) = SumFunctionOnSet(future, rest) + future[<<L, R>>]
  <2>1. future[<<L, R>>] \in Int
    BY <1>3 DEF FutureFits
  <2> QED BY <1>8, <1>11, <2>1, SumOfOneMore DEF Outstanding
<1>16. /\ SumFunctionOnSet(future, rest \cup Pair(L, b)) = SumFunctionOnSet(future, rest) + future[<<L, b>>]
       /\ IsFiniteSet(rest \cup Pair(L, b))
       /\ \A s \in rest \cup Pair(L, b) : future[s] \in Int
  <2>1. L \in 0 .. Length /\ b \in 0 .. Length /\ L <= b
    BY <1>3
  <2> QED BY <1>11, <1>13, <2>1, SumOfPair
<1>17. Outstanding(new) = SumFunctionOnSet(future, rest \cup Pair(L, b)) + future[<<e, R>>]
  <2>1. e \in 0 .. Length /\ R \in 0 .. Length /\ e <= R
    BY <1>3
  <2>2. SumFunctionOnSet(future, (rest \cup Pair(L, b)) \cup Pair(e, R))
          = SumFunctionOnSet(future, rest \cup Pair(L, b)) + future[<<e, R>>]
    BY <1>14, <1>16, <2>1, SumOfPair
  <2> QED BY <1>10, <2>2 DEF Outstanding
<1>18. future[<<L, R>>] \in Int /\ future[<<L, b>>] \in Int /\ future[<<e, R>>] \in Int
  BY <1>3 DEF FutureFits
<1>19. Change(c, b, e) = future[<<L, b>>] + future[<<e, R>>] - future[<<L, R>>]
  BY <1>1 DEF Change, Entry
<1> QED BY <1>15, <1>16, <1>17, <1>18, <1>19

------------------------------------------------------------------------------
\* The recursion of FutureOf has a solution, and its entries are numbers.

\* The equation of FutureOf: what an entry is worth, given the entries of shorter spans.
AnySpans == {p \in (0 .. Length) \X (0 .. Length) : p[1] <= p[2]}
Candidates(c, entry, s) ==
  {Bound(c, p) : p \in {q \in {s} \cap Spans : c[q] # {}}}
    \cup {entry[<<s[1], d>>] + entry[<<d, s[2]>>] : d \in s[1] + 1 .. s[2] - 1}
BestOf(c, entry, s) == IF s[1] = s[2] THEN 0 ELSE Max(Candidates(c, entry, s))

\* Entries of shorter spans are all it depends on.
LEMMA BestOfDependsOnShorter ==
  ASSUME NEW c, NEW f, NEW g, NEW n \in Nat, NEW s \in AnySpans, s[2] - s[1] <= n + 1,
         \A p \in AnySpans : p[2] - p[1] <= n => f[p] = g[p]
  PROVE  BestOf(c, f, s) = BestOf(c, g, s)
<1> USE SentenceAssumption
<1>1. ASSUME NEW d \in s[1] + 1 .. s[2] - 1
      PROVE  f[<<s[1], d>>] + f[<<d, s[2]>>] = g[<<s[1], d>>] + g[<<d, s[2]>>]
  <2>1. PICK x, y : s = <<x, y>> /\ x \in 0 .. Length /\ y \in 0 .. Length /\ x <= y
    BY DEF AnySpans
  <2>2. d \in 0 .. Length /\ x < d /\ d < y
    BY <2>1
  <2>3. <<x, d>> \in AnySpans /\ <<d, y>> \in AnySpans
    BY <2>1, <2>2 DEF AnySpans
  <2>4. d - x <= n /\ y - d <= n
    BY <2>1, <2>2
  <2>5. f[<<x, d>>] = g[<<x, d>>] /\ f[<<d, y>>] = g[<<d, y>>]
    BY <2>3, <2>4
  <2> QED BY <2>1, <2>5
<1>2. Candidates(c, f, s) = Candidates(c, g, s)
  BY <1>1 DEF Candidates
<1> QED BY <1>2 DEF BestOf

LEMMA FutureEquation ==
  ASSUME NEW c
  PROVE  \A s \in AnySpans : FutureOf(c)[s] = BestOf(c, FutureOf(c), s)
<1> USE SentenceAssumption
<1> DEFINE Solves(f, n) ==
             /\ f = [s \in AnySpans |-> f[s]]
             /\ \A s \in AnySpans : s[2] - s[1] <= n => f[s] = BestOf(c, f, s)
           open == {n \in Nat : ~ \E f : Solves(f, n)}
<1>1. \E f : Solves(f, 0)
  <2>1. PICK f : f = [s \in AnySpans |-> 0]
    OBVIOUS
  <2>2. ASSUME NEW s \in AnySpans, s[2] - s[1] <= 0 PROVE s[1] = s[2]
    BY <2>2 DEF AnySpans
  <2>3. ASSUME NEW s \in AnySpans, s[2] - s[1] <= 0 PROVE f[s] = BestOf(c, f, s)
    BY <2>1, <2>2, <2>3 DEF BestOf
  <2> QED BY <2>1, <2>3
<1>2. ASSUME NEW n \in Nat, NEW f, Solves(f, n) PROVE \E g : Solves(g, n + 1)
  <2>1. PICK g : g = [s \in AnySpans |-> IF s[2] - s[1] <= n THEN f[s] ELSE BestOf(c, f, s)]
    OBVIOUS
  <2>2. \A s \in AnySpans : s[2] - s[1] <= n => f[s] = g[s]
    BY <2>1
  <2>3. ASSUME NEW s \in AnySpans, s[2] - s[1] <= n + 1 PROVE g[s] = BestOf(c, g, s)
    <3>1. BestOf(c, f, s) = BestOf(c, g, s)
      <4> HIDE DEF Solves
      <4> QED BY <2>2, <2>3, BestOfDependsOnShorter
    <3>2. g[s] = BestOf(c, f, s)
      <4>1. CASE s[2] - s[1] <= n
        BY <1>2, <2>1, <4>1
      <4>2. CASE ~(s[2] - s[1] <= n)
        BY <2>1, <4>2
      <4> QED BY <4>1, <4>2
    <3> QED BY <3>1, <3>2
  <2>4. g = [s \in AnySpans |-> g[s]]
    BY <2>1
  <2> QED BY <2>3, <2>4
<1>3. open = {}
  <2> SUFFICES ASSUME open # {} PROVE FALSE
    OBVIOUS
  <2>1. open \in SUBSET Nat
    OBVIOUS
  <2>2. PICK m \in open : \A n \in open : m <= n
    <3> HIDE DEF open
    <3> QED BY <2>1, SetMinimum
  <2>3. m \in Nat /\ ~ \E f : Solves(f, m)
    OBVIOUS
  <2> HIDE DEF Solves
  <2>4. m # 0
    BY <1>1, <2>3
  <2>5. m - 1 \in Nat /\ m - 1 \notin open /\ (m - 1) + 1 = m
    <3>1. m - 1 \in Nat /\ ~(m <= m - 1) /\ (m - 1) + 1 = m
      BY <2>3, <2>4
    <3> HIDE DEF open
    <3> QED BY <2>2, <3>1
  <2>6. PICK f : Solves(f, m - 1)
    BY <2>5
  <2>7. \E f1 : Solves(f1, (m - 1) + 1)
    BY <1>2, <2>5, <2>6
  <2> QED BY <2>3, <2>5, <2>7
<1>4. PICK f : Solves(f, Length)
  <2> HIDE DEF Solves
  <2> QED BY <1>3
<1>5. f = [s \in AnySpans |-> BestOf(c, f, s)]
  <2>1. \A s \in AnySpans : s[2] - s[1] <= Length
    BY DEF AnySpans
  <2>2. \A s \in AnySpans : f[s] = BestOf(c, f, s)
    BY <1>4, <2>1
  <2>3. f = [s \in AnySpans |-> f[s]]
    BY <1>4
  <2> HIDE DEF Solves
  <2>4. [s \in AnySpans |-> f[s]] = [s \in AnySpans |-> BestOf(c, f, s)]
    BY <2>2
  <2> QED BY <2>3, <2>4
<1> DEFINE Fixed(g) == g = [s \in AnySpans |-> BestOf(c, g, s)]
<1>6. FutureOf(c) = CHOOSE g : Fixed(g)
  BY Zenon DEF FutureOf, BestOf, Candidates, AnySpans
<1>7. Fixed(FutureOf(c))
  <2>1. \E g : Fixed(g)
    BY <1>5
  <2> HIDE DEF Fixed
  <2> QED BY <1>6, <2>1
<1>8. PICK g : g = FutureOf(c)
  OBVIOUS
<1>9. g = [s \in AnySpans |-> BestOf(c, g, s)]
  BY <1>7, <1>8
<1>10. \A s \in AnySpans : g[s] = BestOf(c, g, s)
  BY <1>9
<1> QED BY <1>8, <1>10

\* A finite set of numbers has its maximum.
LEMMA MaxOfFinite ==
  ASSUME NEW S \in SUBSET Int, IsFiniteSet(S), S # {}
  PROVE  Max(S) \in S /\ \A x \in S : x <= Max(S)
<1> DEFINE Topless == {R \in SUBSET S : R # {} /\ ~ \E x \in R : \A y \in R : x >= y}
<1>1. Topless = {}
  <2> SUFFICES ASSUME Topless # {} PROVE FALSE
    OBVIOUS
  <2>1. \A R \in Topless : IsFiniteSet(R)
    BY FS_Subset
  <2>2. PICK R \in Topless : \A Q \in Topless : Cardinality(R) <= Cardinality(Q)
    <3> HIDE DEF Topless
    <3> QED BY <2>1, SmallestSet
  <2>3. PICK x \in R : R \in SUBSET S
    OBVIOUS
  <2>4. R \ {x} \notin Topless
    <3>1. /\ Cardinality(R \ {x}) \in Nat /\ Cardinality(R) \in Nat
          /\ Cardinality(R \ {x}) < Cardinality(R)
      BY <2>1, <2>3, OneFewer
    <3> HIDE DEF Topless
    <3> QED BY <2>2, <3>1
  <2>5. CASE R \ {x} = {}
    <3>1. R = {x} /\ x \in Int
      BY <2>3, <2>5
    <3>2. \A y \in R : x >= y
      BY <3>1
    <3> QED BY <3>2
  <2>6. CASE R \ {x} # {}
    <3>1. PICK z \in R \ {x} : \A y \in R \ {x} : z >= y
      BY <2>3, <2>4, <2>6
    <3>2. x \in Int /\ z \in Int /\ R \subseteq Int
      BY <2>3
    <3>3. CASE z >= x
      <4>1. \A y \in R : z >= y
        BY <3>1, <3>3
      <4> QED BY <3>1, <4>1
    <3>4. CASE x > z
      <4>1. \A y \in R : x >= y
        BY <3>1, <3>2, <3>4
      <4> QED BY <4>1
    <3> QED BY <3>2, <3>3, <3>4
  <2> QED BY <2>5, <2>6
<1>2. \E x \in S : \A y \in S : x >= y
  BY <1>1
<1>3. Max(S) \in S /\ \A y \in S : Max(S) >= y
  BY <1>2 DEF Max
<1> QED BY <1>3

LEMMA FiniteImage ==
  ASSUME NEW S, IsFiniteSet(S), NEW f
  PROVE  IsFiniteSet({f[x] : x \in S})
<1>1. PICK g, T : g = [x \in S |-> f[x]] /\ T = {f[x] : x \in S}
  OBVIOUS
<1>2. g \in Surjection(S, T)
  BY <1>1 DEF Surjection
<1> QED BY <1>1, <1>2, FS_Surjection

LEMMA FuturesFit ==
  ASSUME NEW c \in Charts, future = FutureOf(c), IsFiniteSet(Targets),
         \A t \in Targets : PhraseScore(t) \in Int
  PROVE  FutureFits
<1> USE SentenceAssumption
<1>1. \A s \in AnySpans : future[s] = BestOf(c, future, s)
  BY FutureEquation
<1>2. ASSUME NEW x \in 0 .. Length PROVE future[<<x, x>>] = 0
  <2>1. <<x, x>> \in AnySpans
    BY DEF AnySpans
  <2> QED BY <1>1, <2>1 DEF BestOf
<1>3. ASSUME NEW p \in Spans, c[p] # {} PROVE Bound(c, p) \in Int
  <2>1. c[p] \in SUBSET Targets
    BY ChartsAssumption
  <2>2. PICK scores : scores = {PhraseScore(t) : t \in c[p]}
    OBVIOUS
  <2>3. IsFiniteSet(c[p])
    BY <2>1, FS_Subset
  <2>4. IsFiniteSet(scores)
    <3>1. PICK f : f = [t \in c[p] |-> PhraseScore(t)]
      OBVIOUS
    <3>2. scores = {f[t] : t \in c[p]}
      BY <2>2, <3>1
    <3> QED BY <2>3, <3>2, FiniteImage
  <2>5. scores \in SUBSET Int /\ scores # {}
    BY <1>3, <2>1, <2>2
  <2>6. Max(scores) \in scores
    BY <2>4, <2>5, MaxOfFinite
  <2> QED BY <2>2, <2>5, <2>6 DEF Bound
<1>4. ASSUME NEW n \in Nat, NEW s \in AnySpans, s[2] - s[1] = n,
             \A p \in AnySpans : p[2] - p[1] < n => future[p] \in Int
      PROVE  future[s] \in Int
  <2>1. PICK x, y : s = <<x, y>> /\ x \in 0 .. Length /\ y \in 0 .. Length /\ x <= y
    BY DEF AnySpans
  <2>2. CASE x = y
    BY <1>2, <2>1, <2>2
  <2>3. CASE x < y
    <3>1. PICK own : own = {Bound(c, p) : p \in {q \in {s} \cap Spans : c[q] # {}}}
      OBVIOUS
    <3>2. PICK split : split = {future[<<x, d>>] + future[<<d, y>>] : d \in x + 1 .. y - 1}
      OBVIOUS
    <3>3. Candidates(c, future, s) = own \cup split
      BY <2>1, <3>1, <3>2 DEF Candidates
    <3>4. IsFiniteSet(own) /\ own \subseteq Int
      <4>1. IsFiniteSet({s})
        BY FS_Singleton
      <4>2. IsFiniteSet({q \in {s} \cap Spans : c[q] # {}})
        BY <4>1, FS_Subset
      <4>3. IsFiniteSet(own)
        <5>1. PICK f : f = [p \in {q \in {s} \cap Spans : c[q] # {}} |-> Bound(c, p)]
          OBVIOUS
        <5>2. own = {f[p] : p \in {q \in {s} \cap Spans : c[q] # {}}}
          BY <3>1, <5>1
        <5> QED BY <4>2, <5>2, FiniteImage
      <4> QED BY <1>3, <3>1, <4>3
    <3>5. IsFiniteSet(split) /\ split \subseteq Int
      <4>1. IsFiniteSet(x + 1 .. y - 1)
        BY <2>1, FS_Interval
      <4>2. IsFiniteSet(split)
        <5>1. PICK f : f = [d \in x + 1 .. y - 1 |-> future[<<x, d>>] + future[<<d, y>>]]
          OBVIOUS
        <5>2. split = {f[d] : d \in x + 1 .. y - 1}
          BY <3>2, <5>1
        <5> QED BY <4>1, <5>2, FiniteImage
      <4>3. ASSUME NEW d \in x + 1 .. y - 1
            PROVE  future[<<x, d>>] \in Int /\ future[<<d, y>>] \in Int
        <5>1. <<x, d>> \in AnySpans /\ <<d, y>> \in AnySpans
          BY <2>1 DEF AnySpans
        <5>2. d - x < n /\ y - d < n
          BY <1>4, <2>1
        <5> QED BY <1>4, <5>1, <5>2
      <4>4. \A d \in x + 1 .. y - 1 : future[<<x, d>>] + future[<<d, y>>] \in Int
        BY <4>3
      <4> QED BY <3>2, <4>2, <4>4
    <3>6. own \cup split # {}
      <4>1. CASE y = x + 1
        <5>1. s \in Spans
          BY <2>1, <4>1 DEF Spans
        <5>2. c[s] # {}
          BY <2>1, <4>1, ChartsAssumption
        <5> QED BY <3>1, <5>1, <5>2
      <4>2. CASE y > x + 1
        <5>1. x + 1 \in x + 1 .. y - 1
          BY <2>1, <4>2
        <5> QED BY <3>2, <5>1
      <4> QED BY <2>1, <2>3, <4>1, <4>2
    <3>7. Max(own \cup split) \in Int
      <4>1. IsFiniteSet(own \cup split)
        BY <3>4, <3>5, FS_Union
      <4>2. own \cup split \in SUBSET Int
        BY <3>4, <3>5
      <4> QED BY <3>6, <4>1, <4>2, MaxOfFinite
    <3>8. future[s] = Max(own \cup split)
      <4>1. s[1] # s[2]
        BY <2>1, <2>3
      <4> QED BY <1>1, <3>3, <4>1 DEF BestOf
    <3> QED BY <3>7, <3>8
  <2> QED BY <2>1, <2>2, <2>3
<1>5. ASSUME NEW s \in AnySpans PROVE future[s] \in Int
  <2> DEFINE wrong == {p \in AnySpans : future[p] \notin Int}
             sizes == {p[2] - p[1] : p \in wrong}
  <2> SUFFICES ASSUME wrong # {} PROVE FALSE
    OBVIOUS
  <2>1. sizes \in SUBSET Nat /\ sizes # {}
    BY DEF AnySpans
  <2>2. PICK n \in sizes : \A m \in sizes : n <= m
    <3> HIDE DEF sizes
    <3> QED BY <2>1, SetMinimum
  <2>3. PICK p \in wrong : n = p[2] - p[1]
    OBVIOUS
  <2>4. n \in Nat
    BY <2>1
  <2>5. ASSUME NEW q \in AnySpans, q[2] - q[1] < n PROVE future[q] \in Int
    <3> SUFFICES ASSUME q \in wrong PROVE FALSE
      OBVIOUS
    <3>1. q[2] - q[1] \in sizes
      OBVIOUS
    <3>2. q[2] - q[1] \in Nat
      BY <2>1, <3>1
    <3> HIDE DEF sizes, wrong
    <3> QED BY <2>2, <2>4, <2>5, <3>1, <3>2
  <2>6. p \in AnySpans /\ future[p] \notin Int
    OBVIOUS
  <2> HIDE DEF sizes, wrong
  <2> QED BY <1>4, <2>3, <2>4, <2>5, <2>6
<1>6. ASSUME NEW x \in 0 .. Length, NEW y \in 0 .. Length, x <= y PROVE future[<<x, y>>] \in Int
  <2>1. <<x, y>> \in AnySpans
    BY <1>6 DEF AnySpans
  <2> QED BY <1>5, <2>1
<1> QED BY <1>2, <1>6 DEF FutureFits

------------------------------------------------------------------------------
\* Scores.

\* No feature reads the coverage or the score of a hypothesis.
FeaturesReadNoScore ==
  \A h : \A begin, stop :
    /\ SourceScore(h, begin, stop) = SourceScore(Seen(h), begin, stop)
    /\ \A t : PairScore(h, begin, stop, t) = PairScore(Seen(h), begin, stop, t)

\* What holds of the score of a hypothesis.
Valued(h) ==
  /\ Seen(h) \in SeenWith(Seq(Steps))
  /\ Seen(h) = After(h.history, Len(h.history))
  /\ \A i \in DOMAIN h.history : Gain(h.history, i) \in Int
  /\ h.score \in Int /\ Earned(h.history) + Outstanding(h.coverage) \in Int
  /\ h.score >= Earned(h.history) + Outstanding(h.coverage)

\* The strengthening of IInv with scores.
ScoreInv ==
  /\ IInv
  /\ \E start \in Unwritten : stacks[0] = {Root(start)}
  /\ future = FutureOf(chart)
  /\ \A w \in 0 .. Length : \A h \in stacks[w] : Valued(h)
  /\ phase = "search" =>
       \A v \in vertices :
         /\ v = Antecedent(v.previous, v.begin, v.end)
         /\ <<v.begin, v.end>> \in Spans
         /\ Valued(v.previous)

------------------------------------------------------------------------------
\* What a longer history says of its first steps.
LEMMA AfterOfLonger ==
  ASSUME NEW history \in Seq(Steps), NEW step \in Steps
  PROVE  /\ \A i \in 0 .. Len(history) : After(Append(history, step), i) = After(history, i)
         /\ After(Append(history, step), Len(history) + 1)
              = [start |-> step.begin, end |-> step.end, state |-> StateAfter(step.target),
                 target |-> step.target, history |-> Append(history, step)]
<1>1. PICK longer, n : longer = Append(history, step) /\ n = Len(history)
  OBVIOUS
<1>2. /\ n \in Nat /\ longer \in Seq(Steps) /\ Len(longer) = n + 1
      /\ \A i \in 1 .. n : longer[i] = history[i]
      /\ longer[n + 1] = step
  BY <1>1
<1>3. ASSUME NEW i \in 0 .. n PROVE After(longer, i) = After(history, i)
  <2>1. CASE i = 0
    BY <2>1 DEF After
  <2>2. CASE i # 0
    <3>1. longer[i] = history[i]
      BY <1>2, <2>2
    <3>2. SubSeq(longer, 1, i) = [j \in 1 .. i |-> longer[j]]
      BY <1>2, <2>2
    <3>3. SubSeq(history, 1, i) = [j \in 1 .. i |-> history[j]]
      BY <1>1, <1>2, <2>2
    <3>4. \A j \in 1 .. i : longer[j] = history[j]
      BY <1>2
    <3>5. SubSeq(longer, 1, i) = SubSeq(history, 1, i)
      BY <3>2, <3>3, <3>4
    <3> QED BY <2>2, <3>1, <3>5 DEF After
  <2> QED BY <2>1, <2>2
<1>4. SubSeq(longer, 1, n + 1) = longer
  BY <1>2
<1>5. After(longer, n + 1)
        = [start |-> step.begin, end |-> step.end, state |-> StateAfter(step.target),
           target |-> step.target, history |-> longer]
  <2>1. n + 1 # 0
    BY <1>2
  <2> QED BY <1>2, <1>4, <2>1 DEF After
<1> QED BY <1>1, <1>3, <1>5

\* A step adds its gain to what a history earned.
LEMMA EarnedOfLonger ==
  ASSUME NEW history \in Seq(Steps), NEW step \in Steps,
         \A i \in DOMAIN history : Gain(history, i) \in Int,
         Gain(Append(history, step), Len(history) + 1) \in Int
  PROVE  /\ Earned(history) \in Int
         /\ \A i \in DOMAIN history : Gain(Append(history, step), i) = Gain(history, i)
         /\ Earned(Append(history, step))
              = Earned(history) + Gain(Append(history, step), Len(history) + 1)
<1>1. PICK longer, n : longer = Append(history, step) /\ n = Len(history)
  OBVIOUS
<1>2. /\ n \in Nat /\ DOMAIN history = 1 .. n /\ DOMAIN longer = 1 .. n + 1
      /\ \A i \in 1 .. n : longer[i] = history[i]
  BY <1>1
<1>3. ASSUME NEW i \in 1 .. n PROVE Gain(longer, i) = Gain(history, i)
  <2>1. After(longer, i - 1) = After(history, i - 1)
    <3>1. i - 1 \in 0 .. n
      BY <1>2
    <3> QED BY <1>1, <3>1, AfterOfLonger
  <2>2. longer[i] = history[i]
    BY <1>2
  <2> QED BY <2>1, <2>2 DEF Gain
<1>4. PICK f : f = [i \in DOMAIN history |-> Gain(history, i)]
  OBVIOUS
<1>5. PICK g : g = [i \in DOMAIN longer |-> Gain(longer, i)]
  OBVIOUS
<1>6. IsFiniteSet(1 .. n) /\ n + 1 \notin 1 .. n /\ 1 .. n + 1 = (1 .. n) \cup {n + 1}
  <2>1. n \in Int /\ 1 \in Int
    BY <1>2
  <2>2. IsFiniteSet(1 .. n)
    BY <2>1, FS_Interval
  <2> QED BY <1>2, <2>2
<1>7. /\ Earned(history) = SumFunctionOnSet(f, 1 .. n)
      /\ Earned(longer) = SumFunctionOnSet(g, 1 .. n + 1)
  BY <1>2, <1>4, <1>5 DEF Earned, SumFunction
<1>8. \A i \in 1 .. n : f[i] \in Int /\ g[i] = f[i]
  BY <1>2, <1>3, <1>4, <1>5
<1>9. g[n + 1] = Gain(longer, n + 1) /\ g[n + 1] \in Int
  <2>1. n + 1 \in DOMAIN longer
    BY <1>2
  <2> QED BY <1>1, <1>5, <2>1
<1>10. SumFunctionOnSet(g, 1 .. n) = SumFunctionOnSet(f, 1 .. n)
  BY <1>6, <1>8, SumsAgree
<1>11. /\ SumFunctionOnSet(g, 1 .. n) \in Int
       /\ SumFunctionOnSet(g, (1 .. n) \cup {n + 1}) = SumFunctionOnSet(g, 1 .. n) + g[n + 1]
  <2>1. \A i \in (1 .. n) \cup {n + 1} : g[i] \in Int
    BY <1>8, <1>9
  <2>2. PICK S, last : S = 1 .. n /\ last = n + 1
    OBVIOUS
  <2>3. IsFiniteSet(S) /\ last \notin S /\ \A i \in S \cup {last} : g[i] \in Int
    BY <1>6, <2>1, <2>2
  <2>4. /\ SumFunctionOnSet(g, S) \in Int
        /\ SumFunctionOnSet(g, S \cup {last}) = SumFunctionOnSet(g, S) + g[last]
    BY ONLY <2>3, SumOfOneMore
  <2> QED BY <2>2, <2>4
<1>12. Earned(longer) = Earned(history) + Gain(longer, n + 1) /\ Earned(history) \in Int
  BY <1>6, <1>7, <1>9, <1>10, <1>11
<1> QED BY <1>1, <1>2, <1>3, <1>12

\* Nothing has been earned at the root.
LEMMA EarnedOfNothing == Earned(<< >>) = 0
<1>1. PICK f : f = [i \in DOMAIN << >> |-> Gain(<< >>, i)]
  OBVIOUS
<1>2. DOMAIN << >> = {}
  OBVIOUS
<1>3. DOMAIN f = {}
  BY <1>1, <1>2
<1>4. Earned(<< >>) = SumFunctionOnSet(f, {})
  BY <1>1, <1>3 DEF Earned, SumFunction
<1> QED BY <1>4, SumOfNothing

\* At the root the whole sentence is one gap.
LEMMA OutstandingOfNothing ==
  ASSUME FutureFits
  PROVE  Outstanding(NothingCovered) = future[<<0, Length>>]
<1> USE SentenceAssumption
<1>1. Covered(NothingCovered) = {}
  BY DEF Covered, NothingCovered
<1>2. Gaps(NothingCovered) = {<<0, Length>>}
  <2>1. ASSUME NEW x \in 0 .. Length, NEW y \in 0 .. Length
        PROVE  <<x, y>> \in Gaps(NothingCovered) <=> x = 0 /\ y = Length
    <3>1. <<x, y>> \in Gaps(NothingCovered)
            <=> /\ x < y /\ x .. y - 1 \subseteq 0 .. Length - 1
                /\ x - 1 \notin 0 .. Length - 1 /\ y \notin 0 .. Length - 1
      BY <1>1 DEF Gaps
    <3> QED BY <3>1
  <2>2. Gaps(NothingCovered) \subseteq (0 .. Length) \X (0 .. Length)
    BY DEF Gaps
  <2> QED BY <2>1, <2>2
<1>3. future[<<0, Length>>] \in Int
  BY DEF FutureFits
<1>4. /\ SumFunctionOnSet(future, {}) = 0
      /\ SumFunctionOnSet(future, {} \cup {<<0, Length>>}) = SumFunctionOnSet(future, {}) + future[<<0, Length>>]
  <2>1. IsFiniteSet({})
    BY FS_EmptySet
  <2>2. \A s \in {} \cup {<<0, Length>>} : future[s] \in Int
    BY <1>3
  <2>3. <<0, Length>> \notin {}
    OBVIOUS
  <2> QED BY <2>1, <2>2, <2>3, SumOfOneMore, SumOfNothing
<1>5. {} \cup {<<0, Length>>} = {<<0, Length>>}
  OBVIOUS
<1> QED BY <1>2, <1>3, <1>4, <1>5 DEF Outstanding

\* The root is worth the estimate of the sentence.
LEMMA RootValued ==
  ASSUME FutureFits, NEW start \in Unwritten, stacks[0] = {Root(start)}
  PROVE  Valued(Root(start))
<1> USE SentenceAssumption
<1>1. PICK r : r = Root(start)
  OBVIOUS
<1>2. /\ r.coverage = NothingCovered /\ r.score = future[<<0, Length>>] /\ r.history = << >>
      /\ r.start = start /\ r.end = 0 /\ r.state = BeginState /\ r.target = BeginPhrase
  BY <1>1 DEF Root
<1>3. Seen(r) \in SeenWith(Seq(Steps))
  <2>1. Seen(r) = [start |-> start, end |-> 0, state |-> BeginState, target |-> BeginPhrase, history |-> << >>]
    BY <1>2 DEF Seen
  <2>2. << >> \in Seq(Steps) /\ 0 \in 0 .. Length /\ BeginState \in States
    OBVIOUS
  <2> QED BY <2>1, <2>2 DEF SeenWith
<1>4. Seen(r) = After(r.history, Len(r.history))
  <2>1. TheRoot = r
    BY <1>1 DEF TheRoot
  <2>2. Len(r.history) = 0
    BY <1>2
  <2> QED BY <2>1, <2>2 DEF After
<1>5. \A i \in DOMAIN r.history : Gain(r.history, i) \in Int
  <2>1. DOMAIN r.history = {}
    BY <1>2
  <2> QED BY <2>1
<1>6. r.score \in Int
  BY <1>2 DEF FutureFits
<1>7. Earned(r.history) = 0 /\ Outstanding(r.coverage) = r.score
  BY <1>2, EarnedOfNothing, OutstandingOfNothing
<1>8. Valued(r)
  BY <1>3, <1>4, <1>5, <1>6, <1>7 DEF Valued
<1> QED BY <1>1, <1>8

\* An extension is worth what its previous hypothesis is, and what Change, the objective
\* and the phrase add.
LEMMA ExtendValued ==
  ASSUME FutureFits, ScoresAreNumbers(Seq(Steps)), FeaturesReadNoScore,
         NEW w \in 1 .. Length, NEW v, Extendable(v, w), NEW t \in Targets,
         v = Antecedent(v.previous, v.begin, v.end), <<v.begin, v.end>> \in Spans,
         Valued(v.previous)
  PROVE  Valued(Extend(v, t))
<1> USE SentenceAssumption
<1>1. PICK h, b, e, history, step, longer, c, new, x :
        /\ h = v.previous /\ b = v.begin /\ e = v.end /\ history = h.history /\ step = Step(b, e, t)
        /\ longer = Append(history, step) /\ c = h.coverage /\ new = Set(c, b, e) /\ x = Extend(v, t)
  OBVIOUS
<1>2. /\ b \in 0 .. Length /\ e \in 0 .. Length /\ b < e /\ <<b, e>> \in Spans
      /\ InWindow(c, b, e) /\ Compatible(c, b, e)
  BY <1>1 DEF Extendable
<1>3. WellFormed(c) /\ history \in Seq(Steps) /\ Covered(c) \subseteq 0 .. Length - 1
  BY <1>1 DEF Extendable, Sound
<1>4. Covered(new) = Covered(c) \cup (b .. e - 1)
  BY <1>1, <1>2, <1>3, SetFacts
<1>5. /\ Outstanding(c) \in Int /\ Change(c, b, e) \in Int
      /\ Outstanding(new) = Outstanding(c) + Change(c, b, e)
  BY <1>2, <1>3, <1>4, ChangeTelescopes
<1>6. step \in Steps /\ step.begin = b /\ step.end = e /\ step.target = t
  BY <1>1, <1>2 DEF Step, Steps
<1>7. /\ x.coverage = new /\ x.history = longer
      /\ x.start = b /\ x.end = e /\ x.state = StateAfter(t) /\ x.target = t
      /\ x.score = v.score + PhraseScore(t) + PairScore(h, b, e, t)
  BY <1>1 DEF Extend
<1>8. v.score = h.score + SourceScore(h, b, e) + Change(c, b, e)
  <2>1. Antecedent(h, b, e).score = h.score + SourceScore(h, b, e) + Change(c, b, e)
    BY <1>1 DEF Antecedent
  <2> QED BY <1>1, <2>1
<1>9. /\ Seen(h) \in SeenWith(Seq(Steps)) /\ Seen(h) = After(history, Len(history))
      /\ \A i \in DOMAIN history : Gain(history, i) \in Int
      /\ h.score \in Int /\ h.score >= Earned(history) + Outstanding(c)
  BY <1>1 DEF Valued
<1>10. PICK src, prs, phr :
         src = SourceScore(h, b, e) /\ prs = PairScore(h, b, e, t) /\ phr = PhraseScore(t)
  OBVIOUS
<1>11. src = SourceScore(Seen(h), b, e) /\ prs = PairScore(Seen(h), b, e, t)
  BY <1>10 DEF FeaturesReadNoScore
<1>12. src \in Int /\ prs \in Int /\ phr \in Int
  BY <1>2, <1>9, <1>10, <1>11 DEF ScoresAreNumbers
<1>13. Len(history) \in Nat /\ longer \in Seq(Steps) /\ Len(longer) = Len(history) + 1
       /\ longer[Len(history) + 1] = step
       /\ DOMAIN history = 1 .. Len(history) /\ DOMAIN longer = 1 .. Len(history) + 1
  BY <1>1, <1>3, <1>6
<1>14. Gain(longer, Len(history) + 1) = src + phr + prs
  <2>1. (Len(history) + 1) - 1 = Len(history)
    BY <1>13
  <2>2. After(longer, Len(history)) = Seen(h)
    <3>1. Len(history) \in 0 .. Len(history)
      BY <1>13
    <3> QED BY <1>1, <1>3, <1>6, <1>9, <3>1, AfterOfLonger, ZenonT(30)
  <2> QED BY <1>6, <1>10, <1>11, <1>13, <2>1, <2>2 DEF Gain
<1>15. /\ Earned(history) \in Int
       /\ \A i \in DOMAIN history : Gain(longer, i) = Gain(history, i)
       /\ Earned(longer) = Earned(history) + (src + phr + prs)
  <2>1. Gain(longer, Len(history) + 1) \in Int
    BY <1>12, <1>14
  <2>2. Gain(Append(history, step), Len(history) + 1) \in Int
    BY <1>1, <2>1
  <2>3. /\ Earned(history) \in Int
        /\ \A i \in DOMAIN history : Gain(Append(history, step), i) = Gain(history, i)
        /\ Earned(Append(history, step))
             = Earned(history) + Gain(Append(history, step), Len(history) + 1)
    BY ONLY <1>3, <1>6, <1>9, <2>2, EarnedOfLonger
  <2> QED BY <1>1, <1>14, <2>3
<1>16. \A i \in DOMAIN longer : Gain(longer, i) \in Int
  <2>1. \A i \in DOMAIN longer : i \in DOMAIN history \/ i = Len(history) + 1
    BY <1>13
  <2> QED BY <1>9, <1>12, <1>14, <1>15, <2>1
<1>17. Seen(x) = After(longer, Len(longer))
  <2>1. Seen(x) = [start |-> b, end |-> e, state |-> StateAfter(t), target |-> t, history |-> longer]
    BY <1>7 DEF Seen
  <2>2. After(longer, Len(history) + 1)
          = [start |-> b, end |-> e, state |-> StateAfter(t), target |-> t, history |-> longer]
    <3>1. After(Append(history, step), Len(history) + 1)
            = [start |-> step.begin, end |-> step.end, state |-> StateAfter(step.target),
               target |-> step.target, history |-> Append(history, step)]
      BY ONLY <1>3, <1>6, AfterOfLonger
    <3> QED BY <1>1, <1>6, <3>1
  <2> QED BY <1>13, <2>1, <2>2
<1>18. Seen(x) \in SeenWith(Seq(Steps))
  <2>1. Seen(x) = [start |-> b, end |-> e, state |-> StateAfter(t), target |-> t, history |-> longer]
    BY <1>7 DEF Seen
  <2>2. PICK state, seen : state = StateAfter(t) /\ seen = Seen(x)
    OBVIOUS
  <2>3. state \in States
    BY <2>2
  <2>4. seen \in [start : Unwritten \cup 0 .. Length, end : 0 .. Length, state : States,
                   target : Targets \cup {BeginPhrase}, history : Seq(Steps)]
    BY <1>2, <1>13, <2>1, <2>2, <2>3
  <2>5. <<seen.start, seen.end>> \in Spans
    BY <1>2, <2>1, <2>2
  <2> QED BY <2>2, <2>4, <2>5 DEF SeenWith
<1>19. /\ x.score \in Int /\ Earned(longer) + Outstanding(new) \in Int
       /\ x.score >= Earned(longer) + Outstanding(new)
  <2>1. PICK hs, ch, er, os : hs = h.score /\ ch = Change(c, b, e) /\ er = Earned(history) /\ os = Outstanding(c)
    OBVIOUS
  <2>2. hs \in Int /\ ch \in Int /\ er \in Int /\ os \in Int /\ hs >= er + os
    BY <1>5, <1>9, <1>15, <2>1
  <2>3. x.score = ((hs + src) + ch) + phr + prs
    BY <1>7, <1>8, <1>10, <2>1
  <2>4. Earned(longer) = er + (src + phr + prs) /\ Outstanding(new) = os + ch
    BY <1>5, <1>15, <2>1
  <2> QED BY <1>12, <2>2, <2>3, <2>4
<1>20. Valued(x)
  BY <1>7, <1>16, <1>17, <1>18, <1>19 DEF Valued
<1> QED BY <1>1, <1>20

\* Recombination only raises scores.
LEMMA OutputValued ==
  ASSUME NEW stack, NEW w, \A a \in stack : Sound(a, w) /\ Valued(a),
         NEW h, Sound(h, w), Valued(h)
  PROVE  \A a \in Output(stack, h) : Valued(a)
<1>1. ASSUME NEW a, Sound(a, w), Valued(a) PROVE Valued(Raise(a, h.score))
  <2>1. PICK cov, sc, b, e, st, t, hi :
          a = [coverage |-> cov, score |-> sc, start |-> b, end |-> e,
               state |-> st, target |-> t, history |-> hi]
    BY <1>1 DEF Sound, HasFields
  <2>2. PICK r : r = Raise(a, h.score)
    OBVIOUS
  <2>3. /\ r.coverage = a.coverage /\ r.start = a.start /\ r.end = a.end /\ r.state = a.state
        /\ r.target = a.target /\ r.history = a.history
        /\ r.score = IF a.score < h.score THEN h.score ELSE a.score
    BY <2>1, <2>2 DEF Raise
  <2>4. Seen(r) = Seen(a)
    BY <2>3 DEF Seen
  <2>5. r.score \in Int /\ r.score >= a.score /\ a.score \in Int
    BY <1>1, <2>3 DEF Valued
  <2>6. PICK worth : worth = Earned(a.history) + Outstanding(a.coverage)
    OBVIOUS
  <2>7. worth \in Int /\ a.score >= worth
    BY <1>1, <2>6 DEF Valued
  <2>8. r.score >= worth
    BY <2>5, <2>7
  <2>9. Earned(r.history) + Outstanding(r.coverage) = worth
    BY <2>3, <2>6
  <2>10. /\ Seen(a) \in SeenWith(Seq(Steps)) /\ Seen(a) = After(a.history, Len(a.history))
         /\ \A i \in DOMAIN a.history : Gain(a.history, i) \in Int
    BY <1>1 DEF Valued
  <2>11. Valued(r)
    BY <2>3, <2>4, <2>5, <2>7, <2>8, <2>9, <2>10 DEF Valued
  <2> QED BY <2>2, <2>11
<1>2. PICK same : same = {a \in stack : Same(a, h)}
  OBVIOUS
<1>3. CASE same = {}
  BY <1>2, <1>3 DEF Output
<1>4. CASE same # {}
  <2>1. Output(stack, h) = (stack \ same) \cup {Raise(a, h.score) : a \in same}
    BY <1>2, <1>4 DEF Output
  <2> QED BY <1>1, <1>2, <2>1
<1> QED BY <1>3, <1>4

------------------------------------------------------------------------------
\* The steps.

\* What a hypothesis is worth changes only with the root and the estimates.
LEMMA ValuedStays ==
  ASSUME UNCHANGED <<future, stacks[0]>>, NEW h, Valued(h)
  PROVE  Valued(h)'
<1>1. TheRoot' = TheRoot
  BY DEF TheRoot
<1>2. ASSUME NEW history, NEW n PROVE After(history, n)' = After(history, n)
  BY <1>1 DEF After, Seen
<1>3. ASSUME NEW history, NEW i PROVE Gain(history, i)' = Gain(history, i)
  BY <1>2 DEF Gain
<1>4. ASSUME NEW history PROVE Earned(history)' = Earned(history)
  BY <1>3 DEF Earned
<1>5. ASSUME NEW c PROVE Outstanding(c)' = Outstanding(c)
  BY DEF Outstanding, Gaps, Covered
<1> QED BY <1>2, <1>3, <1>4, <1>5 DEF Valued, Seen, SeenWith

\* What the theorem asks of the objective: numbers for scores, from what it may read.
ObjectiveFits ==
  /\ IsFiniteSet(Targets)
  /\ ScoresAreNumbers(Seq(Steps))
  /\ FeaturesReadNoScore

LEMMA ScoreInit == ASSUME ObjectiveFits PROVE Init => ScoreInv
<1> USE SentenceAssumption
<1> SUFFICES ASSUME Init PROVE ScoreInv
  OBVIOUS
<1>1. IInv
  BY InitInvariant
<1>2. chart \in Charts /\ future = FutureOf(chart) /\ phase = "extend"
  BY DEF Init
<1>3. PICK start \in Unwritten : stacks = [w \in 0 .. Length |-> IF w = 0 THEN {Root(start)} ELSE {}]
  BY DEF Init
<1>4. stacks[0] = {Root(start)} /\ \A w \in 1 .. Length : stacks[w] = {}
  BY <1>3
<1>5. FutureFits
  BY <1>2, FuturesFit DEF ObjectiveFits, ScoresAreNumbers
<1>6. Valued(Root(start))
  BY <1>4, <1>5, RootValued
<1>7. \A w \in 0 .. Length : \A h \in stacks[w] : Valued(h)
  BY <1>4, <1>6
<1> QED BY <1>1, <1>2, <1>4, <1>7 DEF ScoreInv

LEMMA ScoreFillVertices ==
  ASSUME ScoreInv, FillVertices, IInv'
  PROVE  ScoreInv'
<1> USE SentenceAssumption
<1>1. words \in 1 .. Length /\ phase' = "search" /\ vertices' = Extensions
  BY DEF ScoreInv, IInv, FillVertices
<1>2. UNCHANGED <<chart, future, stacks, words, end>>
  BY DEF FillVertices
<1>3. ASSUME NEW v \in Extensions
      PROVE  /\ v = Antecedent(v.previous, v.begin, v.end)
             /\ <<v.begin, v.end>> \in Spans
             /\ Valued(v.previous)
  <2>1. PICK from \in Froms : \E h \in stacks[from] : \E b \in Fits(h, words - from) :
          v = Antecedent(h, b, b + (words - from))
    BY DEF Extensions
  <2>h. PICK h \in stacks[from] : \E b \in Fits(h, words - from) :
          v = Antecedent(h, b, b + (words - from))
    BY <2>1
  <2>2. PICK b \in Fits(h, words - from) : v = Antecedent(h, b, b + (words - from))
    BY <2>h
  <2>3. v.previous = h /\ v.begin = b /\ v.end = b + (words - from)
    BY <2>2 DEF Antecedent
  <2>4. from \in 0 .. words - 1 /\ words - from <= MaxPhrase /\ from \in 0 .. Length
    BY <1>1 DEF Froms
  <2>5. Sound(h, from) /\ Valued(h)
    BY <2>4 DEF ScoreInv, IInv
  <2>6. b \in Begins(h.coverage, words - from)
    BY DEF Fits
  <2>7. <<b, b + (words - from)>> \in Spans
    BY <1>1, <2>4, <2>5, <2>6, BeginsFacts
  <2> QED BY <2>2, <2>3, <2>5, <2>7
<1>4. ASSUME NEW v \in vertices'
      PROVE  /\ v = Antecedent(v.previous, v.begin, v.end)'
             /\ <<v.begin, v.end>> \in Spans
             /\ Valued(v.previous)'
  <2>1. PICK u : u = v
    OBVIOUS
  <2>2. u = Antecedent(u.previous, u.begin, u.end) /\ <<u.begin, u.end>> \in Spans /\ Valued(u.previous)
    BY <1>1, <1>3, <2>1
  <2>3. Antecedent(u.previous, u.begin, u.end)' = Antecedent(u.previous, u.begin, u.end)
    BY <1>2 DEF Antecedent, Change, Entry
  <2>4. Valued(u.previous)'
    BY <1>2, <2>2, ValuedStays
  <2> QED BY <2>1, <2>2, <2>3, <2>4
<1>5. ASSUME NEW w \in 0 .. Length, NEW h \in stacks'[w] PROVE Valued(h)'
  <2>1. Valued(h)
    BY <1>2 DEF ScoreInv
  <2> QED BY <1>2, <2>1, ValuedStays
<1>6. \E start \in Unwritten : stacks'[0] = {Root(start)'}
  BY <1>2 DEF ScoreInv, Root
<1>7. future' = FutureOf(chart)'
  BY <1>2 DEF ScoreInv, FutureOf, Bound
<1> QED BY <1>4, <1>5, <1>6, <1>7 DEF ScoreInv

LEMMA ScorePopEdge ==
  ASSUME ObjectiveFits, ScoreInv, PopEdge, IInv'
  PROVE  ScoreInv'
<1> USE SentenceAssumption
<1>1. PICK e \in Edges : stacks' = [stacks EXCEPT ![words] = Output(@, Extend(e[1], e[2]))]
  BY DEF PopEdge
<1>2. phase = "search" /\ UNCHANGED <<chart, future, words, vertices, phase, end>>
  BY DEF PopEdge
<1>3. words \in 1 .. Length /\ DOMAIN stacks = 0 .. Length
  BY <1>2 DEF ScoreInv, IInv
<1>4. /\ stacks'[0] = stacks[0]
      /\ \A w \in 0 .. Length : w # words => stacks'[w] = stacks[w]
      /\ stacks'[words] = Output(stacks[words], Extend(e[1], e[2]))
  BY <1>1, <1>3
<1>5. FutureFits
  BY FuturesFit DEF ObjectiveFits, ScoresAreNumbers, ScoreInv, IInv
<1>6. e[1] \in vertices /\ e[2] \in Targets
  BY DEF Edges
<1>7. /\ Extendable(e[1], words)
      /\ e[1] = Antecedent(e[1].previous, e[1].begin, e[1].end)
      /\ <<e[1].begin, e[1].end>> \in Spans /\ Valued(e[1].previous)
  BY <1>2, <1>6 DEF ScoreInv, IInv
<1>8. Valued(Extend(e[1], e[2])) /\ Sound(Extend(e[1], e[2]), words)
  BY <1>3, <1>5, <1>6, <1>7, ExtendValued, ExtendSound DEF ObjectiveFits
<1>9. \A a \in Output(stacks[words], Extend(e[1], e[2])) : Valued(a)
  <2>1. \A a \in stacks[words] : Sound(a, words) /\ Valued(a)
    BY <1>3 DEF ScoreInv, IInv
  <2> QED BY <1>8, <2>1, OutputValued
<1>10. ASSUME NEW w \in 0 .. Length, NEW h \in stacks'[w] PROVE Valued(h)'
  <2>1. Valued(h)
    <3>1. CASE w = words
      BY <1>4, <1>9, <3>1
    <3>2. CASE w # words
      BY <1>4, <3>2 DEF ScoreInv
    <3> QED BY <3>1, <3>2
  <2> QED BY <1>2, <1>4, <2>1, ValuedStays
<1>11. ASSUME NEW v \in vertices'
       PROVE  /\ v = Antecedent(v.previous, v.begin, v.end)'
              /\ <<v.begin, v.end>> \in Spans
              /\ Valued(v.previous)'
  <2>1. PICK u : u = v
    OBVIOUS
  <2>2. u = Antecedent(u.previous, u.begin, u.end) /\ <<u.begin, u.end>> \in Spans /\ Valued(u.previous)
    BY <1>2, <2>1 DEF ScoreInv
  <2>3. Antecedent(u.previous, u.begin, u.end)' = Antecedent(u.previous, u.begin, u.end)
    BY <1>2 DEF Antecedent, Change, Entry
  <2>4. Valued(u.previous)'
    BY <1>2, <1>4, <2>2, ValuedStays
  <2> QED BY <2>1, <2>2, <2>3, <2>4
<1>12. \E start \in Unwritten : stacks'[0] = {Root(start)'}
  BY <1>2, <1>4 DEF ScoreInv, Root
<1>13. future' = FutureOf(chart)'
  BY <1>2 DEF ScoreInv, FutureOf, Bound
<1> QED BY <1>10, <1>11, <1>12, <1>13 DEF ScoreInv

\* The other steps leave stacks, estimates and, while searching, vertices alone.
LEMMA ScoreOtherSteps ==
  ASSUME ScoreInv, UNCHANGED <<chart, future, stacks>>, IInv',
         phase' = "search" => UNCHANGED <<phase, vertices>>
  PROVE  ScoreInv'
<1>1. ASSUME NEW w \in 0 .. Length, NEW h \in stacks'[w] PROVE Valued(h)'
  <2>1. Valued(h)
    BY DEF ScoreInv
  <2> QED BY <2>1, ValuedStays
<1>2. ASSUME phase' = "search", NEW v \in vertices'
      PROVE  /\ v = Antecedent(v.previous, v.begin, v.end)'
             /\ <<v.begin, v.end>> \in Spans
             /\ Valued(v.previous)'
  <2>1. PICK u : u = v
    OBVIOUS
  <2>2. u = Antecedent(u.previous, u.begin, u.end) /\ <<u.begin, u.end>> \in Spans /\ Valued(u.previous)
    BY <1>2, <2>1 DEF ScoreInv
  <2>3. Antecedent(u.previous, u.begin, u.end)' = Antecedent(u.previous, u.begin, u.end)
    BY DEF Antecedent, Change, Entry
  <2>4. Valued(u.previous)'
    BY <2>2, ValuedStays
  <2> QED BY <2>1, <2>2, <2>3, <2>4
<1>3. \E start \in Unwritten : stacks'[0] = {Root(start)'}
  BY DEF ScoreInv, Root
<1>4. future' = FutureOf(chart)'
  BY DEF ScoreInv, FutureOf, Bound
<1> QED BY <1>1, <1>2, <1>3, <1>4 DEF ScoreInv

\* The invariant with scores is inductive, whatever the features are that read no score.
THEOREM ScoreInvariance == ASSUME ObjectiveFits PROVE Spec => []ScoreInv
<1>1. Init => ScoreInv
  BY ScoreInit
<1>2. ScoreInv /\ [Next]_vars => ScoreInv'
  <2> SUFFICES ASSUME ScoreInv, [Next]_vars PROVE ScoreInv'
    OBVIOUS
  <2>1. IInv'
    BY IInvSteps DEF ScoreInv
  <2>2. CASE FillVertices
    BY <2>1, <2>2, ScoreFillVertices
  <2>3. CASE PopEdge
    BY <2>1, <2>3, ScorePopEdge
  <2>4. CASE FinishStack \/ PopFinal \/ Finish \/ UNCHANGED vars
    <3>1. UNCHANGED <<chart, future, stacks>> /\ (phase' = "search" => UNCHANGED <<phase, vertices>>)
      BY <2>4 DEF FinishStack, PopFinal, Finish, vars
    <3> QED BY <2>1, <3>1, ScoreOtherSteps
  <2> QED BY <2>2, <2>3, <2>4 DEF Next
<1> QED BY <1>1, <1>2, PTL DEF Spec

\* A score is never below what the history of the hypothesis earned and its gaps are
\* estimated at, in whatever order the phrases were translated.
THEOREM ScoresCoverTheirHistory == ASSUME ObjectiveFits PROVE Spec => []ScoreCoversHistory
<1>1. ScoreInv => ScoreCoversHistory
  BY DEF ScoreInv, ScoreCoversHistory, Valued
<1> QED BY <1>1, ScoreInvariance, PTL
==============================================================================
