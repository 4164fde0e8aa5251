------------------------------ MODULE EdgeProofs ------------------------------
(***************************************************************************)
(* For every input of the search, every language model and every feature:  *)
(* splitting partitions the pairs, what nodes show is true of what is      *)
(* below them, and the search delivers each pair once, the best first.     *)
(***************************************************************************)
EXTENDS EdgeGenerator, FiniteSetTheorems, SequenceTheorems, WellFoundedInduction, TLAPS

------------------------------------------------------------------------------
\* Least and greatest elements.

LEMMA MinIsLeast ==
  ASSUME NEW S \in SUBSET Nat, S # {}
  PROVE  Min(S) \in S /\ \A n \in S : Min(S) <= n
<1>1. IsWellFoundedOn(OpToRel(<, Nat), Nat)
  BY NatLessThanWellFounded
<1>2. PICK m \in S : \A n \in S : <<n, m>> \notin OpToRel(<, Nat)
  BY <1>1, WFMin
<1>3. ASSUME NEW k \in Nat, NEW n \in Nat, n < k PROVE <<n, k>> \in OpToRel(<, Nat)
  BY <1>3 DEF OpToRel
<1>4. ASSUME NEW n \in S PROVE m <= n
  <2>1. ~(n < m)
    BY <1>2, <1>3
  <2> QED BY ONLY <2>1, m \in S, n \in S, S \in SUBSET Nat
<1> QED BY <1>4 DEF Min

LEMMA MaxIsGreatest ==
  ASSUME NEW n \in Nat, NEW S \in SUBSET (0 .. n), S # {}
  PROVE  Max(S) \in S /\ \A k \in S : k <= Max(S)
<1> DEFINE mirror == {n - k : k \in S}
<1>1. mirror \in SUBSET Nat /\ mirror # {}
  <2>1. \A k \in S : n - k \in Nat
    OBVIOUS
  <2> QED BY <2>1
<1>2. PICK least \in mirror : \A k \in mirror : least <= k
  BY <1>1, MinIsLeast
<1>3. PICK m \in S : least = n - m
  BY <1>2
<1>4. ASSUME NEW k \in S PROVE m >= k
  <2>1. n - k \in mirror
    OBVIOUS
  <2>2. n - m <= n - k
    BY <1>2, <1>3, <2>1
  <2> QED BY <2>2, <1>3
<1>5. \A k \in S : m >= k
  BY <1>4
<1>6. Max(S) \in S /\ \A k \in S : Max(S) >= k
  BY <1>5 DEF Max
<1> QED BY <1>6

LEMMA OnlyOne ==
  ASSUME NEW S, IsFiniteSet(S), Cardinality(S) = 1, NEW x \in S, NEW y \in S
  PROVE  x = y
BY FS_Singleton

------------------------------------------------------------------------------
\* What a node shows.

\* The sides agree so far, and entirely if they are one.
LEMMA SharedFacts ==
  ASSUME NEW sides \in SUBSET Seq(Nat), sides # {}
  PROVE  /\ Shared(sides) \in Nat
         /\ \A s, t \in sides : /\ Shared(sides) <= Len(s)
                                /\ SubSeq(s, 1, Shared(sides)) = SubSeq(t, 1, Shared(sides))
         /\ (\A s, t \in sides : s = t) => \A s \in sides : Shared(sides) = Len(s)
<1> DEFINE lengths == {Len(s) : s \in sides}
           some == CHOOSE s \in sides : \A t \in sides : Len(s) <= Len(t)
           agreed == {k \in 0 .. Len(some) : \A s \in sides : SubSeq(s, 1, k) = SubSeq(some, 1, k)}
<1>1. lengths \in SUBSET Nat /\ lengths # {}
  <2>1. \A s \in sides : Len(s) \in Nat
    OBVIOUS
  <2> QED BY <2>1
<1>2. PICK least \in lengths : \A k \in lengths : least <= k
  BY <1>1, MinIsLeast
<1>3. PICK shortest \in sides : least = Len(shortest)
  BY <1>2
<1>4. \A t \in sides : Len(shortest) <= Len(t)
  BY <1>2, <1>3
<1>5. some \in sides /\ \A t \in sides : Len(some) <= Len(t)
  BY <1>4
<1> HIDE DEF lengths, some
<1>6. Len(some) \in Nat
  BY <1>5
<1>7. 0 \in agreed
  <2>1. \A s \in sides : SubSeq(s, 1, 0) = << >>
    BY SubSeqEmpty
  <2> QED BY <1>5, <1>6, <2>1
<1>8. Max(agreed) \in agreed /\ \A k \in agreed : k <= Max(agreed)
  BY <1>6, <1>7, MaxIsGreatest
<1>9. Shared(sides) = Max(agreed)
  BY DEF Shared, some
<1>a. /\ Shared(sides) \in 0 .. Len(some)
      /\ \A s \in sides : SubSeq(s, 1, Shared(sides)) = SubSeq(some, 1, Shared(sides))
      /\ \A k \in agreed : k <= Shared(sides)
  BY <1>8, <1>9
<1>b. \A s \in sides : Len(s) \in Nat
  OBVIOUS
<1>10. \A s, t \in sides : /\ Shared(sides) <= Len(s)
                           /\ SubSeq(s, 1, Shared(sides)) = SubSeq(t, 1, Shared(sides))
  BY <1>5, <1>6, <1>a, <1>b
<1>11. ASSUME \A s, t \in sides : s = t, NEW s \in sides PROVE Shared(sides) = Len(s)
  <2>1. s = some
    BY <1>5, <1>11
  <2>2. Len(some) \in agreed
    BY <1>6, <1>5, <1>11
  <2> QED BY <1>6, <1>a, <2>1, <2>2
<1> QED BY <1>6, <1>a, <1>10, <1>11

LEMMA ShownFacts ==
  ASSUME NEW sides \in SUBSET Seq(Nat), IsFiniteSet(sides), NEW some \in sides, NEW s \in sides
  PROVE  /\ IsPrefix(SubSeq(some, 1, Shared(sides)), s)
         /\ Agree(sides) => s = SubSeq(some, 1, Shared(sides))
<1> DEFINE k == Shared(sides)
           shown == SubSeq(some, 1, k)
<1>1. k \in Nat /\ k <= Len(s) /\ k <= Len(some) /\ shown = SubSeq(s, 1, k)
  BY SharedFacts
<1>2. s \in Seq(Nat) /\ Len(s) \in Nat
  OBVIOUS
<1> HIDE DEF k
<1>3. Len(SubSeq(s, 1, k)) = k
  BY <1>1, <1>2
<1>4. SubSeq(SubSeq(s, 1, k), 1, k) = SubSeq(s, 1, k)
  BY <1>1, <1>2
<1>5. IsPrefix(shown, s)
  BY <1>1, <1>3, <1>4 DEF IsPrefix
<1>6. ASSUME Agree(sides) PROVE s = shown
  <2>1. \A t, u \in sides : t = u
    BY <1>6, OnlyOne DEF Agree
  <2>2. k = Len(s)
    BY <2>1, SharedFacts DEF k
  <2>3. SubSeq(s, 1, Len(s)) = s
    BY <1>2
  <2> QED BY <1>1, <2>2, <2>3
<1> QED BY <1>5, <1>6 DEF k

\* What a node of a vertex shows is true of the hypotheses below it.
Shows(hypos, node) ==
  \A h \in node.members :
    LET state == hypos[h].state
    IN  /\ IsPrefix(node.left, state.left) /\ IsPrefix(node.right, state.right)
        /\ node.full => state.full /\ state.left = node.left
        /\ node.rightFull => state.full /\ state.right = node.right

LEMMA ImageIsFinite ==
  ASSUME NEW f, IsFiniteSet(DOMAIN f), NEW T, T = {f[x] : x \in DOMAIN f}, f \in [DOMAIN f -> T]
  PROVE  IsFiniteSet(T)
<1>1. f \in Surjection(DOMAIN f, T)
  BY DEF Surjection
<1> QED BY <1>1, FS_Surjection

LEMMA VertexFacts ==
  ASSUME NEW hypos, Vertex(hypos)
  PROVE  /\ Len(hypos) \in Nat \ {0} /\ DOMAIN hypos = 1 .. Len(hypos)
         /\ IsFiniteSet(DOMAIN hypos)
         /\ \A i \in DOMAIN hypos : /\ hypos[i].state \in States /\ hypos[i].score \in Int
                                   /\ hypos[i].state.left \in Seq(Nat) /\ hypos[i].state.right \in Seq(Nat)
         /\ \A i, j \in DOMAIN hypos : i < j => hypos[j].score <= hypos[i].score
<1>1. hypos \in Seq([state : States, score : Int]) /\ hypos # << >>
  BY DEF Vertex
<1>2. Len(hypos) \in Nat \ {0} /\ DOMAIN hypos = 1 .. Len(hypos)
  BY <1>1
<1>3. IsFiniteSet(DOMAIN hypos)
  BY <1>2, FS_Interval
<1>4. \A i \in DOMAIN hypos : hypos[i] \in [state : States, score : Int]
  BY <1>1, <1>2, ElementOfSeq
<1> QED BY <1>2, <1>3, <1>4 DEF Vertex, States

StatesOf(hypos, members) == {hypos[i].state : i \in members}
Lefts(states) == {s.left : s \in states}
Rights(states) == {s.right : s \in states}

LEMMA StatesFacts ==
  ASSUME NEW hypos, Vertex(hypos), NEW members \in SUBSET DOMAIN hypos, members # {}
  PROVE  LET states == StatesOf(hypos, members)
         IN  /\ states \in SUBSET States /\ states # {}
             /\ Lefts(states) \in SUBSET Seq(Nat) /\ Lefts(states) # {} /\ IsFiniteSet(Lefts(states))
             /\ Rights(states) \in SUBSET Seq(Nat) /\ Rights(states) # {} /\ IsFiniteSet(Rights(states))
<1> DEFINE states == {hypos[i].state : i \in members}
           lefts == {s.left : s \in states}
           rights == {s.right : s \in states}
           left == [i \in members |-> hypos[i].state.left]
           right == [i \in members |-> hypos[i].state.right]
<1>1. IsFiniteSet(members)
  BY VertexFacts, FS_Subset
<1>2. \A i \in members : /\ hypos[i].state \in States
                         /\ hypos[i].state.left \in Seq(Nat) /\ hypos[i].state.right \in Seq(Nat)
  BY VertexFacts
<1>3. states \in SUBSET States /\ states # {}
  BY <1>2
<1>4. lefts = {left[i] : i \in members} /\ rights = {right[i] : i \in members}
  OBVIOUS
<1>5. lefts \in SUBSET Seq(Nat) /\ lefts # {}
  BY <1>2
<1>6. rights \in SUBSET Seq(Nat) /\ rights # {}
  BY <1>2
<1>7. left \in [members -> lefts] /\ right \in [members -> rights]
  OBVIOUS
<1>8. DOMAIN left = members /\ DOMAIN right = members
  OBVIOUS
<1> HIDE DEF left, right
<1>9. IsFiniteSet(lefts)
  BY <1>1, <1>4, <1>7, <1>8, ImageIsFinite
<1>10. IsFiniteSet(rights)
  BY <1>1, <1>4, <1>7, <1>8, ImageIsFinite
<1>11. StatesOf(hypos, members) = states /\ Lefts(states) = lefts /\ Rights(states) = rights
  BY DEF StatesOf, Lefts, Rights
<1> HIDE DEF states, lefts, rights
<1> QED BY <1>3, <1>5, <1>6, <1>9, <1>10, <1>11

LEMMA NodeShows ==
  ASSUME NEW hypos, Vertex(hypos), NEW members \in SUBSET DOMAIN hypos, members # {},
         NEW root, NEW policy, NEW niceness
  PROVE  Shows(hypos, Node(members, StatesOf(hypos, members), root, policy, niceness))
<1> DEFINE states == StatesOf(hypos, members)
           node == Node(members, states, root, policy, niceness)
           some == CHOOSE s \in states : TRUE
           lefts == Lefts(states)
           rights == Rights(states)
<1>1. /\ states \in SUBSET States /\ states # {}
      /\ lefts \in SUBSET Seq(Nat) /\ IsFiniteSet(lefts)
      /\ rights \in SUBSET Seq(Nat) /\ IsFiniteSet(rights)
  BY StatesFacts
<1>2. some \in states
  BY <1>1
<1>3. /\ node.members = members
      /\ node.left = SubSeq(some.left, 1, Shared(lefts))
      /\ node.right = SubSeq(some.right, 1, Shared(rights))
      /\ node.full <=> (\A s \in states : s.full) /\ Agree(lefts)
      /\ node.rightFull <=> (\A s \in states : s.full) /\ Agree(rights)
  BY DEF Node, Lefts, Rights
<1>s. \A h \in members : hypos[h].state \in states
  BY DEF StatesOf
<1> HIDE DEF node, some, states
<1>4. ASSUME NEW h \in members
      PROVE  LET state == hypos[h].state
             IN  /\ IsPrefix(node.left, state.left) /\ IsPrefix(node.right, state.right)
                 /\ node.full => state.full /\ state.left = node.left
                 /\ node.rightFull => state.full /\ state.right = node.right
  <2>1. PICK state \in states : state = hypos[h].state
    BY <1>s
  <2>2. /\ state.left \in lefts /\ some.left \in lefts
        /\ state.right \in rights /\ some.right \in rights
    BY <1>2 DEF Lefts, Rights
  <2> HIDE DEF lefts, rights
  <2>3. /\ IsPrefix(node.left, state.left)
        /\ Agree(lefts) => state.left = node.left
    <3>1. /\ IsPrefix(SubSeq(some.left, 1, Shared(lefts)), state.left)
          /\ Agree(lefts) => state.left = SubSeq(some.left, 1, Shared(lefts))
      BY <1>1, <2>2, ShownFacts
    <3> QED BY <1>3, <3>1
  <2>4. /\ IsPrefix(node.right, state.right)
        /\ Agree(rights) => state.right = node.right
    <3>1. /\ IsPrefix(SubSeq(some.right, 1, Shared(rights)), state.right)
          /\ Agree(rights) => state.right = SubSeq(some.right, 1, Shared(rights))
      BY <1>1, <2>2, ShownFacts
    <3> QED BY <1>3, <3>1
  <2> QED BY <1>3, <2>1, <2>3, <2>4
<1>5. Shows(hypos, node)
  BY <1>3, <1>4 DEF Shows
<1> QED BY <1>5 DEF node, states

LEMMA FinishedFacts ==
  ASSUME NEW hypos, Vertex(hypos), NEW members \in SUBSET DOMAIN hypos, members # {}, NEW policy
  PROVE  LET node == FinishedAppending(hypos, members, policy)
         IN  /\ node.members = members /\ node.root = FALSE /\ node.niceness \in Int
             /\ Shows(hypos, node)
<1> DEFINE states == StatesOf(hypos, members)
           shown == /\ policy # All /\ Agree(Sides(policy, states))
                    /\ (\A s \in states : s.full) \/ (\A s \in states : ~s.full)
           niceness == IF shown THEN 254 ELSE Shared(Sides(policy, states))
           above == IF shown THEN All ELSE policy
<1>1. FinishedAppending(hypos, members, policy) = Node(members, states, FALSE, above, niceness)
  BY DEF FinishedAppending, StatesOf
<1>2. Sides(policy, states) \in SUBSET Seq(Nat) /\ Sides(policy, states) # {}
  <2>1. Sides(policy, states) = IF policy = Left THEN Lefts(states) ELSE Rights(states)
    BY DEF Sides, Lefts, Rights
  <2> QED BY <2>1, StatesFacts
<1>3. Shared(Sides(policy, states)) \in Nat
  BY <1>2, SharedFacts
<1>4. niceness \in Int
  BY <1>3
<1> HIDE DEF niceness, above
<1>5. Shows(hypos, Node(members, states, FALSE, above, niceness))
  BY NodeShows
<1>6. LET node == Node(members, states, FALSE, above, niceness)
      IN  node.members = members /\ node.root = FALSE /\ node.niceness = niceness
  BY DEF Node
<1> QED BY <1>1, <1>4, <1>5, <1>6

------------------------------------------------------------------------------
\* Partial vertices.

PartialOK(hypos, v) ==
  /\ v = [back |-> v.back, rest |-> v.rest]
  /\ v.back.niceness \in Int /\ v.back.root \in BOOLEAN
  /\ v.back.members \in SUBSET DOMAIN hypos
  /\ v.rest \in SUBSET v.back.members /\ v.rest # {}

LEMMA FirstFacts ==
  ASSUME NEW hypos, Vertex(hypos), NEW S \in SUBSET DOMAIN hypos, S # {}
  PROVE  /\ Min(S) \in S
         /\ hypos[Min(S)].score \in Int
         /\ \A i \in S : Min(S) <= i /\ hypos[i].score \in Int /\ hypos[i].score <= hypos[Min(S)].score
<1>1. Len(hypos) \in Nat /\ DOMAIN hypos = 1 .. Len(hypos)
  BY VertexFacts
<1>2. S \in SUBSET Nat
  BY <1>1
<1>3. Min(S) \in S /\ \A i \in S : Min(S) <= i
  BY <1>2, MinIsLeast
<1>4. \A i \in DOMAIN hypos : hypos[i].score \in Int
  BY VertexFacts
<1>5. ASSUME NEW i \in S PROVE hypos[i].score <= hypos[Min(S)].score
  <2>1. Min(S) = i \/ Min(S) < i
    BY <1>2, <1>3
  <2> QED BY <1>3, <1>4, <2>1, VertexFacts
<1> QED BY <1>3, <1>4, <1>5

\* Split divides what is left of a vertex between the continuation, which has
\* the first, and the alternative.
LEMMA SplitFacts ==
  ASSUME NEW hypos, Vertex(hypos), NEW v, PartialOK(hypos, v)
  PROVE  LET child == Child(hypos, v)
             next == Continuation(hypos, v)
             other == Alternative(hypos, v)
         IN  /\ child \in SUBSET v.rest /\ Min(v.rest) \in child /\ Min(child) = Min(v.rest)
             /\ PartialOK(hypos, next) /\ next.rest = child /\ Shows(hypos, next.back)
             /\ other.back = v.back /\ other.rest = v.rest \ child
             /\ HasAlternative(hypos, v) => PartialOK(hypos, other)
             /\ ~HasAlternative(hypos, v) => child = v.rest
<1> DEFINE child == Child(hypos, v)
           next == Continuation(hypos, v)
           other == Alternative(hypos, v)
<1>1. v.rest \in SUBSET DOMAIN hypos /\ v.rest # {}
  BY DEF PartialOK
<1>2. Min(v.rest) \in v.rest /\ \A i \in v.rest : Min(v.rest) <= i
  BY <1>1, FirstFacts
<1>3. child \in SUBSET v.rest /\ Min(v.rest) \in child
  BY <1>2 DEF Child
<1> HIDE DEF child
<1>4. Min(child) = Min(v.rest)
  <2>1. Min(child) \in child /\ \A i \in child : Min(child) <= i
    BY <1>1, <1>3, FirstFacts
  <2>2. Min(child) <= Min(v.rest) /\ Min(v.rest) <= Min(child)
    BY <1>2, <1>3, <2>1
  <2>3. v.rest \in SUBSET Nat
    BY <1>1, VertexFacts
  <2> QED BY <1>2, <1>3, <2>1, <2>2, <2>3
<1>5. PICK node : node = FinishedAppending(hypos, child, v.back.policy)
  OBVIOUS
<1>6. /\ node.members = child /\ node.root = FALSE /\ node.niceness \in Int
      /\ Shows(hypos, node)
  <2>1. child \in SUBSET DOMAIN hypos /\ child # {}
    BY <1>1, <1>3
  <2> QED BY <1>5, <2>1, FinishedFacts, ZenonT(30)
<1>7. next = [back |-> node, rest |-> child]
  BY <1>5, <1>6 DEF Continuation, Partial, child
<1>8. PartialOK(hypos, next) /\ next.rest = child /\ Shows(hypos, next.back)
  <2>1. next.back = node /\ next.rest = child
    BY <1>7
  <2> QED BY <1>1, <1>3, <1>6, <1>7, <2>1 DEF PartialOK
<1>9. other = [back |-> v.back, rest |-> v.rest \ child]
  BY DEF Alternative, PartialOK, child
<1>10. other.back = v.back /\ other.rest = v.rest \ child
  BY <1>9
<1>11. ASSUME HasAlternative(hypos, v) PROVE PartialOK(hypos, other)
  <2>1. v.rest \ child # {}
    BY <1>3, <1>11 DEF HasAlternative, child
  <2> QED BY <1>9, <1>10, <2>1 DEF PartialOK
<1>12. ~HasAlternative(hypos, v) => child = v.rest
  BY DEF HasAlternative, child
<1> QED BY <1>3, <1>4, <1>8, <1>10, <1>11, <1>12 DEF child

\* A complete vertex is a single hypothesis.
LEMMA CompleteFacts ==
  ASSUME NEW hypos, Vertex(hypos), NEW v, PartialOK(hypos, v), Complete(v)
  PROVE  v.rest = {Min(v.rest)}
<1>1. IsFiniteSet(v.back.members) /\ Cardinality(v.back.members) = 1
  BY VertexFacts, FS_Subset DEF PartialOK, Complete
<1>2. \A x, y \in v.back.members : x = y
  BY <1>1, OnlyOne
<1>3. Min(v.rest) \in v.rest
  BY FirstFacts DEF PartialOK
<1> QED BY <1>2, <1>3 DEF PartialOK

------------------------------------------------------------------------------
\* Edges.

EdgeOK(edge) ==
  /\ edge = [note |-> edge.note, data |-> edge.data,
             nt |-> <<edge.nt[1], edge.nt[2]>>, score |-> edge.score]
  /\ edge.note \in DOMAIN input /\ edge.data \in BOOLEAN /\ edge.score \in Int
  /\ \A i \in 1 .. 2 : PartialOK(Hypos(edge, i), edge.nt[i])
  /\ edge.data => Incomplete(edge) = {}

\* The best pair of an edge, and the score an edge has if nothing is added to it.
Best(edge) == Hypos(edge, 1)[Min(edge.nt[1].rest)].score + Hypos(edge, 2)[Min(edge.nt[2].rest)].score
ScoreOf(edge) == Best(edge) + IF edge.data THEN Score(edge.note, End(edge)) ELSE 0

ShowsBoth(edge) == \A i \in 1 .. 2 : Shows(Hypos(edge, i), edge.nt[i].back)

LEMMA InputFacts ==
  ASSUME input \in Inputs, NEW note \in DOMAIN input
  PROVE  /\ Vertex(input[note].antecedents) /\ Vertex(input[note].phrases)
         /\ input[note].adjustments \subseteq Int
         /\ \A i \in DOMAIN input[note].antecedents, j \in DOMAIN input[note].phrases :
              Score(note, <<i, j>>) \in Int
BY InputsAssumption DEF Score

LEMMA EdgeFacts ==
  ASSUME input \in Inputs, NEW edge, EdgeOK(edge)
  PROVE  /\ \A i \in 1 .. 2 : /\ Vertex(Hypos(edge, i)) /\ PartialOK(Hypos(edge, i), edge.nt[i])
                             /\ edge.nt[i].rest \in SUBSET DOMAIN Hypos(edge, i) /\ edge.nt[i].rest # {}
         /\ Best(edge) \in Int
<1>1. \A i \in 1 .. 2 : Vertex(Hypos(edge, i)) /\ PartialOK(Hypos(edge, i), edge.nt[i])
  BY InputFacts DEF EdgeOK, Hypos
<1>2. \A i \in 1 .. 2 : edge.nt[i].rest \in SUBSET DOMAIN Hypos(edge, i) /\ edge.nt[i].rest # {}
  BY <1>1 DEF PartialOK
<1>3. \A i \in 1 .. 2 : Hypos(edge, i)[Min(edge.nt[i].rest)].score \in Int
  BY <1>1, <1>2, FirstFacts
<1> QED BY <1>1, <1>2, <1>3 DEF Best

LEMMA VictimFacts ==
  ASSUME NEW edge, EdgeOK(edge), Incomplete(edge) # {}
  PROVE  Victim(edge) \in 1 .. 2 /\ Victim(edge) \in Incomplete(edge)
<1>1. Incomplete(edge) \in SUBSET {1, 2}
  BY DEF Incomplete
<1>2. edge.nt[1].back.niceness \in Int /\ edge.nt[2].back.niceness \in Int
  BY DEF EdgeOK, PartialOK
<1>3. \E i \in Incomplete(edge) : \A j \in Incomplete(edge) :
        \/ edge.nt[i].back.niceness < edge.nt[j].back.niceness
        \/ edge.nt[i].back.niceness = edge.nt[j].back.niceness /\ i <= j
  <2>1. CASE Incomplete(edge) = {1}
    BY <2>1
  <2>2. CASE Incomplete(edge) = {2}
    BY <2>2
  <2>3. CASE Incomplete(edge) = {1, 2}
    BY <1>2, <2>3
  <2> QED BY <1>1, <2>1, <2>2, <2>3
<1>4. Victim(edge) \in Incomplete(edge)
  BY <1>3 DEF Victim
<1> QED BY <1>1, <1>4

\* The pairs of an edge are there, and are its own if it has no other.
LEMMA PairsFacts ==
  ASSUME input \in Inputs, NEW edge, EdgeOK(edge)
  PROVE  /\ Pairs(edge) # {} /\ Pairs(edge) \subseteq AllPairs
         /\ \A p \in Pairs(edge) :
              /\ p = <<edge.note, <<p[2][1], p[2][2]>>>>
              /\ p[2][1] \in edge.nt[1].rest /\ p[2][2] \in edge.nt[2].rest
         /\ Incomplete(edge) = {} => Pairs(edge) = {<<edge.note, End(edge)>>}
<1>1. /\ edge.nt[1].rest \in SUBSET DOMAIN input[edge.note].antecedents /\ edge.nt[1].rest # {}
      /\ edge.nt[2].rest \in SUBSET DOMAIN input[edge.note].phrases /\ edge.nt[2].rest # {}
  <2>1. Hypos(edge, 1) = input[edge.note].antecedents /\ Hypos(edge, 2) = input[edge.note].phrases
    BY DEF Hypos
  <2>2. \A i \in 1 .. 2 : edge.nt[i].rest \in SUBSET DOMAIN Hypos(edge, i) /\ edge.nt[i].rest # {}
    BY EdgeFacts
  <2> QED BY <2>1, <2>2
<1>2. edge.note \in DOMAIN input
  BY DEF EdgeOK
<1>3. Pairs(edge) # {} /\ Pairs(edge) \subseteq AllPairs
  <2>1. PICK first, second : first = edge.nt[1].rest /\ second = edge.nt[2].rest
    OBVIOUS
  <2>2. Pairs(edge) = {edge.note} \X (first \X second)
    BY <2>1 DEF Pairs
  <2>3. Pairs(edge) # {}
    <3>1. PICK x \in first, y \in second : TRUE
      BY <1>1, <2>1
    <3>2. <<edge.note, <<x, y>>>> \in {edge.note} \X (first \X second)
      OBVIOUS
    <3> QED BY <2>2, <3>2
  <2>4. Pairs(edge) \subseteq
          {edge.note} \X ((DOMAIN input[edge.note].antecedents) \X (DOMAIN input[edge.note].phrases))
    BY <1>1, <2>1, <2>2
  <2> QED BY <1>2, <2>3, <2>4 DEF AllPairs
<1>4. ASSUME Incomplete(edge) = {} PROVE Pairs(edge) = {<<edge.note, End(edge)>>}
  <2>1. \A i \in 1 .. 2 : Complete(edge.nt[i])
    BY <1>4 DEF Incomplete
  <2>2. edge.nt[1].rest = {Min(edge.nt[1].rest)} /\ edge.nt[2].rest = {Min(edge.nt[2].rest)}
    BY <2>1, EdgeFacts, CompleteFacts
  <2>3. Pairs(edge) = {edge.note} \X ({Min(edge.nt[1].rest)} \X {Min(edge.nt[2].rest)})
    BY <2>2 DEF Pairs
  <2> QED BY <2>3 DEF End
<1> QED BY <1>3, <1>4 DEF Pairs
\* An edge with another vertex in the place of one it has.
With(edge, k, v, score) == [edge EXCEPT !.nt[k] = v, !.score = score]

LEMMA Replaced ==
  ASSUME NEW edge, EdgeOK(edge), ~edge.data, NEW k \in 1 .. 2, NEW v, NEW score
  PROVE  LET new == With(edge, k, v, score)
         IN  /\ new = [note |-> edge.note, data |-> FALSE, nt |-> <<new.nt[1], new.nt[2]>>, score |-> score]
             /\ new.nt[k] = v
             /\ \A i \in 1 .. 2 : i # k => new.nt[i] = edge.nt[i]
<1>1. PICK note, first, second, before :
        edge = [note |-> note, data |-> FALSE, nt |-> <<first, second>>, score |-> before]
  <2>1. edge = [note |-> edge.note, data |-> FALSE, nt |-> <<edge.nt[1], edge.nt[2]>>, score |-> edge.score]
    BY DEF EdgeOK
  <2> QED BY <2>1
<1>2. PICK nt : nt = [edge.nt EXCEPT ![k] = v]
  OBVIOUS
<1>3. PICK middle : middle = [edge EXCEPT !.nt = nt]
  OBVIOUS
<1>4. [edge EXCEPT !.nt[k] = v, !.score = score] = [middle EXCEPT !.score = score]
  BY <1>2, <1>3
<1>5. middle = [note |-> note, data |-> FALSE, nt |-> nt, score |-> before]
  BY <1>1, <1>3
<1>6. PICK after : after = [note |-> note, data |-> FALSE, nt |-> nt, score |-> score]
  OBVIOUS
<1>7. [middle EXCEPT !.score = score] = after
  <2>1. ASSUME NEW data, middle = [note |-> note, data |-> data, nt |-> nt, score |-> before]
        PROVE  [middle EXCEPT !.score = score] = [note |-> note, data |-> data, nt |-> nt, score |-> score]
    BY <2>1
  <2> QED BY <1>5, <1>6, <2>1
<1>e. With(edge, k, v, score) = after
  BY <1>4, <1>7 DEF With
<1>8. edge.nt = <<first, second>> /\ edge.note = note /\ after.nt = nt
  BY <1>1, <1>6
<1>9. CASE k = 1
  <2>1. nt = <<v, second>>
    BY <1>2, <1>8, <1>9
  <2>2. after.nt[k] = v /\ \A i \in 1 .. 2 : i # k => after.nt[i] = edge.nt[i]
    BY <1>8, <1>9, <2>1
  <2>3. after.nt = <<after.nt[1], after.nt[2]>>
    BY <1>8, <2>1
  <2>4. after = [note |-> edge.note, data |-> FALSE, nt |-> <<after.nt[1], after.nt[2]>>, score |-> score]
    BY <1>6, <1>8, <2>3
  <2> QED BY <1>e, <2>2, <2>4
<1>10. CASE k = 2
  <2>1. nt = <<first, v>>
    BY <1>2, <1>8, <1>10
  <2>2. after.nt[k] = v /\ \A i \in 1 .. 2 : i # k => after.nt[i] = edge.nt[i]
    BY <1>8, <1>10, <2>1
  <2>3. after.nt = <<after.nt[1], after.nt[2]>>
    BY <1>8, <2>1
  <2>4. after = [note |-> edge.note, data |-> FALSE, nt |-> <<after.nt[1], after.nt[2]>>, score |-> score]
    BY <1>6, <1>8, <2>3
  <2> QED BY <1>e, <2>2, <2>4
<1> QED BY <1>9, <1>10

\* It has the pairs with the hypotheses of the other.
LEMMA WithVertex ==
  ASSUME input \in Inputs, NEW edge, EdgeOK(edge), ShowsBoth(edge), NEW k \in 1 .. 2,
         NEW hypos, hypos = Hypos(edge, k), NEW old, old = edge.nt[k],
         NEW v, PartialOK(hypos, v), v.rest \subseteq old.rest, Shows(hypos, v.back),
         NEW score \in Int, NEW new,
         new = [note |-> edge.note, data |-> FALSE, nt |-> <<new.nt[1], new.nt[2]>>, score |-> score],
         new.nt[k] = v,
         \A i \in 1 .. 2 : i # k => new.nt[i] = edge.nt[i]
  PROVE  /\ EdgeOK(new) /\ ShowsBoth(new) /\ ~new.data /\ new.note = edge.note /\ new.score = score
         /\ Pairs(new) = {p \in Pairs(edge) : p[2][k] \in v.rest}
         /\ Best(new) = Best(edge) - Bound(hypos, old) + Bound(hypos, v)
<1>1. edge.note \in DOMAIN input
  BY DEF EdgeOK
<1>2. /\ new.nt[k] = v
      /\ \A i \in 1 .. 2 : i # k => new.nt[i] = edge.nt[i]
  OBVIOUS
<1>4. new.note = edge.note /\ new.data = FALSE /\ new.score = score
  <2>1. PICK nt : new = [note |-> edge.note, data |-> FALSE, nt |-> nt, score |-> score]
    OBVIOUS
  <2> QED BY <2>1
<1>5. \A i \in 1 .. 2 : Hypos(new, i) = Hypos(edge, i)
  BY <1>4 DEF Hypos
<1>6. \A i \in 1 .. 2 : PartialOK(Hypos(new, i), new.nt[i])
  BY <1>2, <1>5 DEF EdgeOK
<1>7. EdgeOK(new)
  <2>1. new = [note |-> new.note, data |-> new.data, nt |-> <<new.nt[1], new.nt[2]>>, score |-> new.score]
    BY <1>4
  <2> QED BY <1>1, <1>4, <1>6, <2>1 DEF EdgeOK
<1>8. ShowsBoth(new)
  BY <1>2, <1>4, <1>5 DEF ShowsBoth
<1>9. Pairs(new) = {p \in Pairs(edge) : p[2][k] \in v.rest}
  <2>1. PICK first, second : first = edge.nt[1].rest /\ second = edge.nt[2].rest
    OBVIOUS
  <2>2. Pairs(edge) = {edge.note} \X (first \X second)
    BY <2>1 DEF Pairs
  <2>3. CASE k = 1
    <3>1. Pairs(new) = {edge.note} \X (v.rest \X second)
      BY <1>2, <1>4, <2>1, <2>3 DEF Pairs
    <3>2. v.rest \subseteq first
      BY <2>1, <2>3
    <3> QED BY <2>2, <2>3, <3>1, <3>2
  <2>4. CASE k = 2
    <3>1. Pairs(new) = {edge.note} \X (first \X v.rest)
      BY <1>2, <1>4, <2>1, <2>4 DEF Pairs
    <3>2. v.rest \subseteq second
      BY <2>1, <2>4
    <3> QED BY <2>2, <2>4, <3>1, <3>2
  <2> QED BY <2>3, <2>4
<1>10. Best(new) = Best(edge) - Bound(hypos, old) + Bound(hypos, v)
  <2>1. PICK a, b, c, d :
          /\ a = Hypos(edge, 1)[Min(edge.nt[1].rest)].score /\ b = Hypos(edge, 2)[Min(edge.nt[2].rest)].score
          /\ c = Hypos(new, 1)[Min(new.nt[1].rest)].score /\ d = Hypos(new, 2)[Min(new.nt[2].rest)].score
    OBVIOUS
  <2>2. a \in Int /\ b \in Int /\ c \in Int /\ d \in Int
    <3>1. \A i \in 1 .. 2 : Hypos(edge, i)[Min(edge.nt[i].rest)].score \in Int
      BY EdgeFacts, FirstFacts
    <3>2. \A i \in 1 .. 2 : Hypos(new, i)[Min(new.nt[i].rest)].score \in Int
      BY <1>7, EdgeFacts, FirstFacts
    <3> QED BY <2>1, <3>1, <3>2
  <2>3. Best(edge) = a + b /\ Best(new) = c + d
    BY <2>1 DEF Best
  <2>4. CASE k = 1
    <3>1. /\ Bound(hypos, old) = a /\ Bound(hypos, v) = c /\ d = b
      BY <1>2, <1>4, <1>5, <2>1, <2>4 DEF Bound
    <3> QED BY <2>2, <2>3, <3>1
  <2>5. CASE k = 2
    <3>1. /\ Bound(hypos, old) = b /\ Bound(hypos, v) = d /\ c = a
      BY <1>2, <1>4, <1>5, <2>1, <2>5 DEF Bound
    <3> QED BY <2>2, <2>3, <3>1
  <2> QED BY <2>4, <2>5
<1> QED BY <1>4, <1>7, <1>8, <1>9, <1>10

\* Pop of an edge that is not complete divides its pairs, and what the parts are
\* worth before the features is what the edge says.
LEMMA SplitEdge ==
  ASSUME input \in Inputs, NEW edge, EdgeOK(edge), ShowsBoth(edge), Incomplete(edge) # {},
         NEW adjustment \in Int
  PROVE  LET new == Continue(edge, adjustment)
         IN  /\ EdgeOK(new) /\ ShowsBoth(new) /\ ~new.data /\ new.note = edge.note
             /\ new.score = edge.score + adjustment /\ Best(new) = Best(edge)
             /\ \A other \in Alternate(edge) :
                  /\ EdgeOK(other) /\ ShowsBoth(other) /\ ~other.data /\ other.note = edge.note
                  /\ other.score - Best(other) = edge.score - Best(edge)
                  /\ Pairs(other) \cap Pairs(new) = {}
             /\ \A e, f \in Alternate(edge) : e = f
             /\ Pairs(new) \cup UNION {Pairs(e) : e \in Alternate(edge)} = Pairs(edge)
<1> DEFINE k == Victim(edge)
           hypos == Hypos(edge, k)
           old == edge.nt[k]
           next == Continuation(hypos, old)
           rest == Alternative(hypos, old)
           child == Child(hypos, old)
           new == Continue(edge, adjustment)
           score == edge.score + Bound(hypos, rest) - Bound(hypos, old)
<1>1. k \in 1 .. 2
  BY VictimFacts
<1>2. /\ edge.data = FALSE /\ edge.score \in Int
      /\ edge.nt = <<edge.nt[1], edge.nt[2]>>
  BY DEF EdgeOK
<1>3. /\ Vertex(hypos) /\ PartialOK(hypos, old) /\ Shows(hypos, old.back)
      /\ old.rest \in SUBSET DOMAIN hypos /\ old.rest # {}
  BY <1>1, EdgeFacts DEF ShowsBoth
<1>4. Best(edge) \in Int
  BY EdgeFacts
<1> HIDE DEF k
<1>5. new = With(edge, k, next, edge.score + adjustment)
  BY <1>1, <1>2 DEF Continue, With, k
<1>6. Alternate(edge) = IF HasAlternative(hypos, old)
                          THEN {With(edge, k, rest, score)} ELSE {}
  BY DEF Alternate, With, k
<1>d. hypos = Hypos(edge, k) /\ old = edge.nt[k]
  OBVIOUS
<1> HIDE DEF hypos, old, next, rest, child, new, score
<1>7. /\ child \in SUBSET old.rest /\ Min(child) = Min(old.rest)
      /\ PartialOK(hypos, next) /\ next.rest = child /\ Shows(hypos, next.back)
      /\ rest.back = old.back /\ rest.rest = old.rest \ child
      /\ HasAlternative(hypos, old) => PartialOK(hypos, rest)
      /\ ~HasAlternative(hypos, old) => child = old.rest
  BY <1>3, SplitFacts DEF child, next, rest
<1>8. /\ EdgeOK(new) /\ ShowsBoth(new) /\ ~new.data /\ new.note = edge.note
      /\ new.score = edge.score + adjustment
      /\ Pairs(new) = {p \in Pairs(edge) : p[2][k] \in child}
      /\ Best(new) = Best(edge) - Bound(hypos, old) + Bound(hypos, next)
  <2>1. edge.score + adjustment \in Int /\ next.rest \subseteq old.rest
    BY <1>2, <1>7
  <2>2. /\ EdgeOK(new) /\ ShowsBoth(new) /\ ~new.data /\ new.note = edge.note
        /\ new.score = edge.score + adjustment
        /\ Pairs(new) = {p \in Pairs(edge) : p[2][k] \in next.rest}
        /\ Best(new) = Best(edge) - Bound(hypos, old) + Bound(hypos, next)
    <3>1. /\ new = [note |-> edge.note, data |-> FALSE, nt |-> <<new.nt[1], new.nt[2]>>,
                     score |-> edge.score + adjustment]
          /\ new.nt[k] = next
          /\ \A i \in 1 .. 2 : i # k => new.nt[i] = edge.nt[i]
      <4>1. PICK sum : sum = edge.score + adjustment
        OBVIOUS
      <4>2. new = With(edge, k, next, sum) /\ ~edge.data
        BY <1>2, <1>5, <4>1
      <4>3. /\ new = [note |-> edge.note, data |-> FALSE, nt |-> <<new.nt[1], new.nt[2]>>, score |-> sum]
            /\ new.nt[k] = next
            /\ \A i \in 1 .. 2 : i # k => new.nt[i] = edge.nt[i]
        BY <1>1, <4>2, Replaced
      <4> QED BY <4>1, <4>3
    <3> QED BY <1>1, <1>7, <1>d, <2>1, <3>1, WithVertex
  <2> QED BY <1>7, <2>2
<1>9. Bound(hypos, old) \in Int /\ Bound(hypos, next) = Bound(hypos, old)
  BY <1>3, <1>7, FirstFacts DEF Bound
<1>10. ASSUME NEW other \in Alternate(edge)
       PROVE  /\ HasAlternative(hypos, old)
              /\ EdgeOK(other) /\ ShowsBoth(other) /\ ~other.data /\ other.note = edge.note
              /\ other.score - Best(other) = edge.score - Best(edge)
              /\ Pairs(other) = {p \in Pairs(edge) : p[2][k] \in old.rest \ child}
  <2>1. HasAlternative(hypos, old) /\ other = With(edge, k, rest, score)
    BY <1>6
  <2>2. PartialOK(hypos, rest) /\ rest.rest \subseteq old.rest /\ Shows(hypos, rest.back)
    BY <1>3, <1>7, <2>1
  <2>3. Bound(hypos, rest) \in Int
    <3>1. rest.rest \in SUBSET DOMAIN hypos /\ rest.rest # {}
      BY <2>2 DEF PartialOK
    <3> QED BY <1>3, <3>1, FirstFacts DEF Bound
  <2>4. score \in Int
    BY <1>2, <1>9, <2>3 DEF score
  <2>5. /\ EdgeOK(other) /\ ShowsBoth(other) /\ ~other.data /\ other.note = edge.note
        /\ other.score = score
        /\ Pairs(other) = {p \in Pairs(edge) : p[2][k] \in rest.rest}
        /\ Best(other) = Best(edge) - Bound(hypos, old) + Bound(hypos, rest)
    <3>1. /\ other = [note |-> edge.note, data |-> FALSE, nt |-> <<other.nt[1], other.nt[2]>>, score |-> score]
          /\ other.nt[k] = rest
          /\ \A i \in 1 .. 2 : i # k => other.nt[i] = edge.nt[i]
      BY <1>1, <1>2, <2>1, Replaced
    <3> QED BY <1>1, <1>d, <2>2, <2>4, <3>1, WithVertex
  <2> QED BY <1>2, <1>4, <1>7, <1>9, <2>1, <2>3, <2>5 DEF score
<1>11. \A e, f \in Alternate(edge) : e = f
  BY <1>6
<1>12. \A p \in Pairs(edge) : p[2][k] \in old.rest
  <2>1. \A p \in Pairs(edge) : p[2][1] \in edge.nt[1].rest /\ p[2][2] \in edge.nt[2].rest
    BY PairsFacts
  <2> QED BY <1>1, <2>1 DEF old
<1>13. Pairs(new) \cup UNION {Pairs(e) : e \in Alternate(edge)} = Pairs(edge)
  <2>1. CASE HasAlternative(hypos, old)
    <3>1. PICK other : Alternate(edge) = {other}
      BY <1>6, <2>1
    <3>2. UNION {Pairs(e) : e \in Alternate(edge)} = Pairs(other)
      BY <3>1
    <3>3. Pairs(other) = {p \in Pairs(edge) : p[2][k] \in old.rest \ child}
      BY <1>10, <3>1
    <3> QED BY <1>8, <1>12, <3>2, <3>3
  <2>2. CASE ~HasAlternative(hypos, old)
    <3>1. UNION {Pairs(e) : e \in Alternate(edge)} = {}
      BY <1>6, <2>2
    <3> QED BY <1>7, <1>8, <1>12, <2>2, <3>1
  <2> QED BY <2>1, <2>2
<1>14. \A other \in Alternate(edge) : Pairs(other) \cap Pairs(new) = {}
  BY <1>8, <1>10
<1>15. Best(new) = Best(edge)
  BY <1>4, <1>8, <1>9
<1> QED BY <1>8, <1>10, <1>11, <1>13, <1>14, <1>15 DEF new

------------------------------------------------------------------------------
\* The queue: a bag without equal edges.

LEMMA TakeOne ==
  ASSUME NEW S, NEW e \in S
  PROVE  SetToBag(S) (-) SetToBag({e}) = SetToBag(S \ {e})
<1>1. SetToBag(S) = [x \in S |-> 1] /\ SetToBag({e}) = [x \in {e} |-> 1]
  BY DEF SetToBag
<1> DEFINE less == [x \in S |-> IF x \in {e} THEN 1 - 1 ELSE 1]
<1>2. SetToBag(S) (-) SetToBag({e}) = [x \in {d \in S : less[d] > 0} |-> less[x]]
  BY <1>1 DEF (-)
<1>3. {d \in S : less[d] > 0} = S \ {e}
  OBVIOUS
<1>4. [x \in S \ {e} |-> less[x]] = [x \in S \ {e} |-> 1]
  OBVIOUS
<1> HIDE DEF less
<1>5. SetToBag(S) (-) SetToBag({e}) = [x \in S \ {e} |-> 1]
  BY <1>2, <1>3, <1>4
<1> QED BY <1>5 DEF SetToBag

LEMMA AddOthers ==
  ASSUME NEW S, NEW T, S \cap T = {}
  PROVE  SetToBag(S) (+) SetToBag(T) = SetToBag(S \cup T)
<1>1. SetToBag(S) = [x \in S |-> 1] /\ SetToBag(T) = [x \in T |-> 1]
  BY DEF SetToBag
<1>2. SetToBag(S) (+) SetToBag(T)
        = [x \in S \cup T |-> (IF x \in S THEN 1 ELSE 0) + (IF x \in T THEN 1 ELSE 0)]
  BY <1>1 DEF (+)
<1>3. [x \in S \cup T |-> (IF x \in S THEN 1 ELSE 0) + (IF x \in T THEN 1 ELSE 0)]
        = [x \in S \cup T |-> 1]
  OBVIOUS
<1> QED BY <1>2, <1>3 DEF SetToBag

Cover(edges) == UNION {Pairs(e) : e \in edges}

LEMMA CoverFacts ==
  ASSUME NEW edges
  PROVE  \A p : p \in Cover(edges) <=> \E e \in edges : p \in Pairs(e)
BY DEF Cover

\* The edges and what was delivered partition the pairs.
Partitioned(edges, delivered) ==
  /\ \A e \in edges : Pairs(e) \cap delivered = {}
  /\ \A e, f \in edges : e # f => Pairs(e) \cap Pairs(f) = {}
  /\ delivered \cup Cover(edges) = AllPairs

LEMMA ReplaceEdge ==
  ASSUME input \in Inputs, NEW edges, NEW delivered, Partitioned(edges, delivered),
         NEW edge \in edges, NEW parts, \A e \in parts : EdgeOK(e),
         \A e, f \in parts : e # f => Pairs(e) \cap Pairs(f) = {},
         Cover(parts) = Pairs(edge)
  PROVE  /\ (edges \ {edge}) \cap parts = {}
         /\ Partitioned((edges \ {edge}) \cup parts, delivered)
<1> DEFINE others == edges \ {edge}
<1>1. \A e \in parts : Pairs(e) \subseteq Pairs(edge) /\ Pairs(e) # {}
  BY CoverFacts, PairsFacts
<1>2. \A e \in others, f \in parts : Pairs(e) \cap Pairs(f) = {} /\ e # f
  BY <1>1 DEF Partitioned
<1>3. \A e \in others \cup parts : Pairs(e) \cap delivered = {}
  BY <1>1 DEF Partitioned
<1>4. \A e, f \in others \cup parts : e # f => Pairs(e) \cap Pairs(f) = {}
  BY <1>2 DEF Partitioned
<1>5. delivered \cup Cover(others \cup parts) = AllPairs
  <2>1. \A p : p \in Cover(edges) <=> p \in Cover(others \cup parts)
    <3>1. \A p : p \in Cover(edges) <=> p \in Cover(others) \/ p \in Pairs(edge)
      BY CoverFacts
    <3>2. \A p : p \in Cover(others \cup parts) <=> p \in Cover(others) \/ p \in Cover(parts)
      BY CoverFacts
    <3> QED BY <3>1, <3>2
  <2> QED BY <2>1 DEF Partitioned
<1> QED BY <1>2, <1>3, <1>4, <1>5 DEF Partitioned

\* A delivered edge leaves the queue with its pair.
LEMMA DeliverEdge ==
  ASSUME input \in Inputs, NEW edges, NEW delivered, Partitioned(edges, delivered),
         NEW edge \in edges
  PROVE  Partitioned(edges \ {edge}, delivered \cup Pairs(edge))
<1>1. \A p : p \in Cover(edges) <=> p \in Cover(edges \ {edge}) \/ p \in Pairs(edge)
  BY CoverFacts
<1>2. (delivered \cup Pairs(edge)) \cup Cover(edges \ {edge}) = AllPairs
  BY <1>1 DEF Partitioned
<1> QED BY <1>2 DEF Partitioned

------------------------------------------------------------------------------
\* What an edge is worth, when the language model and the features add nothing.

LEMMA NothingFacts ==
  ASSUME NothingAdded, NEW edge, EdgeOK(edge), NEW adjustment,
         NEW k, NEW before, NEW after, adjustment \in Adjustment(edge.note, k, before, after)
  PROVE  adjustment = 0
BY DEF NothingAdded, EdgeOK, Adjustment

\* No pair of an edge is worth more than the edge, the pair of a scored one as much.
LEMMA NoneAbove ==
  ASSUME input \in Inputs, NothingAdded, NEW edge, EdgeOK(edge), edge.score = ScoreOf(edge),
         NEW p \in Pairs(edge)
  PROVE  /\ Worth(p[1], p[2]) \in Int /\ Worth(p[1], p[2]) <= edge.score
         /\ edge.data => Worth(p[1], p[2]) = edge.score
<1>1. PICK i, j : i = p[2][1] /\ j = p[2][2]
  OBVIOUS
<1>2. /\ p = <<edge.note, <<i, j>>>> /\ i \in edge.nt[1].rest /\ j \in edge.nt[2].rest
      /\ p[1] = edge.note /\ p[2] = <<i, j>>
  <2>1. p = <<edge.note, <<i, j>>>> /\ i \in edge.nt[1].rest /\ j \in edge.nt[2].rest
    BY <1>1, PairsFacts
  <2> QED BY <2>1
<1>3. edge.note \in DOMAIN input
  BY DEF EdgeOK
<1>4. PICK first, second : first = input[edge.note].antecedents /\ second = input[edge.note].phrases
  OBVIOUS
<1>5. Hypos(edge, 1) = first /\ Hypos(edge, 2) = second
  BY <1>4 DEF Hypos
<1>6. /\ Vertex(first) /\ edge.nt[1].rest \in SUBSET DOMAIN first /\ edge.nt[1].rest # {}
      /\ Vertex(second) /\ edge.nt[2].rest \in SUBSET DOMAIN second /\ edge.nt[2].rest # {}
  BY <1>5, EdgeFacts
<1>7. PICK a, b, c, d : /\ a = first[i].score /\ b = second[j].score
                        /\ c = first[Min(edge.nt[1].rest)].score /\ d = second[Min(edge.nt[2].rest)].score
  OBVIOUS
<1>8. a \in Int /\ c \in Int /\ a <= c
  BY <1>2, <1>6, <1>7, FirstFacts
<1>9. b \in Int /\ d \in Int /\ b <= d
  BY <1>2, <1>6, <1>7, FirstFacts
<1>10. PICK s : s = Score(edge.note, <<i, j>>)
  OBVIOUS
<1>11. s \in Int /\ s <= 0
  <2>1. i \in DOMAIN input[edge.note].antecedents /\ j \in DOMAIN input[edge.note].phrases
    BY <1>2, <1>4, <1>6
  <2> QED BY <1>3, <1>10, <2>1, InputFacts DEF NothingAdded
<1>12. Worth(p[1], p[2]) = a + b + s
  <2>1. p[2][1] = i /\ p[2][2] = j
    BY <1>1
  <2> QED BY <1>2, <1>4, <1>7, <1>10, <2>1 DEF Worth
<1>13. Best(edge) = c + d
  BY <1>5, <1>7 DEF Best
<1>14. CASE ~edge.data
  BY <1>8, <1>9, <1>11, <1>12, <1>13, <1>14 DEF ScoreOf
<1>15. CASE edge.data
  <2>1. Pairs(edge) = {<<edge.note, End(edge)>>}
    BY <1>15, PairsFacts DEF EdgeOK
  <2>2. End(edge) = <<i, j>>
    BY <1>2, <2>1
  <2>3. End(edge) = <<Min(edge.nt[1].rest), Min(edge.nt[2].rest)>>
    BY DEF End
  <2>4. i = Min(edge.nt[1].rest) /\ j = Min(edge.nt[2].rest)
    BY <2>2, <2>3
  <2>5. a = c /\ b = d
    BY <1>7, <2>4
  <2>6. ScoreOf(edge) = c + d + s
    BY <1>10, <1>13, <1>15, <2>2 DEF ScoreOf
  <2> QED BY <1>8, <1>9, <1>11, <1>12, <2>5, <2>6
<1> QED BY <1>14, <1>15

------------------------------------------------------------------------------
\* The inductive invariant.

Ends == {[note |-> p[1], pair |-> p[2]] : p \in AllPairs}

\* The edges of the queue say what they stand for and, if nothing is added,
\* what it is worth.
QueueOK(edges) ==
  \A edge \in edges :
    EdgeOK(edge) /\ ShowsBoth(edge) /\ (NothingAdded => edge.score = ScoreOf(edge))

IInv ==
  /\ input \in Inputs
  /\ output \in Seq(Ends)
  /\ generate = SetToBag(DOMAIN generate)
  /\ QueueOK(DOMAIN generate)
  /\ Partitioned(DOMAIN generate, Delivered)
  /\ BestFirst

LEMMA SameInput ==
  ASSUME input' = input, NEW edges, NEW delivered
  PROVE  /\ QueueOK(edges)' <=> QueueOK(edges)
         /\ Partitioned(edges, delivered)' <=> Partitioned(edges, delivered)
         /\ AllPairs' = AllPairs /\ Ends' = Ends
         /\ NothingAdded' <=> NothingAdded
<1>1. /\ \A edge, i : Hypos(edge, i)' = Hypos(edge, i)
      /\ \A note, pair : Score(note, pair)' = Score(note, pair)
  BY DEF Hypos, Score
<1>2. /\ AllPairs' = AllPairs
      /\ NothingAdded' <=> NothingAdded
  BY <1>1 DEF AllPairs, NothingAdded
<1>3. ASSUME NEW edge
      PROVE  /\ EdgeOK(edge)' <=> EdgeOK(edge)
             /\ ShowsBoth(edge)' <=> ShowsBoth(edge)
             /\ ScoreOf(edge)' = ScoreOf(edge)
  <2>1. EdgeOK(edge)' <=> EdgeOK(edge)
    BY <1>1 DEF EdgeOK, Incomplete
  <2>2. ShowsBoth(edge)' <=> ShowsBoth(edge)
    BY <1>1 DEF ShowsBoth
  <2>3. ScoreOf(edge)' = ScoreOf(edge)
    BY <1>1 DEF ScoreOf, Best
  <2> QED BY <2>1, <2>2, <2>3
<1>4. QueueOK(edges)' <=> QueueOK(edges)
  BY <1>2, <1>3 DEF QueueOK
<1>5. Partitioned(edges, delivered)' <=> Partitioned(edges, delivered)
  BY <1>2 DEF Partitioned
<1>6. Ends' = Ends
  BY <1>2 DEF Ends
<1> QED BY <1>2, <1>4, <1>5, <1>6

LEMMA StartFacts ==
  ASSUME input \in Inputs, NEW note \in DOMAIN input
  PROVE  LET edge == StartEdge(note, input[note])
         IN  /\ edge.note = note /\ EdgeOK(edge) /\ ShowsBoth(edge) /\ edge.score = ScoreOf(edge)
             /\ Pairs(edge) = {note} \X ((DOMAIN input[note].antecedents) \X (DOMAIN input[note].phrases))
<1>1. PICK first, second : first = input[note].antecedents /\ second = input[note].phrases
  OBVIOUS
<1>2. PICK back, front : back = FinishRoot(first, Right) /\ front = FinishRoot(second, Left)
  OBVIOUS
<1>3. PICK edge : edge = StartEdge(note, input[note])
  OBVIOUS
<1>4. /\ back.members = DOMAIN first /\ back.root = TRUE /\ back.niceness = 0
      /\ back.left = << >> /\ back.right = << >> /\ back.full = FALSE /\ back.rightFull = FALSE
      /\ front.members = DOMAIN second /\ front.root = TRUE /\ front.niceness = 0
      /\ front.left = << >> /\ front.right = << >> /\ front.full = FALSE /\ front.rightFull = FALSE
  BY <1>2 DEF FinishRoot
<1>5. /\ Vertex(first) /\ Len(first) \in Nat \ {0} /\ DOMAIN first = 1 .. Len(first)
      /\ Vertex(second) /\ Len(second) \in Nat \ {0} /\ DOMAIN second = 1 .. Len(second)
  BY <1>1, InputFacts, VertexFacts
<1>6. PICK left, right : /\ left = [back |-> back, rest |-> DOMAIN first]
                         /\ right = [back |-> front, rest |-> DOMAIN second]
  OBVIOUS
<1>7. PICK score : score = first[1].score + second[1].score
  OBVIOUS
<1>8. edge = [note |-> note, data |-> FALSE, nt |-> <<left, right>>, score |-> score]
  BY <1>1, <1>2, <1>3, <1>4, <1>6, <1>7 DEF StartEdge, Partial
<1>9. /\ edge.note = note /\ edge.data = FALSE /\ edge.score = score
      /\ edge.nt = <<left, right>> /\ edge.nt[1] = left /\ edge.nt[2] = right
  BY <1>8
<1>10. Hypos(edge, 1) = first /\ Hypos(edge, 2) = second
  BY <1>1, <1>9 DEF Hypos
<1>11. PartialOK(first, left) /\ PartialOK(second, right)
  <2>1. /\ left.back = back /\ left.rest = DOMAIN first
        /\ right.back = front /\ right.rest = DOMAIN second
    BY <1>6
  <2>2. DOMAIN first # {} /\ DOMAIN second # {}
    <3>1. 1 \in 1 .. Len(first) /\ 1 \in 1 .. Len(second)
      BY ONLY <1>5
    <3> QED BY <1>5, <3>1
  <2>3. /\ left = [back |-> left.back, rest |-> left.rest]
        /\ right = [back |-> right.back, rest |-> right.rest]
    BY <1>6
  <2>4. back.root \in BOOLEAN /\ front.root \in BOOLEAN
    BY <1>4
  <2>5. back.niceness \in Int /\ front.niceness \in Int
    BY <1>4
  <2>6. PartialOK(first, left)
    BY <1>4, <2>1, <2>2, <2>3, <2>4, <2>5 DEF PartialOK
  <2>7. PartialOK(second, right)
    BY <1>4, <2>1, <2>2, <2>3, <2>4, <2>5 DEF PartialOK
  <2> QED BY <2>6, <2>7
<1>12. first[1].score \in Int /\ second[1].score \in Int /\ score \in Int
  BY <1>5, <1>7, VertexFacts
<1>13. EdgeOK(edge)
  <2>1. edge = [note |-> edge.note, data |-> edge.data,
                nt |-> <<edge.nt[1], edge.nt[2]>>, score |-> edge.score]
    BY <1>8, <1>9
  <2>2. \A i \in 1 .. 2 : PartialOK(Hypos(edge, i), edge.nt[i])
    BY <1>9, <1>10, <1>11
  <2> QED BY <1>9, <1>12, <2>1, <2>2 DEF EdgeOK
<1>14. ASSUME NEW hypos, Vertex(hypos), NEW node, node.members = DOMAIN hypos,
              node.left = << >>, node.right = << >>, node.full = FALSE, node.rightFull = FALSE
       PROVE  Shows(hypos, node)
  <2>1. \A s \in Seq(Nat) : IsPrefix(<< >>, s)
    BY SubSeqEmpty DEF IsPrefix
  <2> QED BY <1>14, <2>1, VertexFacts DEF Shows
<1>15. ShowsBoth(edge)
  <2>1. Shows(first, left.back) /\ Shows(second, right.back)
    BY <1>4, <1>5, <1>6, <1>14
  <2> QED BY <1>9, <1>10, <2>1 DEF ShowsBoth
<1>16. edge.score = ScoreOf(edge)
  <2>1. ASSUME NEW n \in Nat \ {0} PROVE Min(1 .. n) = 1
    <3>1. 1 \in 1 .. n /\ 1 .. n \in SUBSET Nat
      OBVIOUS
    <3>2. Min(1 .. n) \in 1 .. n /\ \A i \in 1 .. n : Min(1 .. n) <= i
      BY <3>1, MinIsLeast
    <3> QED BY <3>1, <3>2
  <2>2. Min(left.rest) = 1 /\ Min(right.rest) = 1
    BY <1>5, <1>6, <2>1
  <2> QED BY <1>7, <1>9, <1>10, <1>12, <2>2 DEF ScoreOf, Best
<1>17. Pairs(edge) = {note} \X ((DOMAIN first) \X (DOMAIN second))
  BY <1>6, <1>9 DEF Pairs
<1> QED BY <1>1, <1>3, <1>9, <1>13, <1>15, <1>16, <1>17

LEMMA InitInv == Init => IInv
<1> SUFFICES ASSUME Init PROVE IInv
  OBVIOUS
<1> DEFINE edges == {StartEdge(note, input[note]) : note \in DOMAIN input}
<1>1. input \in Inputs /\ generate = SetToBag(edges) /\ output = << >>
  BY DEF Init
<1>2. DOMAIN generate = edges
  BY <1>1 DEF SetToBag
<1>3. \A edge \in edges : \E note \in DOMAIN input :
         edge = StartEdge(note, input[note]) /\ edge.note = note
  BY <1>1, StartFacts
<1>4. QueueOK(edges)
  BY <1>1, <1>3, StartFacts DEF QueueOK
<1>5. Delivered = {}
  BY <1>1 DEF Delivered
<1>6. Partitioned(edges, {})
  <2>1. \A e, f \in edges : e # f => Pairs(e) \cap Pairs(f) = {}
    <3> SUFFICES ASSUME NEW e \in edges, NEW f \in edges, e # f PROVE Pairs(e) \cap Pairs(f) = {}
      OBVIOUS
    <3>1. e.note # f.note
      BY <1>3
    <3> QED BY <3>1 DEF Pairs
  <2>2. \A p : p \in Cover(edges) <=> p \in AllPairs
    <3>1. \A p : p \in Cover(edges) <=> \E note \in DOMAIN input : p \in Pairs(StartEdge(note, input[note]))
      BY CoverFacts
    <3>2. \A note \in DOMAIN input : Pairs(StartEdge(note, input[note])) =
            {note} \X ((DOMAIN input[note].antecedents) \X (DOMAIN input[note].phrases))
      BY <1>1, StartFacts
    <3> QED BY <3>1, <3>2 DEF AllPairs
  <2> QED BY <2>1, <2>2 DEF Partitioned
<1> HIDE DEF edges
<1>7. BestFirst
  BY <1>1 DEF BestFirst
<1> QED BY <1>1, <1>2, <1>4, <1>5, <1>6, <1>7 DEF IInv

\* A step that delivers nothing needs only keep the queue what it is.
LEMMA SameOutput ==
  ASSUME IInv, input' = input, output' = output, NEW edges, generate' = SetToBag(edges),
         QueueOK(edges), Partitioned(edges, Delivered)
  PROVE  IInv'
<1>1. DOMAIN generate' = edges
  BY DEF SetToBag
<1>2. Delivered' = Delivered
  BY DEF Delivered
<1>3. QueueOK(DOMAIN generate)'
  <2>1. QueueOK(DOMAIN generate)' <=> QueueOK(edges)
    BY <1>1, SameInput DEF QueueOK
  <2> QED BY <2>1
<1>4. Partitioned(DOMAIN generate, Delivered)'
  BY <1>1, <1>2, SameInput DEF Partitioned
<1>5. BestFirst'
  BY <1>2, SameInput DEF IInv, BestFirst, Worth, Score
<1>6. output' \in Seq(Ends')
  BY SameInput DEF IInv
<1> QED BY <1>1, <1>3, <1>4, <1>5, <1>6 DEF IInv

LEMMA PopPartialInv == IInv /\ PopPartial => IInv'
<1> SUFFICES ASSUME IInv, PopPartial PROVE IInv'
  OBVIOUS
<1> DEFINE edges == DOMAIN generate
<1>1. PICK edge \in Tops :
        /\ Incomplete(edge) # {}
        /\ \E adjustment \in Adjustment(edge.note, Victim(edge), edge.nt[Victim(edge)].back,
                                         Continue(edge, 0).nt[Victim(edge)].back) :
             generate' = (generate (-) SetToBag({edge}))
               (+) SetToBag({Continue(edge, adjustment)}) (+) SetToBag(Alternate(edge))
  BY DEF PopPartial
<1>2. PICK before, after, adjustment :
        /\ adjustment \in Adjustment(edge.note, Victim(edge), before, after)
        /\ generate' = (generate (-) SetToBag({edge}))
             (+) SetToBag({Continue(edge, adjustment)}) (+) SetToBag(Alternate(edge))
  BY <1>1
<1>3. /\ edge \in edges /\ EdgeOK(edge) /\ ShowsBoth(edge)
      /\ NothingAdded => edge.score = ScoreOf(edge)
      /\ input \in Inputs /\ Partitioned(edges, Delivered) /\ generate = SetToBag(edges)
      /\ \A e \in edges : EdgeOK(e)
  BY DEF Tops, IInv, QueueOK
<1>4. adjustment \in Int
  BY <1>2, <1>3, InputFacts DEF Adjustment, EdgeOK
<1>5. PICK new : new = Continue(edge, adjustment)
  OBVIOUS
<1>6. PICK others : others = Alternate(edge)
  OBVIOUS
<1>7. /\ EdgeOK(new) /\ ShowsBoth(new) /\ ~new.data
      /\ new.score = edge.score + adjustment /\ Best(new) = Best(edge)
      /\ \A other \in others :
           /\ EdgeOK(other) /\ ShowsBoth(other) /\ ~other.data
           /\ other.score - Best(other) = edge.score - Best(edge)
           /\ Pairs(other) \cap Pairs(new) = {}
      /\ \A e, f \in others : e = f
      /\ Pairs(new) \cup Cover(others) = Pairs(edge)
  BY <1>1, <1>3, <1>4, <1>5, <1>6, SplitEdge DEF Cover
<1> DEFINE parts == {new} \cup others
<1>8. \A e \in parts : EdgeOK(e)
  BY <1>7
<1>9. \A e, f \in parts : e # f => Pairs(e) \cap Pairs(f) = {}
  BY <1>7
<1>10. Cover(parts) = Pairs(edge)
  <2>1. \A p : p \in Cover(parts) <=> p \in Pairs(new) \/ p \in Cover(others)
    BY CoverFacts
  <2> QED BY <1>7, <2>1
<1>11. /\ (edges \ {edge}) \cap parts = {}
       /\ Partitioned((edges \ {edge}) \cup parts, Delivered)
  BY <1>3, <1>8, <1>9, <1>10, ReplaceEdge
<1>12. generate' = SetToBag((edges \ {edge}) \cup parts)
  <2>1. generate (-) SetToBag({edge}) = SetToBag(edges \ {edge})
    BY <1>3, TakeOne
  <2>2. SetToBag(edges \ {edge}) (+) SetToBag({new}) = SetToBag((edges \ {edge}) \cup {new})
    BY <1>11, AddOthers
  <2>3. ((edges \ {edge}) \cup {new}) \cap others = {}
    <3>1. new \notin others
      BY <1>3, <1>7, PairsFacts
    <3> QED BY <1>11, <3>1
  <2>4. SetToBag((edges \ {edge}) \cup {new}) (+) SetToBag(others)
          = SetToBag(((edges \ {edge}) \cup {new}) \cup others)
    BY <2>3, AddOthers
  <2>5. ((edges \ {edge}) \cup {new}) \cup others = (edges \ {edge}) \cup parts
    OBVIOUS
  <2> QED BY <1>2, <1>5, <1>6, <2>1, <2>2, <2>4, <2>5
<1>13. QueueOK((edges \ {edge}) \cup parts)
  <2>1. ASSUME NothingAdded, NEW e \in parts PROVE e.score = ScoreOf(e)
    <3>1. ~edge.data
      BY <1>1, <1>3 DEF EdgeOK
    <3>2. edge.score = Best(edge) /\ Best(edge) \in Int
      BY <1>3, <2>1, <3>1, EdgeFacts DEF ScoreOf
    <3>3. adjustment = 0
      BY <1>2, <1>3, <2>1, NothingFacts
    <3>4. ~e.data /\ e.score = Best(e)
      <4>1. CASE e = new
        BY <1>7, <3>2, <3>3, <4>1
      <4>2. CASE e \in others
        <5>1. EdgeOK(e) /\ ~e.data /\ e.score - Best(e) = edge.score - Best(edge)
          BY <1>7, <4>2
        <5>2. e.score \in Int /\ Best(e) \in Int
          BY <1>3, <5>1, EdgeFacts DEF EdgeOK
        <5> QED BY <3>2, <5>1, <5>2
      <4> QED BY <4>1, <4>2
    <3>5. Best(e) \in Int
      BY <1>3, <1>8, EdgeFacts
    <3> QED BY <3>4, <3>5 DEF ScoreOf
  <2>2. \A e \in parts : EdgeOK(e) /\ ShowsBoth(e)
    BY <1>7
  <2> QED BY <2>1, <2>2 DEF IInv, QueueOK
<1> HIDE DEF edges, parts
<1>14. input' = input /\ output' = output
  BY DEF PopPartial
<1> QED BY <1>11, <1>12, <1>13, <1>14, SameOutput

LEMMA PopUnscoredInv == IInv /\ PopUnscored => IInv'
<1> SUFFICES ASSUME IInv, PopUnscored PROVE IInv'
  OBVIOUS
<1> DEFINE edges == DOMAIN generate
<1>1. PICK edge \in Tops :
        /\ Incomplete(edge) = {} /\ ~edge.data
        /\ generate' = (generate (-) SetToBag({edge}))
             (+) SetToBag({[edge EXCEPT !.score = @ + Score(edge.note, End(edge)), !.data = TRUE]})
  BY DEF PopUnscored
<1>2. /\ edge \in edges /\ EdgeOK(edge) /\ ShowsBoth(edge)
      /\ NothingAdded => edge.score = ScoreOf(edge)
      /\ input \in Inputs /\ Partitioned(edges, Delivered) /\ generate = SetToBag(edges)
      /\ \A e \in edges : EdgeOK(e)
  BY DEF Tops, IInv, QueueOK
<1>3. PICK s : s = Score(edge.note, End(edge))
  OBVIOUS
<1>4. s \in Int
  <2>1. edge.nt[1].rest \in SUBSET DOMAIN Hypos(edge, 1) /\ edge.nt[2].rest \in SUBSET DOMAIN Hypos(edge, 2)
    BY <1>2, EdgeFacts
  <2>2. Min(edge.nt[1].rest) \in edge.nt[1].rest /\ Min(edge.nt[2].rest) \in edge.nt[2].rest
    BY <1>2, EdgeFacts, FirstFacts
  <2>3. /\ Min(edge.nt[1].rest) \in DOMAIN input[edge.note].antecedents
        /\ Min(edge.nt[2].rest) \in DOMAIN input[edge.note].phrases
    BY <2>1, <2>2 DEF Hypos
  <2> QED BY <1>2, <1>3, <2>3, InputFacts DEF End, EdgeOK
<1>5. PICK new : new = [edge EXCEPT !.score = @ + s, !.data = TRUE]
  OBVIOUS
<1>6. /\ new = [note |-> edge.note, data |-> TRUE, nt |-> edge.nt, score |-> edge.score + s]
  <2>1. PICK nt, sum : nt = edge.nt /\ sum = edge.score + s
    OBVIOUS
  <2>2. edge = [note |-> edge.note, data |-> edge.data, nt |-> nt, score |-> edge.score]
    BY <1>2, <2>1 DEF EdgeOK
  <2>3. PICK middle : middle = [edge EXCEPT !.score = sum]
    OBVIOUS
  <2>4. PICK true : true = TRUE
    OBVIOUS
  <2>5. middle = [note |-> edge.note, data |-> edge.data, nt |-> nt, score |-> sum]
    BY <2>2, <2>3
  <2>6. [middle EXCEPT !.data = true] = [note |-> edge.note, data |-> true, nt |-> nt, score |-> sum]
    BY <2>5
  <2>7. new = [middle EXCEPT !.data = true]
    BY <1>5, <2>1, <2>3, <2>4
  <2> QED BY <2>1, <2>4, <2>6, <2>7
<1>7. /\ new.note = edge.note /\ new.data = TRUE /\ new.nt = edge.nt /\ new.score = edge.score + s
  BY <1>6
<1>8. /\ \A i \in 1 .. 2 : Hypos(new, i) = Hypos(edge, i)
      /\ Incomplete(new) = {} /\ Pairs(new) = Pairs(edge) /\ Best(new) = Best(edge) /\ End(new) = End(edge)
  BY <1>1, <1>7 DEF Hypos, Incomplete, Pairs, Best, End
<1>9. EdgeOK(new) /\ ShowsBoth(new)
  <2>1. new = [note |-> new.note, data |-> new.data, nt |-> <<new.nt[1], new.nt[2]>>, score |-> new.score]
    <3>1. edge.nt = <<edge.nt[1], edge.nt[2]>>
      <4>1. PICK first, second : first = edge.nt[1] /\ second = edge.nt[2]
        OBVIOUS
      <4>2. edge = [note |-> edge.note, data |-> edge.data, nt |-> <<first, second>>, score |-> edge.score]
        BY <1>2, <4>1 DEF EdgeOK
      <4> QED BY <4>1, <4>2
    <3>2. <<new.nt[1], new.nt[2]>> = edge.nt
      BY <1>7, <3>1
    <3> QED BY <1>6, <1>7, <3>2
  <2>2. \A i \in 1 .. 2 : PartialOK(Hypos(new, i), new.nt[i])
    BY <1>2, <1>7, <1>8 DEF EdgeOK
  <2>3. new.note \in DOMAIN input /\ new.data \in BOOLEAN /\ new.score \in Int
    <3>1. edge.note \in DOMAIN input /\ edge.score \in Int
      BY <1>2 DEF EdgeOK
    <3>2. new.score \in Int
      BY <1>4, <1>7, <3>1
    <3>3. new.data \in BOOLEAN
      BY <1>7
    <3> QED BY <1>7, <3>1, <3>2, <3>3
  <2> QED BY <1>2, <1>7, <1>8, <2>1, <2>2, <2>3 DEF EdgeOK, ShowsBoth
<1>10. /\ (edges \ {edge}) \cap {new} = {}
       /\ Partitioned((edges \ {edge}) \cup {new}, Delivered)
  <2>1. Cover({new}) = Pairs(edge)
    <3>1. \A p : p \in Cover({new}) <=> p \in Pairs(new)
      BY CoverFacts
    <3> QED BY <1>8, <3>1
  <2> QED BY <1>2, <1>9, <2>1, ReplaceEdge
<1>11. generate' = SetToBag((edges \ {edge}) \cup {new})
  <2>1. generate (-) SetToBag({edge}) = SetToBag(edges \ {edge})
    BY <1>2, TakeOne
  <2>2. SetToBag(edges \ {edge}) (+) SetToBag({new}) = SetToBag((edges \ {edge}) \cup {new})
    BY <1>10, AddOthers
  <2>3. generate' = (generate (-) SetToBag({edge})) (+) SetToBag({new})
    BY <1>1, <1>3, <1>5
  <2> QED BY <2>1, <2>2, <2>3
<1>12. QueueOK((edges \ {edge}) \cup {new})
  <2>1. ASSUME NothingAdded PROVE new.score = ScoreOf(new)
    <3>1. edge.score = Best(edge) /\ Best(edge) \in Int
      BY <1>1, <1>2, <2>1, EdgeFacts DEF ScoreOf
    <3> QED BY <1>3, <1>4, <1>7, <1>8, <3>1 DEF ScoreOf
  <2> QED BY <1>9, <2>1 DEF IInv, QueueOK
<1> HIDE DEF edges
<1>13. input' = input /\ output' = output
  BY DEF PopUnscored
<1> QED BY <1>10, <1>11, <1>12, <1>13, SameOutput

\* The pair of the edge delivered is one that was not.
LEMMA DeliverFacts ==
  ASSUME IInv, PopHypothesis
  PROVE  \E edge \in Tops :
           /\ edge.data /\ Pairs(edge) = {<<edge.note, End(edge)>>}
           /\ generate' = SetToBag(DOMAIN generate \ {edge})
           /\ output' = Append(output, [note |-> edge.note, pair |-> End(edge)])
           /\ output' \in Seq(Ends)
           /\ Delivered' = Delivered \cup Pairs(edge)
           /\ <<edge.note, End(edge)>> \in AllPairs \ Delivered
<1>1. PICK edge \in Tops :
        /\ Incomplete(edge) = {} /\ edge.data
        /\ generate' = generate (-) SetToBag({edge})
        /\ output' = Append(output, [note |-> edge.note, pair |-> End(edge)])
  BY DEF PopHypothesis
<1>2. /\ edge \in DOMAIN generate /\ EdgeOK(edge)
      /\ input \in Inputs /\ Partitioned(DOMAIN generate, Delivered)
      /\ generate = SetToBag(DOMAIN generate) /\ output \in Seq(Ends)
  BY DEF Tops, IInv, QueueOK
<1>3. PICK note, pair : note = edge.note /\ pair = End(edge)
  OBVIOUS
<1>4. Pairs(edge) = {<<note, pair>>} /\ Pairs(edge) \subseteq AllPairs
  BY <1>1, <1>2, <1>3, PairsFacts
<1>5. Pairs(edge) \cap Delivered = {}
  BY <1>2 DEF Partitioned
<1>6. generate' = SetToBag(DOMAIN generate \ {edge})
  BY <1>1, <1>2, TakeOne
<1>7. PICK end : end = [note |-> note, pair |-> pair]
  OBVIOUS
<1>8. end \in Ends /\ end.note = note /\ end.pair = pair
  BY <1>4, <1>7 DEF Ends
<1>9. output' = Append(output, end)
  BY <1>1, <1>3, <1>7
<1>10. /\ output' \in Seq(Ends) /\ DOMAIN output' = DOMAIN output \cup {Len(output) + 1}
       /\ \A i \in DOMAIN output : output'[i] = output[i]
       /\ output'[Len(output) + 1] = end
  BY <1>2, <1>8, <1>9
<1>11. Delivered' = Delivered \cup {<<note, pair>>}
  <2>1. Delivered' = {<<output'[i].note, output'[i].pair>> : i \in DOMAIN output'}
    BY DEF Delivered
  <2> QED BY <1>8, <1>10, <2>1 DEF Delivered
<1> QED BY <1>1, <1>3, <1>4, <1>5, <1>6, <1>10, <1>11

LEMMA PopHypothesisInv == IInv /\ PopHypothesis => IInv'
<1> SUFFICES ASSUME IInv, PopHypothesis PROVE IInv'
  OBVIOUS
<1> DEFINE edges == DOMAIN generate
<1>1. PICK edge \in Tops :
        /\ edge.data /\ Pairs(edge) = {<<edge.note, End(edge)>>}
        /\ generate' = SetToBag(edges \ {edge})
        /\ output' = Append(output, [note |-> edge.note, pair |-> End(edge)])
        /\ output' \in Seq(Ends)
        /\ Delivered' = Delivered \cup Pairs(edge)
        /\ <<edge.note, End(edge)>> \in AllPairs \ Delivered
  BY DeliverFacts
<1>2. /\ edge \in edges /\ EdgeOK(edge) /\ input \in Inputs /\ Partitioned(edges, Delivered)
      /\ output \in Seq(Ends)
      /\ \A other \in edges : other.score <= edge.score
      /\ \A e \in edges : EdgeOK(e) /\ (NothingAdded => e.score = ScoreOf(e))
  BY DEF Tops, IInv, QueueOK
<1>3. input' = input
  BY DEF PopHypothesis
<1>4. DOMAIN generate' = edges \ {edge}
  BY <1>1 DEF SetToBag
<1>5. QueueOK(DOMAIN generate)'
  <2>1. QueueOK(edges \ {edge})
    BY DEF IInv, QueueOK
  <2>2. QueueOK(DOMAIN generate)' <=> QueueOK(edges \ {edge})
    BY <1>3, <1>4, SameInput DEF QueueOK
  <2> QED BY <2>1, <2>2
<1>6. Partitioned(DOMAIN generate, Delivered)'
  <2>1. Partitioned(edges \ {edge}, Delivered \cup Pairs(edge))
    BY <1>2, DeliverEdge
  <2> QED BY <1>1, <1>3, <1>4, <2>1, SameInput DEF Partitioned
<1>7. ASSUME NothingAdded,
             NEW i \in DOMAIN output', NEW later \in AllPairs \ (Delivered \cup Pairs(edge))
      PROVE  Worth(output'[i].note, output'[i].pair) >= Worth(later[1], later[2])
  <2>1. CASE i \in DOMAIN output
    <3>1. output'[i] = output[i]
      BY <1>1, <1>2, <2>1
    <3> QED BY <1>7, <2>1, <3>1 DEF IInv, BestFirst
  <2>2. CASE i \notin DOMAIN output
    <3>1. output'[i].note = edge.note /\ output'[i].pair = End(edge)
      <4>1. PICK end : end = [note |-> edge.note, pair |-> End(edge)]
        OBVIOUS
      <4>2. output'[i] = end
        BY <1>1, <1>2, <1>7, <2>2, <4>1
      <4> QED BY <4>1, <4>2
    <3>2. PICK other \in edges : later \in Pairs(other)
      BY <1>2, <1>7, CoverFacts DEF Partitioned
    <3>3. Worth(later[1], later[2]) \in Int /\ Worth(later[1], later[2]) <= other.score
      BY <1>2, <1>7, <3>2, NoneAbove
    <3>4. Worth(edge.note, End(edge)) \in Int /\ Worth(edge.note, End(edge)) = edge.score
      <4>1. PICK p \in Pairs(edge) : p = <<edge.note, End(edge)>>
        BY <1>1
      <4>2. p[1] = edge.note /\ p[2] = End(edge)
        BY <4>1
      <4> QED BY <1>1, <1>2, <1>7, <4>2, NoneAbove
    <3>5. other.score <= edge.score /\ other.score \in Int /\ edge.score \in Int
      BY <1>2, <3>2 DEF EdgeOK
    <3> QED BY <3>1, <3>3, <3>4, <3>5
  <2> QED BY <2>1, <2>2
<1>8. BestFirst'
  <2>1. /\ AllPairs' = AllPairs /\ Delivered' = Delivered \cup Pairs(edge)
        /\ NothingAdded' <=> NothingAdded
        /\ \A note, pair : Worth(note, pair)' = Worth(note, pair)
    BY <1>1, <1>3, SameInput DEF Worth, Score
  <2> QED BY <1>7, <2>1 DEF BestFirst
<1>9. output' \in Seq(Ends')
  BY <1>1, <1>3, SameInput
<1> QED BY <1>1, <1>2, <1>3, <1>4, <1>5, <1>6, <1>8, <1>9 DEF IInv

LEMMA StepInv == IInv /\ [Next]_vars => IInv'
<1> SUFFICES ASSUME IInv, [Next]_vars PROVE IInv'
  OBVIOUS
<1>1. CASE PopPartial
  BY <1>1, PopPartialInv
<1>2. CASE PopUnscored
  BY <1>2, PopUnscoredInv
<1>3. CASE PopHypothesis
  BY <1>3, PopHypothesisInv
<1>4. CASE UNCHANGED vars
  <2>1. input' = input /\ output' = output /\ generate' = SetToBag(DOMAIN generate)
    BY <1>4 DEF vars, IInv
  <2> QED BY <2>1, SameOutput DEF IInv
<1> QED BY <1>1, <1>2, <1>3, <1>4 DEF Next

LEMMA Inductive == Spec => []IInv
BY InitInv, StepInv, PTL DEF Spec

------------------------------------------------------------------------------
\* The properties.

\* Splitting an edge loses no pair and doubles none: at every moment the edges of
\* the queue and what NewHypothesis took partition the pairs that were added.
THEOREM SplitPartitions == Spec => []EachPairOnce
<1>1. IInv => EachPairOnce
  <2> SUFFICES ASSUME IInv PROVE EachPairOnce
    OBVIOUS
  <2>1. \A edge \in DOMAIN generate : generate[edge] = 1
    BY DEF IInv, SetToBag
  <2> QED BY <2>1 DEF IInv, Partitioned, Cover, EachPairOnce
<1> QED BY <1>1, Inductive, PTL

\* What FinishedAppending lets a node show of its sides, and that it shows them
\* entirely, is true of every hypothesis below the node.
THEOREM NodesShowTheShared == Spec => []ShownIsShared
<1>1. IInv => ShownIsShared
  BY DEF IInv, QueueOK, ShowsBoth, Shows, ShownIsShared
<1> QED BY <1>1, Inductive, PTL

\* The queue bounds what is below its edges: when nothing is added to a score,
\* nothing delivered is worth less than anything that is still to come.
THEOREM BestComesFirst == Spec => []BestFirst
<1>1. IInv => BestFirst
  BY DEF IInv
<1> QED BY <1>1, Inductive, PTL

\* The search implements what the stacks are promised: each delivery is of a pair
\* that was added and not yet delivered, and counts against the pop limit; every
\* other pop is a stutter.
THEOREM SearchDeliversPairs == Spec => DeliversPairs
<1>1. Init => Pairing!Init
  BY DEF Init, Pairing!Init, Delivered
<1>2. IInv /\ [Next]_vars => [Pairing!Deliver]_(Pairing!vars)
  <2> SUFFICES ASSUME IInv, [Next]_vars PROVE [Pairing!Deliver]_(Pairing!vars)
    OBVIOUS
  <2>1. CASE PopHypothesis
    <3>1. PICK edge \in Tops : /\ Delivered' = Delivered \cup Pairs(edge)
                              /\ Pairs(edge) = {<<edge.note, End(edge)>>}
                              /\ <<edge.note, End(edge)>> \in AllPairs \ Delivered
      BY <2>1, DeliverFacts
    <3>2. /\ toPop > 0 /\ toPop' = toPop - 1 /\ AllPairs' = AllPairs
      BY <2>1, SameInput DEF PopHypothesis
    <3> QED BY <3>1, <3>2 DEF Pairing!Deliver
  <2>2. CASE PopPartial \/ PopUnscored \/ UNCHANGED vars
    <3>1. input' = input /\ output' = output /\ toPop' = toPop
      BY <2>2 DEF PopPartial, PopUnscored, vars
    <3>2. AllPairs' = AllPairs /\ Delivered' = Delivered
      BY <3>1, SameInput DEF Delivered
    <3> QED BY <3>1, <3>2 DEF Pairing!vars
  <2> QED BY <2>1, <2>2 DEF Next
<1> QED BY <1>1, <1>2, Inductive, PTL DEF Spec, DeliversPairs, Pairing!Spec
==============================================================================
