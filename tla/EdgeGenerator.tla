---------------------------- MODULE EdgeGenerator ----------------------------
(***************************************************************************)
(* search/vertex.{hh,cc} and edge_generator.{hh,cc} with the output side   *)
(* of decode/stacks.cc: the best-first search over pairs of an antecedent  *)
(* and a target phrase.  A vertex groups hypotheses in a tree by their     *)
(* language model state, built lazily from the root.  The hypotheses of a  *)
(* vertex are a sequence in the order of their scores; a node names those  *)
(* it holds by their positions, so the order of vectors is the order of    *)
(* numbers.  A language model state has the pointers of its left side and  *)
(* the words of its right side (sequences), and the flag full of its left. *)
(*                                                                         *)
(* An edge holds a partial vertex of antecedents and one of phrases; the   *)
(* best edge is split in two until both vertices are single hypotheses.    *)
(* What the language model says when words of the junction are shown is    *)
(* any of the edge's adjustments, what the features say of a pair is       *)
(* PairScore.                                                              *)
(***************************************************************************)
EXTENDS Integers, Sequences, FiniteSets, FiniteSetsExt, Bags, SequencesExt

CONSTANTS
  Inputs,          \* the edges of one search: sequences of antecedents and phrases,
                   \* both sorted by score, with what FastScore may add
  PopLimit,
  PairScore(_, _)  \* ScoreHypothesisWithPhrasePair

ASSUME PopLimitAssumption == PopLimit \in Nat \ {0}

\* A vertex has a hypothesis, and the best first (FinishRoot sorts them).
States == [left : Seq(Nat), full : BOOLEAN, right : Seq(Nat)]
Vertex(hypos) ==
  /\ hypos \in Seq([state : States, score : Int]) /\ hypos # << >>
  /\ \A i, j \in DOMAIN hypos : i < j => hypos[j].score <= hypos[i].score

ASSUME InputsAssumption ==
  \A added \in Inputs : \A note \in DOMAIN added :
    LET pair == added[note]
    IN  /\ Vertex(pair.antecedents) /\ Vertex(pair.phrases)
        /\ pair.adjustments \subseteq Int
        /\ \A i \in DOMAIN pair.antecedents, j \in DOMAIN pair.phrases :
             PairScore(pair.antecedents[i], pair.phrases[j]) \in Int

VARIABLES
  input,      \* what was added
  generate,   \* generate_, a bag as the code may hold equal edges
  output,     \* the complete edges given to NewHypothesis, in order
  toPop       \* to_pop

vars == <<input, generate, output, toPop>>

------------------------------------------------------------------------------
\* Vertices

Left == "left"      \* kPolicyLeft
Right == "right"    \* kPolicyRight
All == "all"        \* kPolicyAll

\* The key a hypothesis is divided by: what follows the length all of them share.
\* The code's keys for a side that has ended are the largest numbers of 64 bits.
Divider(side, full, length) ==
  IF length < Len(side) THEN side[length + 1] ELSE IF full THEN -2 ELSE -1

\* DetermineSame: how far the sides agree, and whether they do entirely.
Shared(sides) ==
  LET some == CHOOSE s \in sides : \A t \in sides : Len(s) <= Len(t)
  IN  Max({k \in 0 .. Len(some) : \A s \in sides : SubSeq(s, 1, k) = SubSeq(some, 1, k)})
Agree(sides) == Cardinality(sides) = 1

\* Mutant: a right side all agree on counts as full whatever the left sides are.
NodeForgetsFull(members, states, root, policy, niceness) ==
  LET some == CHOOSE s \in states : TRUE
      lefts == {s.left : s \in states}
      rights == {s.right : s \in states}
  IN  [members |-> members, root |-> root, policy |-> policy, niceness |-> niceness,
       left |-> SubSeq(some.left, 1, Shared(lefts)), full |-> (\A s \in states : s.full) /\ Agree(lefts),
       right |-> SubSeq(some.right, 1, Shared(rights)), rightFull |-> Agree(rights)]

Node(members, states, root, policy, niceness) ==
  LET allFull == \A s \in states : s.full
      some == CHOOSE s \in states : TRUE
      lefts == {s.left : s \in states}
      rights == {s.right : s \in states}
  IN  [members |-> members, root |-> root, policy |-> policy, niceness |-> niceness,
       left |-> SubSeq(some.left, 1, Shared(lefts)), full |-> allFull /\ Agree(lefts),
       right |-> SubSeq(some.right, 1, Shared(rights)), rightFull |-> allFull /\ Agree(rights)]

\* The side a policy branches on.
Sides(policy, states) == {IF policy = Left THEN s.left ELSE s.right : s \in states}

FinishedAppending(hypos, members, policy) ==
  LET states == {hypos[i].state : i \in members}
      shown == /\ policy # All /\ Agree(Sides(policy, states))
               /\ (\A s \in states : s.full) \/ (\A s \in states : ~s.full)
  IN  Node(members, states, FALSE,
           IF shown THEN All ELSE policy,
           IF shown THEN 254 ELSE Shared(Sides(policy, states)))

\* FinishRoot: it shows nothing.
FinishRoot(hypos, policy) ==
  [members |-> DOMAIN hypos, root |-> TRUE, policy |-> policy, niceness |-> 0,
   left |-> << >>, right |-> << >>, full |-> FALSE, rightFull |-> FALSE]

\* What Split puts a hypothesis under; with kPolicyAll each is by itself.
SplitKey(hypos, node, i) ==
  LET state == hypos[i].state
  IN  IF node.policy = All THEN i
      ELSE IF node.policy = Left THEN Divider(state.left, state.full, Len(node.left))
      ELSE Divider(state.right, state.full, Len(node.right))

------------------------------------------------------------------------------
\* PartialVertex: a node from one of its children on.  The children are in the
\* order of their first hypotheses; rest are the hypotheses of those from index_ on.

Partial(node) == [back |-> node, rest |-> node.members]

Complete(vertex) == Cardinality(vertex.back.members) = 1 /\ ~vertex.back.root

Bound(hypos, vertex) == hypos[Min(vertex.rest)].score

\* The child at index_: BuildExtend for the hypotheses with the key of the first.
Child(hypos, vertex) ==
  {i \in vertex.rest : SplitKey(hypos, vertex.back, i) = SplitKey(hypos, vertex.back, Min(vertex.rest))}

Continuation(hypos, vertex) ==
  Partial(FinishedAppending(hypos, Child(hypos, vertex), vertex.back.policy))
HasAlternative(hypos, vertex) == Child(hypos, vertex) # vertex.rest

\* Mutant: the alternative does not advance index_.
AlternativeStays(hypos, vertex) == vertex

Alternative(hypos, vertex) == [vertex EXCEPT !.rest = @ \ Child(hypos, vertex)]

------------------------------------------------------------------------------
\* AddEdge of stacks.cc.  Antecedents are branched on their right side only and
\* phrases on their left: the sides that meet.
StartEdge(note, pair) ==
  [note |-> note, data |-> FALSE,
   nt |-> <<Partial(FinishRoot(pair.antecedents, Right)), Partial(FinishRoot(pair.phrases, Left))>>,
   score |-> pair.antecedents[1].score + pair.phrases[1].score]

Init ==
  /\ input \in Inputs
  /\ generate = SetToBag({StartEdge(note, input[note]) : note \in DOMAIN input})
  /\ output = << >>
  /\ toPop = PopLimit

------------------------------------------------------------------------------
\* The hypotheses of the vertex an edge has at position i.
Hypos(edge, i) == IF i = 1 THEN input[edge.note].antecedents ELSE input[edge.note].phrases

Incomplete(edge) == {i \in 1 .. 2 : ~Complete(edge.nt[i])}

\* The incomplete vertex of lowest niceness, the first of two.
Victim(edge) ==
  CHOOSE i \in Incomplete(edge) :
    \A j \in Incomplete(edge) :
      \/ edge.nt[i].back.niceness < edge.nt[j].back.niceness
      \/ edge.nt[i].back.niceness = edge.nt[j].back.niceness /\ i <= j

\* Whether the continuation of a victim shows words that meet words of the other
\* vertex: the conditions of FastScore, for the side of the junction.
Reveals(victim, before, after) ==
  IF victim = 1
  THEN Len(after.right) > Len(before.right) \/ (after.rightFull /\ ~before.rightFull)
  ELSE Len(after.left) > Len(before.left) \/ (after.full /\ ~before.full)

Adjustment(note, victim, before, after) ==
  IF Reveals(victim, before, after) THEN input[note].adjustments ELSE {0}

Tops == {edge \in DOMAIN generate : \A other \in DOMAIN generate : other.score <= edge.score}

\* Mutant: the alternative keeps the score of the edge it came from.
AlternateKeepsScore(edge) ==
  LET victim == Victim(edge)
      old == edge.nt[victim]
  IN  {[edge EXCEPT !.nt[victim] = new] :
         new \in {Alternative(Hypos(edge, victim), v) : v \in {u \in {old} : HasAlternative(Hypos(edge, victim), u)}}}

\* The alternative of an edge, if there is one.
Alternate(edge) ==
  LET victim == Victim(edge)
      hypos == Hypos(edge, victim)
      old == edge.nt[victim]
      new == Alternative(hypos, old)
  IN  IF HasAlternative(hypos, old)
      THEN {[edge EXCEPT !.nt[victim] = new, !.score = @ + Bound(hypos, new) - Bound(hypos, old)]}
      ELSE {}

\* top, which becomes the continuation.
Continue(edge, adjustment) ==
  LET victim == Victim(edge)
  IN  [edge EXCEPT !.nt[victim] = Continuation(Hypos(edge, victim), @), !.score = @ + adjustment]

\* Pop of an edge with an incomplete vertex: no new hypothesis.
PopPartial ==
  /\ toPop > 0
  /\ \E edge \in Tops :
       /\ Incomplete(edge) # {}
       /\ \E adjustment \in Adjustment(edge.note, Victim(edge), edge.nt[Victim(edge)].back,
                                         Continue(edge, 0).nt[Victim(edge)].back) :
            generate' = (generate (-) SetToBag({edge}))
              (+) SetToBag({Continue(edge, adjustment)}) (+) SetToBag(Alternate(edge))
  /\ UNCHANGED <<input, output, toPop>>

\* The pair of a complete edge, and what scores it.
End(edge) == <<Min(edge.nt[1].rest), Min(edge.nt[2].rest)>>
Score(note, pair) == PairScore(input[note].antecedents[pair[1]], input[note].phrases[pair[2]])

\* NewHypothesis for an edge without hypothesis: UpdateHypothesisInEdge scores the
\* pair and the edge goes back into the queue.
PopUnscored ==
  /\ toPop > 0
  /\ \E edge \in Tops :
       /\ Incomplete(edge) = {} /\ ~edge.data
       /\ generate' = (generate (-) SetToBag({edge}))
            (+) SetToBag({[edge EXCEPT !.score = @ + Score(edge.note, End(edge)),
                                       !.data = TRUE]})
  /\ UNCHANGED <<input, output, toPop>>

\* Mutant: NewHypothesis does not say that it took a hypothesis.
PopHypothesisFree ==
  /\ toPop > 0
  /\ \E edge \in Tops :
       /\ Incomplete(edge) = {} /\ edge.data
       /\ generate' = generate (-) SetToBag({edge})
       /\ output' = Append(output, [note |-> edge.note, pair |-> End(edge)])
  /\ UNCHANGED <<input, toPop>>

\* NewHypothesis for an edge that has its hypothesis.
PopHypothesis ==
  /\ toPop > 0
  /\ \E edge \in Tops :
       /\ Incomplete(edge) = {} /\ edge.data
       /\ generate' = generate (-) SetToBag({edge})
       /\ output' = Append(output, [note |-> edge.note, pair |-> End(edge)])
  /\ toPop' = toPop - 1
  /\ UNCHANGED input

Next == PopPartial \/ PopUnscored \/ PopHypothesis

Spec == Init /\ [][Next]_vars

------------------------------------------------------------------------------
\* The pairs an edge stands for, and all there are.
Pairs(edge) == {edge.note} \X (edge.nt[1].rest \X edge.nt[2].rest)
AllPairs ==
  UNION {{note} \X ((DOMAIN input[note].antecedents) \X (DOMAIN input[note].phrases)) : note \in DOMAIN input}
Delivered == {<<output[i].note, output[i].pair>> : i \in DOMAIN output}

\* The edges in the queue and what was delivered partition the pairs: splitting
\* neither loses a pair nor makes one twice.
EachPairOnce ==
  /\ \A edge \in DOMAIN generate : generate[edge] = 1 /\ Pairs(edge) \cap Delivered = {}
  /\ \A e, f \in DOMAIN generate : e # f => Pairs(e) \cap Pairs(f) = {}
  /\ Delivered \cup UNION {Pairs(e) : e \in DOMAIN generate} = AllPairs

\* What a node shows is true of every hypothesis below it.
ShownIsShared ==
  \A edge \in DOMAIN generate : \A i \in 1 .. 2 :
    LET node == edge.nt[i].back
    IN  \A h \in node.members :
          LET state == Hypos(edge, i)[h].state
          IN  /\ IsPrefix(node.left, state.left) /\ IsPrefix(node.right, state.right)
              /\ node.full => state.full /\ state.left = node.left
              /\ node.rightFull => state.full /\ state.right = node.right

\* When the language model adds nothing to a score and the features no more than
\* nothing, what is delivered is worth no less than anything still to come.
Worth(note, pair) ==
  input[note].antecedents[pair[1]].score + input[note].phrases[pair[2]].score + Score(note, pair)
NothingAdded ==
  \A note \in DOMAIN input :
    /\ input[note].adjustments = {0}
    /\ \A i \in DOMAIN input[note].antecedents, j \in DOMAIN input[note].phrases : Score(note, <<i, j>>) <= 0
BestFirst ==
  NothingAdded =>
  \A i \in DOMAIN output : \A later \in AllPairs \ Delivered :
    Worth(output[i].note, output[i].pair) >= Worth(later[1], later[2])

Pairing == INSTANCE PairSearch WITH pairs <- AllPairs, popped <- Delivered

\* What is delivered is each time a pair that was not delivered before.
DeliversPairs == Pairing!Spec
==============================================================================
